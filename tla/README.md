# torOS in TLA+

torOS is a small operating system for AArch64 written in C: a kernel (memory, interrupts,
a preemptive scheduler, an in-memory file system), drivers over virtio and xHCI, a windowing
system, a network and a storage stack, and applications. This directory holds its
specification: modules that translate the code's state and operations, TLC configurations
that check them on small instances, and proofs checked by TLAPS for instances of every size.
Paths below are relative to the repository's sources.

## 1. The system

`kernel_main` brings the parts up in this order, each on top of those above it. A line says
which state a part keeps, what changes it, who it meets, and what makes it correct.

| part | state | operations | meets | hard behaviour, and what must hold |
|---|---|---|---|---|
| page allocator, heap (`kernel/mm.c`) | bitmap, free count, heap pointer | `mm_init`, `page_alloc`, `page_free`, `kmalloc` | everybody; no lock | two origins for bit indices, stale bits, other CPUs: no page twice, count right |
| virtual memory (`kernel/vm.c`) | page tables in allocator pages | `vm_init`, `vm_user_map`, `vm_user_unmap`, `vm_va2pa` | page allocator | failure half way through a walk, reused pages: a mapping changes one page at a time |
| GIC, traps, timer (`kernel/gic.c`, `trap.S`, `trap.c`) | registers, `jiffies` | `irq_handle`, `sync_handle` | scheduler | interrupts between any two statements |
| scheduler (`kernel/sched.c`, `user.c`, `syscall.c`) | `proc_table`, ready list, `current_proc` | `proc_create`, `yield`, `sleep`, `schedule`, `user_proc_create` | timer interrupt, page allocator, monitor | `schedule()` nested in itself, late failures: list and states agree, everybody runs, sleepers wake |
| SMP, spinlocks (`kernel/smp.c`, `spinlock.c`) | lock words, CPU count, per-CPU nesting | `spin_lock`, `spin_unlock`, `push_off`, `pop_off`, `smp_init` | all lock users | mutual exclusion, starvation, lost increments of the CPU count |
| input (`kernel/input_event.c`, `virtio_input.c`) | device and handler lists, event rings, key state | register, unregister, report, read | USB, desktop | full rings, registration order: no event lost or invented |
| USB (`kernel/usb_xhci.c`) | ports, slots, event ring | reset, start, port change, hot-plug, HID reports | input | connect and disconnect racing reports |
| GPU (`kernel/virtio_gpu.c`, `gpu_buffer.c`, `fb.c`) | resources, front and back buffers | create, attach, transfer, flush, swap | compositor | swap against draw, failed initialisation |
| DMA-BUF (`kernel/dmabuf.c`) | handle list, reference counts | create, get, ref, unref, export, import | page allocator | lookup racing the last unref |
| window manager (`kernel/window.c`) | window list, states, focus, geometry | create, destroy, show, hide, minimise, maximise, restore, move, resize, activate, raise, lower | desktops, compositor, applications | long sequences of calls: list exact, one active window, hit-testing |
| virtual desktops (`kernel/virtual_desktop.c`) | desktops, current one, a list each | switch, create, close, move window | window manager's links | shared links, shifted indices |
| clip regions (`kernel/clip.c`) | lists of rectangles | add, subtract, intersect | compositor | region algebra equals set algebra |
| compositor (`kernel/compositor.c`) | buffer, switches, counters | compose all, compose a rectangle | window list | culling, which ignores opacity and shadows, must not hide what is on top |
| desktop shell (`kernel/desktop.c`) | start menu, clock, wallpaper | toggle, click, draw | window manager | menu and taskbar agree with windows |
| widgets (`kernel/widget*.c`) | widget table, focus, per-widget values | create, mouse, key, set | windows, applications | focus on destroyed windows, lists at capacity |
| torFS (`kernel/fs.c`) | file table, block bitmap, blocks | create, write, read, delete | shell, log, applications | short writes, holes, wrap-around: a store of named contents |
| storage (`kernel/fs_advanced.c`) | block devices, cache, partitions, descriptors | register, read, write, scan, open | torFS's callers | cache coherence, failed writes |
| network (`kernel/network.c`, `network_sock.c`) | rings, ARP table, sockets, ports | send, receive, connect, accept, close | applications | loss, duplication, order, port reuse |
| sessions (`kernel/init.c`) | users, sessions | log in and out, lock | window manager | slots used again: a desktop window per session |
| security (`kernel/security.c`) | contexts, sandboxes, audit ring | check, grant, drop, enter, log | init | levels that change, order of rules, ring wrap |
| audio (`kernel/audio.c`) | device state, buffer position, clips | init, write, play, stop | applications | positions at the limits |
| log, monitor (`kernel/debug_log.c`, `debug.c`) | ring of entries, drop count | write, dump, save | all | wrap and drops counted |
| fonts, images (`kernel/font.c`, `image.c`) | glyph cache, pictures' heap blocks | load, lay out, draw, scale | widgets, heap | failing loads, full caches, sizes at the edges: one owner per block, nothing drawn outside |
| console, clock, library | none shared | format, copy | all | data transformation |
| applications and shells (`kernel/app*.c`, `shell*.c`) | registry, instances, timers, each program's data | launch, close, timers, commands | all of the above | callbacks that change the table being walked, reused addresses |

Interaction is by direct calls. The only asynchrony is the timer interrupt, which calls
`schedule()` from inside whatever it interrupted, the secondary CPUs that `smp_init`
starts, and devices that fill rings. `PROJECT.json` lists the same parts with their status
and the hazards at the lines where they bite.

The tree does not compile as it stands: `app.c`, `app_extra.c`, `audio.c`, `debug.c`,
`debug_log.c`, `image.c`, `network_sock.c`, `shell.c` and the three `widget*.c` use fields and
types their headers do not declare, `font.c` includes a missing header, and
`inflate_block_fixed` names two undeclared tables. The models take these functions as their
text says; a limit that is nowhere defined is a constant.

## 2. The plan

1. *Core of the kernel*: `Scheduler`; `PageAllocator` and `VirtualMemory`; `TorFS`. Done.
2. *Windowing*: `WindowManager`, `VirtualDesktops`, `Desktops` with the compositor, `Regions`. Done.
3. *Sharing between CPUs*: `Spinlock`, `DmaBuf` on it and on `PageAllocator`. Done.
4. *Network*: card, ARP and IP, both socket interfaces, over a network that loses, repeats and
   reorders. Done; sequence numbers are not checked by the code and not modelled.
5. *Storage*: cache, partitions, mounts, descriptors. Done.
6. *Services and devices*: sessions, security, logs, input, USB hot-plug, GPU and its
   buffers, audio. Done.
7. *Programs*: widgets, text, timers, instances, taskbar, file lists, fonts, images. Done for
   what keeps state; the rest of the user interface code is not modelled.
8. *Proofs*: every safety property of a passing run, for every value of the constants. Done.

What would come next: several CPUs inside `page_alloc` together with `smp_init`; `enqueue` and
`dequeue` at the grain of their stores; the descriptors of the transmit ring and xHCI's transfer
rings. `enqueue` at that grain would need a proof that says which of its stores an interrupt may see.

## 3. Modules

A component's module has its constants with their assumptions, variables, one action per call or
step, its properties, and the operators named "Mutant of": the same definition with a
plausible slip. `PROJECT.json` lists one mutant per checked property; a property that joins
several has mutants for its parts in the modules, and TLC finds each of them.

### Scheduler, SchedulerProofs

`Scheduler` has one CPU and two contexts, `thread` and `irq`. `proc_create`, `sleep` and
`schedule()` neither lock nor mask interrupts, so they are modelled statement by statement, with a
position (`pc`) for every statement that reads or writes what the other context uses, named by its
line, and with their locals per context; `Tick` (the timer's part of `irq_handle`) may start another
`schedule()` between any two of the first one's steps. `proc_create` is `ProcCreate` (the slot),
`Mark` (RUNNABLE, in no list), `QueueNew` or `KernelStackFails`; `user_proc_create` may fail to allocate
its user stack afterwards (`UserStackFails`). `sleep` is `Sleep` (the deadline) and `FallAsleep` (the
state). Putting the current process back, lines 118 to 120, is `Requeue`, `Unrun`, `PutBack`: three
uses of `current`, which is not volatile, so that each may be of the value loaded first (`held`)
or of the present one (`Reload`). The list threaded through `proc_t.next` is the sequence `queue`
with the flag `looped` for the one malformed shape reachable. A walk of a looped list does not end:
that context goes to `hung`. `jiffies` is unbounded in the code; only the ticks left until a
deadline are kept.

An interrupt does harm at ten of these positions, `Harmful`: before lines 101, 112, 119 and 127, where
a pointer or a test becomes stale, before 113, 120 and 136, where a RUNNABLE process is in no
list, and before 124, 132 and 137, where the CPU is accounted to nobody or to the wrong process.
`reentered` records it. The set is the smallest: with any of the ten left out TLC finds
`QueueIsRunnable`, `OneRunning` or `RunnableRuns` violated. What the properties say is that interrupts
everywhere else are harmless, however many come, and that without a harmful one every process runs.
`NoOvertaking` and `MonitorCoversLive` hold with any interrupts.

`enqueue` and `dequeue` are single steps: an interrupt in the middle of one is not modelled. On
CPU 0 `schedule()` is reached from `irq_handle` and from the system call sleep, where the
processor masks interrupts; `yield`, `proc_create` and `user_proc_create` have no callers in the
tree, and none of them masks: the model takes them as a kernel thread would call them. The
secondary CPUs call `schedule()` without a lock (`kernel/smp.c:52`), on a list that is empty then; they are
left out. Whether the timer interrupt is delivered at all depends on GIC setup that is not
modelled: no call of `gic_enable_irq` enables the timer's interrupt, and `irq_handle` does not
acknowledge it at the CPU interface. `Tick` assumes what README.md:91 of the repository says,
"Generic Timer @ 100Hz preemptive scheduling".

### PageAllocator, AddressSpace, VirtualMemory, PageAllocatorProofs

`PageAllocator` names a page frame by its distance from the end of the kernel. The bitmap's
bit *i* is frame *i* when `mm_init` reserves pages and frame *i + bitmap_pages* when
`page_alloc` and `page_free` convert it: both are modelled as they are, and so is
`mm_init` clearing `total_pages / 8` bytes, which leaves the bits of a last partial byte
to what memory held. `VirtualMemory` adds `vm.c`: tables are frames with contents, a mapping is
made one table at a time so other clients allocate in between, any allocation may fail,
and `kmalloc` objects are written by their owners. `AddressSpace` is what a translation
promises; `MapsAsSpecified` says the walks implement it. Because pages handed out and
`kmalloc` objects overlap (run `heap`), `VirtualMemory` follows a behaviour until they do.

### FileStore, TorFS, FileList, MCMemory, MemoryProofs

`TorFS` translates every operation of `fs.c` as one action, for all of them hold `fs_lock`
from start to end. Sizes and offsets are 32 bits wide (`Wrap`). A write allocates
blocks until none is free and sets the size to the position reached. A position without
block reads as the value `HOLE`, where `tfs_read` stops. `FileStore` is the promise: named
contents where each operation changes one file; `Contents` is the refinement mapping.
`MCMemory` joins it with `VirtualMemory`: they share no state, and its variable `part`, chosen
in the initial state, says which takes the steps. `FileList` is how the file manager and the
file picker list the store, name by name while files come and go.

### WindowManager, VirtualDesktops, Desktops, MCDesktops, DesktopsProofs

Window list and desktop lists use the same `next` field, so they are modelled as cells:
`cell[c]` is what the list head or window `c` points to, and every loop of the code over `pp`
is a statement about `Walk`. `WindowManager` has an action per call of `window.c`;
`wm_move_window` and `wm_resize_window` are both `PlaceWindow`. An area is a set of screen
cells. `VirtualDesktops` has the calls of `virtual_desktop.c`, among them `VdClose` with its
append, shift of slots and correction of the index, and `VdMoveWindowTo`. `Desktops` joins
them, with the windows a full frame (`Composed`, with `Occluded` as computed before
painting) and a damage frame (`ComposedRect`) paint. At a point a window paints its pixels (`PixelsAt`)
or a shadow (`BesideOf`), and what is below shines through unless an opaque pixel is above (`Seen`).
Opacity, alpha and shadows are no state of the model: `CullingHarmless` is stated for all of them. A behaviour is followed until a list
loops, because the next call that walks it does not return. Calls are atomic: the list is
changed under `wm_lock`, and only the shell's CPU calls.

### Mutex, Spinlock

`Spinlock` follows `spin_lock`, `spin_trylock` and `spin_unlock` instruction by instruction:
`LoadExclusive` (ldaxr and the branch), `StoreExclusive` or `StoreFails` (stxr), `WaitForEvent`
(wfe), `SetOwner`, `SpinUnlock` (the reset of `lock->cpu`), `StoreRelease` (stlr) and `SendEvent`
(sev). A CPU's exclusive monitor and event register are state: a store by another CPU to the
lock clears the monitor and, by that, sets the event register; a return from an interrupt does
both as well (`Interrupt`, possible anywhere). Since nothing orders sev after stlr, they happen in
either order. stxr fails for no reason but a cleared monitor, and wfe ends for no reason but an
event, which is the harder case for the loop. `Mutex` is the atomic lock it implements.

### DmaBuf

`DmaBuf` runs the calls of `dmabuf.c` on several CPUs over `Spinlock` and `PageAllocator`. A call
is begun (`Begin`), goes through the lock's instructions, does its locked part in one step when
it is inside (`Create`, `Get`, `Ref`, `Unref`, `Free`, or `CreateFails`), and leaves. `kmalloc` in
`dmabuf_create` is a step of its own, because other callers of the page allocator do not
take this lock. `dmabuf_unref` gives the lock back between its decrement and `dmabuf_free`
(`BeginFree`). Callers own the references they got and give each back once. `dmabuf_get`
returns a pointer without a reference, so `dmabuf_ref` may revive a buffer already condemned:
`late` records it and the behaviour ends there, as it does where the heap in use
and pages handed out overlap (see run `heap`).

### InputDevices, UsbHotplug, GpuBuffers, HeapDevices, KernelHeap, MCDevices, DevicesProofs

`InputDevices` has the handlers of `input_event.c` with a buffer each (head and tail are
32-bit counters, `CountMod`), key, modifier and pointer state with acceleration, and the rings that
`virtio_input.c` shares with its device. `virtio_input_poll` and `virtio_input_get_event` take no lock: any
number of `Takers` may be in them, each at its own statement (`PollLook`, `PollTake`, `PollStore`,
`PollPublish`, `PollCount`), with the device at work in between. Two that overlap take one event twice and
skip another; `overlapped` records it, and order and rings are promised up to there. A key may be
reported as repeated whatever its state; a modifier repeated while it is up is noted in `strays`.

`UsbHotplug` is port changes, with every access to a port's register a step: `xhci_handle_events`
clears the change bit (`HandleEvents`) and looks at one port after the other (`ReadPort`,
`ClearChange`, `ResetRead`, `ResetWrite`, `HandleConnect` or `HandleDisconnect`, `AckReset`) while ports
change. A write clears the change bits that are set in what is written, and the last ones write a
copy read before: the change they clear unseen is recorded in `missed`. The driver registers and
removes one fixed pair of HID devices in the list linked through the devices.

`GpuBuffers` has one, two or three pages from the allocator, any of which may fail, beside other
users of the pages. Pages are numbered as they lie in memory and a frame takes `FramePages` of
them, so that drawing in the back buffer (`Draw`) runs into the pages behind it (`Extent`),
whoever has them. `HeapDevices` has the resources and cursor of `virtio_gpu.c` and the clips and buffer of
`audio.c`, which share the heap, and the positions resampling reads, in the code's floats: a float is an
integer of `SigBits` significant bits over a power of two, and every product and quotient is rounded to
it (`Float`, `Times`, `Over`, `ToInt`). `KernelHeap` is that heap as its users see it. `MCDevices` composes
them with `DmaBuf`; again `part` says which takes the steps, and the two that share the heap are one
part.

### NetDevice, Sockets, SysSockets, MCNetwork, NetworkProofs

`NetDevice` is `network.c` below its sockets: posted and used receive buffers, one transmit buffer,
the ARP table and `ip_send`, which resolves the next hop with its retries. A call is the record
`thread`; every poll of the card is a step, so between polls the network delivers any frame of
`Incoming`, or none: loss, repetition and reordering are the absence, repetition and order of
those steps. `Sockets` is `network_sock.c`: a table, buffers from `kmalloc` with every failure,
ephemeral ports that wrap, and each call with its polling loop. `SysSockets` is the other interface,
in `network.c`, and the resolver and HTTP client on it; its sockets take their buffers from the same
heap and are kept when that fails. (`SOCKET_BUF_SIZE` is defined nowhere; the buffers of both are
taken to be of one size.) `heard` remembers what each host announced last. Nothing in the tree calls
`arp_handle_packet`: what it is given is left open. In `MCNetwork` the variable `api` says who
uses the card. `StackSpec` in `NetworkProofs` lets both interfaces use it together.

### Storage, LoginManager, Security, LogRings, MCServices, ServicesProofs

`Storage` is `fs_advanced.c`: devices that may fail, the cache whose entries carry no device,
partition scans, mounts that share a superblock, and descriptors. `LoginManager` has the accounts,
sessions, desktop windows and the screen lock of `init.c`. `Security` has
contexts whose level changes, capabilities, sandboxes and the access check. `LogRings` has the log
of `debug_log.c`, where an entry is filled under the lock and printed after it, with wrapping
indices, and the counted ring that the event log and the audit log both are. `MCServices` chooses a
`part` as above.

### Regions, TextBox, TextLine, Widgets, Applications, Fonts, Images, MCInterface, InterfaceProofs

`Regions` is `clip.c` over sets of cells: lists with merging, the four fragments of a subtraction
and failed allocations, clipped fills and blits. `TextBox` has the character arrays of the text box
and of the editor with a NUL, `TextLine` what they promise. `Widgets` has the one list of widgets
with focus, mouse and keys and the values of each type, and the list, combo and tree views.
`Applications` has the application timers (a poll is a step per slot, callbacks call back; `replaced`
marks a timer that a callback started into its own slot, `InHand` the slot a callback runs for), the
registry with instances and windows whose addresses are reused, and the taskbar as drawn and as
hit. `Fonts` has word wrap as its single pass, and the glyph cache with the fonts that fill it.
`Images` has `image_load` block by block with each failure, scaled and drawn columns, and the row
filters of PNG. `MCInterface` chooses a `part`.

## 4. Runs

Passing runs check the properties named; runs marked *violation* exhibit a disagreement
between the code and what the repository says of it. Where a run has several parts that share no
state, every initial state belongs to one part, and the states are the sum of theirs.

| run (configuration) | instance | shows |
|---|---|---|
| `scheduler` (`Scheduler.cfg`) | 3 slots, 3 creations, sleeps of 0-1 ticks; 460,449 states | with interrupts anywhere but at the ten harmful places the list holds exactly the runnable processes nobody has in hand, once (`QueueIsRunnable`), and only `current` is RUNNING (`OneRunning`); with any interrupts `NoOvertaking`; the monitor's listing covers all live slots (`MonitorCoversLive`); every process that was queued runs (`RunnableRuns`) |
| `sleep` (violation, `SchedulerSleep.cfg`) | 1 slot | a sleeper is never woken once `schedule()` idles (`SleeperWakes`) |
| `memory` (`MCMemory.cfg`) | 11 pages, 2 clients, 4 virtual pages sharing tables at several levels; 3 names, 2 entries, 2 blocks of 2 bytes; 73,523 states | no frame has two holders (`FramesExclusive`), the count is right (`CountMatches`), translation is the abstract mapping (`MapsAsSpecified`); torFS's blocks and names are accounted for (`BlocksAccounted`), a write is read back and torFS implements `FileStore` (`StoresFiles`) |
| `heap` (violation, `MCMemoryHeap.cfg`) | same | `page_alloc` hands out pages of the `kmalloc` heap (`HeapSeparate`) |
| `filelist` (violation, `FileList.cfg`) | 2 names | a list shows other than the files there are (`ListsFiles`) |
| `windows` (`MCWindows.cfg`) | desktop and 2 windows, 3 cells, taskbar, 2 areas; 125,493 states | list exact (`ListsConsistent`), one window marked active (`ActiveMarked`), what is on top is painted, and under opaque covers culling changes nothing (`CullingHarmless`), the activated window is hit (`ActivatedIsHit`) |
| `desktops` (`MCDesktops.cfg`) | 3 windows, 3 desktops, 2 moves, no geometry; 106,685 states of the lists | the current desktop stays in range and marked, and alone so until one before it is closed (`DesktopsConsistent`); closing loses no window and the desktops behind the closed one keep theirs (`CloseKeepsWindows`) |
| `spinlock` (`Spinlock.cfg`) | 3 CPUs; 10,244 states | the loop implements an atomic lock (`ImplementsLock`), loses no wake-up (`NoLostWakeup`), a free lock that is asked for is taken (`FreeLockTaken`) |
| `devices` (`MCDevices.cfg`) | 2 CPUs, 2 buffers, 2 pages and memory for 2 handles; 1 handler with 2 events, 2 ports, rings of 2 and 2 takers, 4 GPU pages and frames of 2, 4 heap blocks, clips of 24 samples; 1,017,262 states | references, list and pages of DMA-BUF agree (`RefsCounted`, `LinkedWhileReferenced`, `PagesOwned`); events arrive once and in order (`EventsQueued`); key state and device list follow the devices (`DevicesFollowed`); one owner per GPU page and heap block (`DeviceMemoryOwned`), resampling stays inside its clip (`ResampledInside`); a front buffer that drawing does not run into shows whole frames (`NoTearing`) |
| `network` (`MCNetwork.cfg`) | 2 receive buffers, 2 ARP entries, 2 hosts, 2 + 2 sockets, 3 socket buffers, 3 ports, 2 polls; 671,981 states | no receive buffer in two places (`RxBuffersOnce`); packets go to the card announced last (`ArpAgrees`); a socket buffer has one owner among both interfaces, waiting sockets a caller (`SocketsOwned`); every call returns (`CallsReturn`) |
| `services` (`MCServices.cfg`) | 2 disks of 3 sectors, cache of 2, 3 accounts, 2 sessions, 3 levels, ring of 2; 334,218 states | reads give what was written, the root's count is its descriptors (`StorageConsistent`); a desktop per session (`DesktopPerSession`); capabilities within the level and the last rule decides (`Authorised`); logs keep the last entries (`LogsKeepLast`) |
| `interface` (`MCInterface.cfg`) | frame of 3 x 2 cells, 8 rectangles, 3 calls; texts of 3 characters; 2 widgets; 3 items, 4 nodes; 2 timers, 2 programs, 3 windows; 3 glyphs in a cache of 2, 5 heap blocks; 303,647 states | regions are exact without union and never too small (`RegionsExact`); focus, items and nodes agree (`WidgetsAgree`); timers fire when they were asked to, windows have owners (`ProgramsKept`); what is drawn is what was asked for and from owned blocks (`DrawnAsAsked`); typing implements `TextLine` (`ImplementsLine`) |

**Bounds and why they suffice.** Three processes give a queue with a head, a middle and a tail
while one runs, and both contexts inside `schedule()`; `MaxCreate` bounds creations, each of
which consumes a slot or a count. Sleeps of up to one tick give deadlines that are due at
once and at the next interrupt; which process sleeps when the other wakes is left to the steps. Eleven pages are one bitmap page, two heap pages and their shift, and leave
enough for two complete walks that share one to three tables and then run out. Two files of two
blocks with two blocks on the disk make every file compete for space, and the third name meets
a full table; `Wrap = 8` with offset 7 wraps `offset + size`. Three windows give a list with
inner element; the third may be created after one was destroyed. `windows` excludes moves
between desktops and `desktops` excludes geometry (a screen without cells), because the
calls of one do not read the state the other varies. Two moves put windows on two desktops,
so that closing has to append; three desktops leave one behind the closed one, whose slot moves. The
view of `desktops` leaves out what its properties do not read. Window ids, creations and moves are bounded by `MaxIds` and
`MaxMoves`.

Three CPUs are one inside, one about to store and one asleep or passing by with a try-lock;
two CPUs with two buffers let one look up, reference or create what the other releases, and both
try at once; a third page or handle would only repeat a success. One page frame may hold a stale
bit from boot, so pages run out before or after the handles do (`MaxBufs`, `RefLimit` bound the
buffers and the counter's range).

Buffers of two events, rings of two descriptors and rings of two log entries are full after two
steps; their counters count modulo a small multiple of the size (`CountMod`, `RingMod`,
`IdxMod`) so that they wrap in the run. Four GPU pages let another user hold one while three
buffers are set up, or two and the third fails; frames of two pages reach from one into the next. With
`SigBits = 6` the floats round as soon as a clip of 24 samples is resampled, as those of 24 bits do at
millions. Two receive buffers and three socket buffers make
the second socket's second buffer fail; three ports wrap after three connections; `Polls = 2` has a
late answer and a time-out, and `ArpRetries = 1` a retry and a failure. A cache of two for three
sectors evicts. Three
calls on a region are a union, a subtraction inside it and one across the fragments. The bounds
on histories are `MaxWrites`, `MaxPuts`, `MaxJiffies`, `MaxTime`, `MaxClock`, `MaxCalls` and
`MaxResources`.

`CHECK_DEADLOCK FALSE` appears where the system may stop: a hung walk, a panic at boot, a heap
overlap, a looped list, a part whose histories have reached their bound.

**Fairness.** For the scheduler: the timer ticks and an interrupt
handler, once started, runs to its end (weak fairness of `Tick` and `Schedule("irq")`). The
interrupted code gets on between two handlers, which come 10 ms apart, but every tick disables
it for a while: strong fairness of the thread context's steps in `schedule()`, `proc_create` and `sleep`
(`Schedule("thread") \/ FallAsleep \/ Create`). Nothing is assumed of processes:
they need not yield, sleep or end. For the lock: a CPU goes on executing and critical sections
end (weak fairness of each CPU's `LockStep` and `SpinUnlock`); of store-exclusives retried for
ever one succeeds, which the architecture promises of such loops (strong fairness of
`StoreExclusive` by some CPU). Nobody need ask for the lock, and no interrupt need come. For the
network: the thread inside a call keeps running (weak fairness of `Run`); the network need not
deliver anything, and programs need not call.

**Symmetry.** `memory` permutes file names, `devices` CPUs and `services` disks, which the code only
compares; their properties are safety properties, so symmetry is sound.

### What the violations say

* `SleeperWakes`: the idle loop in `schedule()` (`kernel/sched.c:132`) waits for the ready list
  to fill, but only a later `schedule()` wakes sleepers, and inside the interrupt handler none
  follows, as interrupts are masked there.
* `HeapSeparate`: reserved bits and handed-out pages are counted from different origins
  (`kernel/mm.c:68`), so the first pages handed out lie in the heap.
* `ListsFiles`: `filemgr_refresh` and `file_picker_refresh` take a name when `tfs_get_used_name`
  returns 0, which it does when there is none (`kernel/fs.c:258-278`).

### Observations

Disagreements and surprises met while translating; the models have the behaviour where they
model the place, and no run is spent on them.

*Kernel.* `spin_lock` is test-and-set, so a waiting CPU may be overtaken for ever, though
README.md:96 of the repository speaks of ticket-based locks. `tfs_write` behind the largest size
makes `TFS_MAX_FILE_SIZE - offset` wrap and sets the size (`kernel/fs.c:135`, `152`). `proc_create`
writes its return address one word behind the one-page stack (`kernel/sched.c:68`). A DMA-BUF of
several pages is cleared although one page was allocated (`kernel/dmabuf.c:49`); `dmabuf_get` and
`dmabuf_import` hand out a buffer that the last `dmabuf_unref` may already have condemned.

*Windows.* `vd_move_window_to` relinks a window that is still in the window manager's list
(`kernel/virtual_desktop.c:145`): the windows behind it leave the list. A session's desktop window
gets its low z-order after it is in the list (`kernel/init.c:330`). A hidden window that is
maximised is painted by a full frame and by nothing else (`kernel/window.c:192`). Culling ignores
opacity, alpha and shadows (`kernel/compositor.c:268`): a window below a translucent one, or the shadow
of a window that is covered itself, disappears. Closing the
current desktop makes the one behind it current, unless it was the last
(`kernel/virtual_desktop.c:121`), where the comment says desktop 0; closing one before the current one
shifts the slots and not the index, so that another desktop becomes current while the old one
stays marked active.

*Devices.* `input_subsystem_init` registers its default handler before it sets `initialized`
(`kernel/input_event.c:43`), so the registration is refused and the global buffer stays empty. Two
USB ports register the same devices twice and close the list to a circle; unplugging one removes
the devices of the other; HID reports never release keys; nothing polls the input devices. GPU
buffers are one page each though drawing covers a frame, so that it runs into the pages behind, the
front buffer among them; a failed back buffer leaves a freed pointer. `xhci_handle_port_change`
acknowledges a reset by writing back what it read, the change bit included (`kernel/usb_xhci.c:286`),
and so clears a change that came in between.
Re-initialising audio leaks its DMA buffer, and a freed clip its samples. Resampling computes
positions in floats, and the last one of a long clip may be its end: 2,097,153 samples from 8 to
48 kHz are read one behind the last (`kernel/audio.c:370`).

*Network.* Nothing calls `arp_handle_packet`. README.md:186 of the repository gives the ARP cache a
timeout and LRU: the code has neither, and a full cache takes no new address. `sys_socket` keeps a
socket whose buffers it could not allocate (`kernel/network.c:470`). A runt's receive buffer is lost; a transmission
overwrites the one buffer. `recv`, `accept` and `connect` drop frames of other sockets, and `connect` takes any
SYN-ACK of the address. The ephemeral port counter wraps to 0 (`kernel/network_sock.c:496`).
`sys_connect` declares a connection without a handshake (README.md:189 lists TCP as working), and
`dns_resolve` always fails, because its socket is not open when it sends (README.md:192).

*Services.* Partition scans append duplicates, a failed mount overwrites the static superblock,
and a failed write leaves its data in the cache. `init_register_service` sets
`num_dependencies` to 0 (`kernel/init.c:62`) and nothing adds one, so the loop over dependencies at
line 78 never runs, though README.md:236 speaks of dependency resolution. Any account of an active session unlocks the screen, and a login does
not. A log entry is printed after the lock is given back; reading by position fails where the
indices wrap at 2^32.

*Programs.* No letter can be typed into a text box: its key must lie between KEY_SPACE
(57) and KEY_Z (44) (`kernel/widget.c:383`). A click goes to the newest of overlapping widgets, while the oldest
is on top; hidden widgets keep the focus; removing a tree node that is not the first child leaves
it linked (`kernel/widget_views.c:242`); sorting a list leaves `selected_index` on another item
than the mark. Nothing calls `app_timer_poll_all`, and a callback that replaces its own timer gets
the new one ended. Nothing calls `font_cache_init`, so each drawn glyph leaks. A failed block for
an IDAT chunk is copied to; `image_draw_clipped` with a negative source shifts the picture. A
failed fragment of a subtraction loses wanted cells.

## 5. Proofs

All proofs are checked by TLAPS; the assumptions are the `ASSUME`s on the constants, which TLC
evaluates on each run, and the theorems hold for every value that satisfies them. Every invariant
and every action property of the passing runs but `ResampledInside` is a theorem, and so are the refinements: of the lock,
the address space, the file store and the line. `PROJECT.json` lists the theorems and what each states.

**The assumptions** say what the code fixes by a type or a `#define`: sizes are positive, names of
nothing (`NULL`, `NoBlock`, `NUL`) are none of the things named, counters are wide enough for what
they count: `Wrap` exceeds the largest file (`FSAssumption`), `IdxMod` is a multiple of
the ring and larger (`LogAssumption`), there are fewer CPUs than values of `ref_count`
(`DmaAssumption`). `RegionsAssumption` and `PixelsAssumption` say that boxes have widths and heights
that are not negative and that bytes and columns are numbers.

**Recursive functions.** A loop over data is a recursive function of the model, never a `RECURSIVE`
operator. The provers cannot instantiate the library's induction theorems, so each proof that needs
induction carries it out: *least counterexample* (by well-foundedness of the naturals, `Least`) or a
*set of good numbers* (`UpTo`: a set that has 0, and k whenever it has k - 1, has all up to n), and
where even the existence of the function is in question, a witness is built from the sequence of
its partial results (`Iterated`, `WalkExists`). What those lemmas say is then plain first-order logic.

**SchedulerProofs.** `QueueIsRunnable` is not inductive: what each context has in hand or has found out and
not yet used is needed for the step that follows. `IInv` is type correctness, `Counted`
(whatever is live, listed, current or held has a number below `proc_count`), `NestingSeen` (an
interrupt at a harmful place is recorded), and, as long as none was, `Sound`: the list facts with the
processes in hand (`Listed`, `HandsSound`), what a context read and is still so at its next statement
(`StillSo`), a new process apart from all others (`NewApart`), and the current process RUNNING
outside `schedule()` and nobody else (`CurrentLive`, `OnlyOneRuns`). A list has only three changes,
which lemmas follow (`ToHand`, `HandToQueue`, `QueueToHand`) over what `enqueue` and `dequeue` do to a
sound list (`EnqueueFresh`, `DequeueSound`); `CreateSound`, `EntrySound` and `ScheduleSound` have a step
per position. `RoundRobin` proves `NoOvertaking`: every step that changes the list is one `enqueue` or
`dequeue`, and neither moves anybody back; no interrupt is excluded there.

**PageAllocatorProofs, MemoryProofs.** `MMInv` (types, exclusive frames, count) is inductive for the
allocator alone (`MMInvariance`): `HeldBounded` bounds the held frames by the pages behind the
reserved bits, so the count never goes below zero. `UsesAllocator` shows every step of
`VirtualMemory` to be a step or a stutter of the allocator, so the invariant carries over. The shift
between the two origins and the uncleared bits are covered.
*Page tables* (`MapsAsSpecifiedCorrect`): `TablesInv`, held until a frame is in the heap and handed
out, is `TreesApart`: no table is reached along two paths or at two levels. `Along` is the walk down
to a level. Writing a last entry moves the one address (`LastEntrySet`) and linking an empty table
moves none (`TableLinked`), so nothing moves while `vm_map` makes its tables one at a time.
*torFS, blocks* (`BlocksAccountedCorrect`): `FilesInv` adds to the property that an unused entry holds
no block (`UnusedEmpty`), because `tfs_create` forgets what it finds there. `tfs_write` takes clear
blocks in order; there is one of every rank (`Ranks`), so distinct blocks of a file get distinct ones.
*torFS, contents* (`StoresFilesCorrect`): that what a write says it wrote is read back across block
ends and short writes rests on how far it reaches (`EndInFile`, `PlanReaches`), on where a position
lies (`PlaceInFile`), and on blocks of two files being different; reading what was written
stops where the write did (`ReadStops`).

**DevicesProofs.** *The lock.* What is inductive is `LockInv`: besides the properties, `WordRight` says
that the word is 1 while somebody holds the lock and 0 at every CPU whose store-exclusive can still
succeed; from it follows that the store that succeeds finds no holder, hence `OneHolder`. That a
sleeping CPU has its monitor set as long as no event is pending carries the wake-up over to stlr.
*DMA-BUF.* `BufInv` adds to the properties what a call under way is still entitled to when it gets the
lock (`Entitled`), that pointers are to created handles (`Known`) and that no handle is linked twice
(`ListRight`). It is inductive together with `LockInv` and `MMInv`: `dmabuf_free` frees a page the
allocator expects only because of `PagesOwned`, and a new page is nobody else's only because of
`FramesExclusive`.
*GPU and audio.* `NoTearing` is about a front buffer that is not among the pages a frame drawn from the back
buffer covers: that the two stay different needs `BuffersRight` (as many different pages
as the mode says), and that no other user writes to it needs `PagesRight` (held, others' and free
pages partition the pages). `HeapInv` keeps the owners of heap blocks apart by kind and
within each kind.
*Events.* `RingsInv`, until two takers overlap: the descriptors go round in one circle (`Circle`), those with an event first, so a
counter that wraps still tells one from the other; arithmetic modulo the ring is proved from
quotients and remainders (`DivMod`, `ModUnique`, `ModDistinct`). `InputInv` folds the reported
keys over the keyboard (`FoldKept`).
*Hot-plug.* `UsbInv`: a change of a port already passed, or passed by the read under way, has set the
change bit again (`ChangesNoticed`); a port without a change is connected as the driver took it
unless a write of line 286 cleared one unseen (`HeardRight`, `missed`); and the list is a chain through exactly the registered devices, which
pushing and removing keep (`PushedLists`, `TakenOutLists`), until devices are registered twice.

**ServicesProofs.** *Sessions.* A session is ended by its identifier and its window by its slot:
`IdsRight` ties the two. *Security.* The loop over rules leaves the verdict of the last that
matches (`RuleResultIsLast`). *Storage.* A cache entry carries no device; `OneEntry`, `CacheFresh` and
`DiskFresh` say that a sector has one entry, that the entry holds the last write, and that so
does the disk if only it was written there and took that write; `FdInv` counts descriptors
against the root. *Logs.* `LogInv` places the last
messages where their wrapped numbers say, and a printer's own until the ring has gone round.

**DesktopsProofs.** The loops over `next` fields are walks that need not end. `Chain` gives a list the
numbers of its members, `ListOf` says its members are a given set; inserting, unlinking and raising
keep both (`ChainInserted`, `ChainUnlinked`, `ListRaised`). `WindowsInv` is that the
window list is such a chain until a window is moved (`ListRight`), with marks, orders, count
and current desktop. `CloseLosesNoneCorrect` is about lists that may share ends or loop: every
window a desktop's pointer leads to is still led to after the append and the shift of slots
(`PathWalk`, `ChainClosed`, `AppendKeeps`). `CloseShiftsCorrect` takes its loops to the same: the
append writes no head but those of the two lists it joins (`AppendTouches`), so the slots behind the closed one move with their lists
(`CloseMovesList`). `CullingCorrect` needs no invariant of the list: what
covers a window completely comes before it in the walk, and the topmost is never covered; that
culling changes nothing where covers are opaque follows from the topmost opaque pixel at a place
(`SeenWithoutCulled`), whatever the opacities.

**NetworkProofs** are about `StackSpec`: the card, ARP, and both socket interfaces on one thread. Each
property is proved over what a step does to the state concerned (`RingStep`, `ArpStep`, `TableStep`, `SysStep`),
of which every action is an instance. `RingInv` types the used ring, so that what a receive returns is
known. For ARP, a valid entry holds what its host announced last (`EntriesNewest`): an announcement
renews the first entry of its address, and there is no other (`OneEntryPerAddress`), because the table
fills from the first slot (`FilledFromFirst`). For the sockets, `TableInv` bounds
buffers by what `kmalloc` gave out (`Fits`), and `CallInv` says that the thread in `connect` has a
socket in SYN_SENT and no other socket is in it: only then does a time-out close the socket that
waited. `SysInv` says the same of buffers for the `sys_` sockets, where one or both may be missing, and that none is
of both interfaces; `StackInv` is all of these together.

**InterfaceProofs.** *Timers and programs.* `TimersInv`: the slot in the hands of the poll may have been
stopped, started again or given to somebody else by its callback, and a timer started into it is
known as `replaced`: that one alone may be ended or moved by the poll. `AppsInv`: shown instances
own their window, whatever address a new window gets (`ShellsOwn`).
*Text.* `ImplementsLineCorrect`: an array with a NUL stands for a line (`Holds`, `IsLine`); moving the
tail up or down is deleting or inserting in the sequence (`TypedInIs`, `ClosedUpIs`), for both
users of the array.
*What is drawn.* `TaskbarInv`, `LayoutInv` (what was laid out and what is left make the text),
`CacheInv`, `PictureInv` (the decoder's three buffers are different blocks or none, on every error path:
`ThreeApart`), `BlitInv` (columns by quotients) and `RowsInv`: the decoder inverts the encoder's
filter by least counterexample over the row, each predictor reading what is already decoded.
*Regions.* `RegionInv`: the rectangles of a list tile what they cover (`Tiles`). The fragments of
a cut tile the rest of a rectangle (`FragmentsTile`) and so replace it in a list (`SubtractTiles`);
a union grows the new rectangle until it meets none of the list (`AbsorbedIs`).
*Toolkit and views.* `ToolkitInv`. For the bubble sort, ordering a pair keeps the items
(`OrderedKeeps`), and a pass carries the greatest of the unsorted part to its place
(`PassTop`), so that after i passes the last i are in order and nothing before is greater
(`BubbledRises`). `ListInv` adds that an identifier is free as long as there is room, by counting.
`TreeInv`: as long as only roots and first children went, every live node but the root is
linked from exactly one live node (`OneLink`), an older one (`TreeLinks`), so that no link from
elsewhere leads into what is below a node (`GoneAre`) and the rest stays a tree (`TreeWithout`).
`Reached`, what pointers lead to, is proved from its being the least closed set.

**Only model-checked.** Liveness under fairness, which is beyond the prover: `RunnableRuns`,
`FreeLockTaken`, `CallsReturn`. `ResampledInside`, because rounding to a float chooses a power of two, and the
provers know nothing of powers. The properties of the violation runs do not hold and are not proved.

## 6. Not modelled, and why

Register programming (GIC, UART, clock, virtio and xHCI set-up, system registers, TLB), context
switches and stacks, pixels, rasterising and colour conversion, inflate, printing and command
parsing: they are I/O or data transformation without an order of steps to get wrong. The tables of services and
drivers in `init.c` are left out: no service can have a dependency, so starting is one call per
service, and drivers are initialised in the order of their table. The secondary
CPUs run `cpu_idle` after one unlocked increment and one `page_alloc`. `PROJECT.json` says of each part what
is left out of it. The larger omissions within modelled parts: `enqueue`'s
interior, several CPUs inside the page allocator, `push_off` and `pop_off` (nothing calls them),
DMA-BUF's export, import, attach and detach and buffers larger than a page, memory attributes and
permissions, file names of 16 characters and more (which `tfs_create` refuses), the dirty rectangle
of the window manager, TCP sequence numbers (which the code does not check), the FAT32 and ext4
readers (which print or fail), breakpoints and the GDB stub, the radio groups of `widget_tree.c`,
and the calculator, clock, calendar and command lines.
