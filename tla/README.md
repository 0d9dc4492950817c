# Umbra OS: TLA+ models, checks and proofs

This directory models the kernel of Umbra OS (`src/src/kernel`): a small 64-bit,
single-CPU kernel with a preemptive round-robin scheduler, system calls, an E1000
network driver with UDP and ICMP sockets, a keyboard, a tmpfs and a page/slab
memory manager. `PROJECT.json` gives, for every definition, the source lines it
stands for, and lists runs, findings, hazards and theorems in a form a script can read.

## 1. The system

### Components

| Component | State | Operations | What makes it correct |
|---|---|---|---|
| Scheduler (`scheduler.cpp/.hpp`) | `queue`, `current_task`, `idle_task`; `status`, `context`, `tsc_sleep` of tasks | `schedule`, `yield`, `sleep`, `await_io`, `block_on`, `wake_io`, `wake_net`, `add_task`, `kill_and_yield`, futex handles | every switch restores the right registers; no lost wake-up; sleeps last; nobody starves |
| Task list (`scheduler.hpp`) | nodes, `front`, `current` | `add_task`, `next_task`, `remove_current` | behaves as a sequence with a cursor, also when interrupted |
| Spinlock (`lock.cpp`) | `locked`, `restore_interrupts` | `acquire`, `release` | exclusion; no deadlock with a handler; the interrupt flag is as before |
| Physical memory (`pmm.cpp`, `bitmap.cpp`) | bitmap, `last_page_idx` | `init`, `alloc`, `calloc`, `free` | owners are disjoint; nothing leaks; a free run is found |
| Heap (`heap.cpp`) | slabs and their free lists, sizes of large blocks | `init`, `alloc`, `free` | blocks are disjoint, large enough, reusable |
| Virtual memory (`vmm.cpp`) | page-table tree, per-space lock | `map`, `unmap`, `virt_to_phys`, `switch_space` | the walk finds what was mapped last; spaces are isolated |
| Interrupts (`int*.cpp`, `idt.cpp`, `apic.cpp`, `gdt.cpp`) | vector table, IF, `tss.rsp[0]` | dispatch, EOI | handlers run with interrupts off |
| Timer (`timer.cpp`) | calibration, `real_time` | `stop`, `resume`, PIT read-back | preemption never stops for good |
| Keyboard, tty | scan-code state, ring of events per task | `handler`, `Tty::read` | keys reach a blocked reader |
| E1000 | rx/tx descriptor rings, `cache` | `handler`, `send`, `init`, `reset` | each frame is delivered once |
| Sockets (`net/`) | rings of packets per socket, list of sockets | `packet_handler`, `receive_*`, `send_msg`, `recv_msg` | packets reach the right socket and stay alive until read |
| Vfs, tmpfs, initramfs | node tree, descriptors, file data | `open`, `read`, `write`, `seek`, `close` | a file holds what was written |
| Futex | handles, per-task futex lists | `sys_futex_wait`, `sys_futex_wake` | a waiter disturbs nobody (its wait never ends: the condition is `false`) |
| Containers (`utils/`) | `Ringbuffer`, `DoublyLinkedList`, `StringHashMap`, `Optional` | | they implement a bounded queue, a sequence, a map |
| Boot (`kernel.cpp`), ELF, PCI | | one-time setup | |
| Terminal, libc, user programs | | formatting, copies | outside the model |

### How the parts interact

`_start` initialises the hardware with interrupts enabled, creates the idle task
and queues `kernel_main`. That kernel thread resets the network card (which
sleeps), queues `packet_handler`, loads one ELF program and queues it. From then on
everything shares one CPU: interrupt handlers and system calls enter through
interrupt gates and run with interrupts off; kernel threads run with them on.
The keyboard handler writes an event to every queued task and wakes the waiting
ones (`wake_io`). The card's handler fills `E1000::cache` and calls `wake_net`;
`packet_handler` empties the cache under `cache_lock` into the sockets' rings and
calls `wake_net`; `recv_msg` blocks until its ring is not empty. Locks nest in the
order cache, packets or futex, slab, pmm.

### What is hard to test

Everything that depends on *when* an interrupt comes: between the test and the
status change of `block_on`; between the two stores of `sleep`; between any two
assignments of `add_task`; between the instructions of `acquire`. Then: a failed page
allocation that nobody tests; an offset with a sign that becomes a `size_t`; `idle`
being `current_task` while `queue.current` points elsewhere; `current_task` pointing
to a task that was just deleted; rings at their capacity; a next-fit search that
wraps around; two threads on one chain of slabs, whose lock is released from slab
to slab; the card filling descriptors while the handler empties them; a directory
that grows while it is listed; page tables freed while the CPU still uses them.
The list is in `PROJECT.json` under `hazards`, each at its line.

## 2. Modules

| Module | Models | Composition |
|---|---|---|
| `TaskQueue` | what `TaskList` methods return, as operators on a sequence and a cursor | used by the next three |
| `TaskQueueSpec` | the abstract list: `Add`, `Advance`, `Remove`, each atomic | abstract specification |
| `TaskList` | the list down to node pointers and freed, reused addresses | refines `TaskQueueSpec` |
| `Scheduler` | scheduler, boot code, `kernel_main`, `packet_handler`, programs, idle, three interrupt handlers | uses `TaskQueue` |
| `Spinlock` | lock, interrupt flag, handlers, switches, system calls | |
| `Pmm` | `init`, `alloc`, `free` and the bitmap | |
| `PagePool` | the page allocator as `Pmm`'s properties describe it: a set of free pages | used by the next two |
| `AllocatorSpec` | what `kmalloc` and `kfree` promise | abstract specification |
| `Heap` | slabs, chains, large blocks, `kmalloc` one critical section at a time | refines `AllocatorSpec` |
| `Vmm` | page tables, address spaces, `Elf::load`, `Task::create`, `sys_mmap`, `~Task` | |
| `Memory` | boot order and the sharing of pages | composes `Heap` and `Vmm` on one `PagePool` |
| `List` | `DoublyLinkedList`, pointer by pointer | used by `Files` |
| `Files` | nodes, hash maps, initramfs, descriptors, handles, file system calls | |
| `Ringbuffer` | array and indices | used by `Net` |
| `Net` | rings shared with the card, handler, `packet_handler`, sockets, sending | |
| `SchedulerProofs`, `TaskListProofs`, `SpinlockProofs`, `PmmProofs`, `FilesProofs`, `NetProofs` | theorems | extend their module |
| `HeapProofs` | the heap's inductive invariant and its steps | extends `Heap` |
| `MemoryProofs` | theorems about heap and address spaces | extends `Memory` and `HeapProofs` |
| `MCTaskList`, `MCScheduler`, `MCSpinlock`, `MCPmm`, `MCMemory`, `MCFiles`, `MCNet` | instances for TLC | extend their module |

`TaskQueue` is the seam between list and scheduler: `Scheduler` uses its operators
as atomic operations, and the refinement shown for `TaskList` justifies that, since
`add_task` in `kernel_main` *is* interruptible.

**Scheduler.** `cpu` is the thread whose instructions execute, `current_task`
the one the code believes in; that they agree is a property, not an assumption.
`ctx[t]` names the thread whose registers `t->context` holds, and `None` once they
were loaded and the thread ran on. `schedule()` is `EnterSchedule` (lines before
the loop), then `PickNext` per iteration that finds a blocked task, then `Dispatch`
(the loop's end, context load, `Lapic::resume`). The iterations are separate steps
because the time-stamp counter advances during the loop. `wakeIn[t]` is
`tsc_sleep` minus the counter, so that time needs no absolute value. Rings are
counts: what a ring holds is not told apart by the properties, that a full ring
drops its oldest item is. System calls are one step up to the point where they
block (interrupts are off); kernel threads are one step per statement that
touches shared state. `kernelIF` is the interrupt flag of `kernel_main`: `Spinlock`
shows that a lock may leave its user with interrupts off (`spinlock_restore`), and
`LockRace` lets this happen wherever an interrupt falls while `kernel_main` may be inside
`acquire`. `kernel_main` never turns them on again, and when it reaches the `hlt` of
`hcf` the machine stands still (`Halted`). It is the only thread with this problem:
`packet_handler` takes all its other locks inside `cache_lock`, which nobody else
takes; `_start` after `Scheduler::init` and idle take none; system calls have
interrupts off from the start. `tsc_sleep` of a new task is uninitialised: `Init` picks.
`FutexWait` is a loop without exit, since its condition is the constant `false`; a
task is in `futex_handles` exactly from its first wait on, so its location stands for
the list, and `FutexWake` makes any of the waiters `Running` (which of them wait on the
pointer that is woken is left open).

**TaskList.** One step per assignment of `add_task`, with `NextTask` (called
from `schedule()`) possible between any two. `remove_current` frees the node;
freeing destroys its first word (`task`), keeps `prev`/`next`, and the address may
be handed out again while stale pointers to it exist.

**Spinlock.** `acquire` is three steps: `AcquireReadFlags` (line 7),
`AcquireDisable` (11), `AcquireSet` (13). A lock that is found set is not a step: the
context spins, and `NeverSpins` says this does not happen. `release` is one step.
The clients are abstract: any context may take any lock further in than those it
holds and releases innermost first; nobody yields while it holds a lock. Two
places in the code break this discipline and are left out here. After blocking,
`recv_msg` (UDP and ICMP) releases `packets_lock` without having taken it again. In
a system call on one CPU the lock is free at that point and interrupts stay off. The
other one is `~AddressSpace` (`vmm.cpp:186`), which acquires the lock of its space and
never releases it; the lock dies with the object, and nobody asks for it again.

**Pmm.** Pages are numbers; page 0 is nullptr. `InnerAlloc` is what
`inner_alloc` returns (the first free run, and where `last_page_idx` ends), and
`InnerAllocLoop` is its loop with the accumulator; `LoopFindsFirstRun` compares them.
The search limit is `bitmap.size * PAGE_SIZE`, past the end of the bitmap; bits
there are whatever memory follows it, hence a fresh arbitrary set at every call.
`calloc` is `alloc` and a `memset`, and adds no state. `PagePool.AllocPages` is what the
heap and the address spaces see: a run of free pages, or null. TLC takes one run (a
`CHOOSE`), never one past the bitmap; the theorems hold whichever run it is.

**Heap.** Addresses are pages and offsets counted in words. `Slab::alloc` is one step
per slab (`TakeBlock`, `GoToNext`, `AddSlab`), because `slab_lock` is released in
between; `op[p]` is where a caller stands. Large blocks have a header page. Where the
heap uses the result of a failed page allocation, it writes to the page at the start of
the higher half, which `Vmm::init` leaves unmapped: the write faults and the model stops
(`halted`).

**Vmm.** A table is a function from indices to pages; the four-level walk, the
sharing of the higher half and `destroy_pml` are as in the code. A task goes through
new, loading, running, dead; `frames` are pages handed out to be mapped. `~Task` frees
only the stack and the tables; the other pages of a program stay in `frames`, as in
the code, where nobody frees them. What a failed allocation does differs from place to
place, and the model follows it: `Elf::load` tests the result and gives up; `map` does
nothing when there is no table; `AddressSpace()` faults. `sys_mmap` and `Task::create`
test nothing and go on with null, so that the memory from physical page 0 on is mapped
for the program, `heap_cur` moves, and `strayed` remembers the space that owns these
mappings. `~Task` of a task with such a stack frees pages that were never allocated, in
use or not (`NullStack`); the model stops after that step, since from then on anything may
share a page. `sys_mmap` takes a size in bytes, maps the whole pages of it and moves
`heap_cur` by all of it; a size below a page is a request for no page, and null.

**Files.** A path is its names, a leading slash and a length. A directory is the
sequence of its entries in the order `get_nth` counts them (bucket, then age); hash
collisions are kept. `Insert` puts an entry behind the last one of its bucket
(`BucketEnd`); `Nth` finds the entry before which `get_nth` has counted `n` others
(`Count`), and an entry whose hash is 0 is not counted (`Counted`), since the code takes
it for a free slot. A system call is one step. `stop` names the point where the
code's behaviour is no longer defined: a list walk over freed nodes, a node without
children, a path buffer that is too short, a write outside the data of its file.
`newestOnly` remembers whether a task ever closed a handle other than its newest: the
prev pointers of `DoublyLinkedList` are wrong, and the list is only right until then.
`open[t]` is the set of descriptors `t` opened and did not close, `todo` the entries a
descriptor has still to return; both are history. A position is a `size_t`: it counts
modulo `SizeRange`, an offset with a sign is added modulo that, and so are the end of a
read or write and the doubled capacity (`Wrapped`, `Grown`). `stop = "file"` is a write that
lands outside the data of its file, whose loop does not end, or that needs more than
`MaxFile`, the most bytes the memory has for a file.
The type of the nodes behind the standard descriptors is not initialised by
`init_std`; it is taken to be a file.

**Net.** The card is external and modelled from how the driver uses it: it receives
into the descriptor at RDH unless RDH = RDT, sends the one at TDH unless TDH = TDT,
and reading ICR clears it. It may act between any two steps of the handler. Packets
are buffers in a sequence with a life time; a ring holds indices of it. `sys_send_msg` and
`sys_recv_msg` handle one buffer of a message per step. Headers are reduced to the
kind of a frame, except that sent IPv4 headers carry words and a checksum. The checksum is
that of such a header, whole words; the odd last byte that `get_checksum` handles for an
ICMP packet (`socket.cpp:87`) is left out.

## 3. Runs

| Run | Shows |
|---|---|
| `sched` | `CurrentIsExecuting`: the CPU, `current_task` and `queue.current` agree, also after idle or an exit. `ContextsOwned`: no thread is resumed with stale or foreign registers. `NoLostUserWakeup`, `UserSleepHonoured`: blocking system calls are sound. `ScheduleReturns`: the search loop ends. `RunnableRuns`, `SleeperWakes`, `ReaderServed`: nobody starves, unless `kernel_main` halts with interrupts off after the lock lost its flag. |
| `tasklist` | `WellLinked` at every interruptible point, and `RefinesQueue`. |
| `spinlock` | `OnlyRunningHolds`, `NeverSpins`, `OffWhileCritical`. |
| `pmm` | `NoOverlap`, `Accounting`, `BitmapIntact`, `SearchComplete`, `LoopFindsFirstRun`. |
| `memory` | `HeapImplements`: the heap refines the abstract allocator, however callers interleave on a chain. `BlocksAccounted`, `NoSlabLost`, `HeaderFound`: no block or slab is lost or handed out twice, and `kfree` finds the header. `KmallocReturns`: liveness. `HigherHalfShared`, `TablesOwned`: spaces share the kernel's half and free exactly their own tables. `FramesExclusive`: spaces are isolated, except that one which got pages from an untested failed allocation sees the first pages of the machine, and nothing else of others. `PagesPartitioned`: heap and spaces never hold the same page, whichever allocations fail; only the exit of a task whose stack is at physical page 0 frees pages in use, and no page is ever lost. |
| `files` | `HandlesFound`: lists and ids of handles are right as long as only the newest is closed. `ListingMissesNothing`: a listing returns every entry that was there at open, although directories grow. `NodesFound`: what was created is found, with colliding names. `FileInCapacity`: a file keeps to its capacity, whatever is written and however descriptors are positioned, and a write loses its file in three cases only: it ends beyond memory or the range of a `size_t` (as after a seek below 0), it is not at the start of an empty file, or the file has contents and no capacity (the archive's). |
| `net` | `RxComplete`: the handler takes each frame once, in order, and misses no interrupt. `PacketsAccounted`: who owns which packet, and that only overwritten ones leak. `UdpInOrder`: a socket delivers each packet once and in the order of its copies, and misses only what its full ring overwrote. `TxInOrder`: sent frames leave complete and in order until the ring overruns. `ChecksumVerifies`. |
| `sched_sleep`, `sched_wakeup`, `spinlock_restore`, `pmm_limit`, `net_rx` | disagreements, below. |

Each property of a passing run has a mutant, a definition changed as a plausible
bug would change it, for which TLC finds the property violated.

### Disagreements the runs show

* `sched_sleep`: `sleep()` stores `Sleeping` before `tsc_sleep`. In a kernel thread a
  tick between the two makes `schedule()` compare with the old deadline; the task is
  `Running` when it finally yields, and returns before its time.
* `sched_wakeup`: in `packet_handler` interrupts are on during `block_on`. A frame
  that arrives between the test and `await_io` wakes nobody, and the handler
  blocks although the cache is not empty, until another frame or key comes.
* `spinlock_restore`: `restore_interrupts` is written before interrupts are disabled. A
  handler or another task using the same lock in between leaves `false` there, and
  the thread goes on with interrupts off.
* `pmm_limit`: the limit of the search counts `bitmap.size * PAGE_SIZE` pages where
  the bitmap has `bitmap.size * 8` bits, so `alloc` can return a page without a bit.
* `net_rx`: the handler clears the done bit in a copy of the descriptor. Once all
  descriptors have been used it delivers old frames again and moves RDT onto RDH,
  which leaves the card without a descriptor.

Conditions in the properties mark where the code stops working as intended:
`RxComplete` excludes RDH = RDT and a second round of the ring, `TxInOrder` a send
that makes TDT equal to TDH, `HandlesFound` the closing of older handles,
`FramesExclusive` and `PagesPartitioned` what an untested failed allocation maps and
frees, `FileInCapacity` the three kinds of write above, and the liveness properties of
the scheduler the machine halted with interrupts off.

### Bounds

* `sched`: one program, because `kernel.cpp` loads one (kernel stacks are
  not modelled). With
  `kernel_main`, `packet_handler` and idle this gives every shape of the search loop:
  first task runnable, some skipped, all blocked. `MaxSleep = 2` lets a deadline pass
  before, during and after a search. `CacheSlots = 2`, `EventSlots = PacketSlots = 1`:
  empty, partly filled, full, and overwritten.
* `tasklist`: three tasks (front, middle, last) and four addresses, so that a freed
  node is reused while others dangle to it.
* `spinlock`: two kernel threads, one program, two nested locks; the handler is a
  fourth context.
* `pmm`: 4-byte pages and 3-bit bytes keep the relation 8 < 4096 of the real sizes. Two
  memory maps: one with a hole and the bitmap inside the first region, one whose last
  page has no bit because `number_of_pages / 8` rounds down. Requests up to 3 pages
  and up to 3 owners fill the memory, so that searches fail and wrap.
* `memory`, `files`, `net`: a behaviour starts by choosing a workload (`load`), a set of
  callers, calls and amounts, so that each combination that interacts is explored to
  its limits without multiplying independent ones. `memory`: pages of 8 words, two
  block sizes, fanout 4 for 512 (two entries per half of a pml4, four levels), 12 to
  21 pages: one caller's chain grows by a slab while another walks it, memory runs
  out at every allocation, two spaces come and go. `sys_mmap` is given 4 words (half a
  page) and 20 (two pages and a half), at `heap_cur` or at a hint in the kernel's half.
  The segment shares its tables with the stack, so that a stack without memory still
  finds its tables and is mapped at page 0. `files`: four names with two
  buckets, a shared bucket and a shared hash, up to three handles of two tasks, two
  handles of one file, a `size_t` of 8 values with offsets -2, 0 and 1 (every position
  is reached, from below and from above, and wraps), files of up to 4 bytes,
  lengths 0, 1 and 3, blocks of 8 to 32 bytes for paths. `net`:
  four descriptors each way for 256, five frames (a second round of the ring), a
  cache and sockets that overflow (rings of three slots, so that two packets wait in
  one and their order shows; two slots in `net_rx`), five sends (an overrun), every header of three words modulo
  4, which meets both carries.

Deadlock is checked in `tasklist`, `spinlock` and `pmm`. In the others behaviours end: in
`sched` the machine halted with interrupts off has no step left once every deadline has
passed; in `memory`, `files` and `net` the machine is out of memory, the code's behaviour
is not defined any more, or the workload is done.

### Fairness

The loop of `schedule()` executes and the counter advances (WF). The timer is
periodic and the local APIC keeps its interrupt pending while interrupts are off, so
an interrupt that is deliverable again and again is delivered (SF). Where `kernel_main`
has lost its interrupt flag and halts, it is not deliverable again, and SF asks for
nothing; this is why the properties name that state. A thread that
gets the CPU again and again executes instructions, a quantum being long (SF). No
fairness on key presses, frames, or a program's *next* system call: nothing obliges them.
In `Memory` a thread inside `kmalloc` executes again (WF), which the scheduler provides.

## 4. Proofs

Every invariant that a run checks is a theorem, and so are the two refinements
(`RefinesQueue`, `HeapImplements`). Theorems hold for every value
of the constants that satisfies the named `ASSUME`s below.

### The theorems and their inductive invariants

* `SchedulerProofs` starts with the operators of the queue: they keep elements distinct,
  have the expected elements, and keep the cursor in the queue. It proves `TypeOK`, `CurrentIsExecuting`, `ContextsOwned`,
  `NoLostUserWakeup` and `UserSleepHonoured` for any number of programs, from
  `IInv == TypeOK /\ QueueInv /\ SwitchInv /\ UserInv`. The properties are not inductive:
  they speak of mode "thread", and a switch passes through mode "pick", where
  `current_task` may be idle or a blocked task and the interrupted thread's context was
  just saved. `QueueInv` says what the queue and cursor are at each stage of boot,
  `SwitchInv` who owns which context in both modes, `UserInv` which statuses a
  program may have at each point of its system calls.
* `TaskListProofs` proves `WellLinked` and the refinement `RefinesQueue`. The property says
  that the pointers a method would follow next are good; the invariant has to say what the
  list *is*: there are a length `m` and nodes `c[1..m]` such that `next` leads from
  `front` through them to null, `prev` leads back, they are allocated, distinct, and hold
  distinct tasks (`Sound(m, c)`). `Adding(m, c)` says how far `add_task` is: its node is not in
  `c`, its `task` is set, and at each location the fields written so far have their
  values. `prev` of the first node is left open: `add_task` sets it to the new
  node before that node is in the list. The refinement mapping walks the list
  with a recursive function; `NodeAtIs` and `ChainIs` show that the walk is `c`, so every
  assignment of `add_task` is a stutter but the one to `front`.
* `SpinlockProofs` proves `TypeOK`, `OnlyRunningHolds`, `NeverSpins`, `OffWhileCritical` for any
  number of tasks and locks. The strengthening: contexts that do not execute hold nothing
  (`OthersHoldNothing`), a context wants a lock further in than those it holds
  (`WantsInner`), interrupts are off from `AcquireDisable` on and in saved flags of
  system calls (`Masked`), and a lock taken while interrupts were off for an outer
  reason has `restore_interrupts` false (`RestoresFalse`): the last one is what keeps a
  write by somebody else harmless, though not invisible (see `spinlock_restore`).
* `PmmProofs` proves `TypeOK`, `NoOverlap`, `Accounting`, `BitmapIntact`, `SearchComplete` and
  `LoopFindsFirstRun` for every memory map and every size, from `TypeOK /\ NoOverlap /\
  Accounting /\ OwnUnusable`. `SearchComplete` rests on the lemma that the two searches
  together cover every run, using that `last_page_idx` never exceeds the limit. For
  `LoopFindsFirstRun` the loop invariant is: the accumulator counts the free pages just
  before the index, and no run of the length asked for ends before the index.
  `PoolStepCorrect` is the step from `Pmm` to `PagePool`: on the set of pages whose bit
  is clear, `alloc(n)` takes a run of free pages or fails when there is none, and `free`
  adds what was not in the set. It is what lets `Heap` and `Vmm` use `AllocPages`. The pages
  that `alloc` finds past the bitmap (`pmm_limit`) never were in the set and are outside
  `PagePool`.
* `HeapProofs` and `MemoryProofs` prove everything the run `memory` checks except
  `KmallocReturns`, from `IInv == MemInv \/ AfterNullStack`, where
  `MemInv == HeapInv /\ PagesOK /\ PhasesOK /\ SpacesOK`. `AfterNullStack` is the one kind of
  state in which `MemInv` is false: a task whose stack was at physical page 0 has exited,
  the pages of that stack were added to the free ones, and the machine has stopped, so
  that nothing needs to be shown of later steps. Every step from a state that has not
  stopped starts in `MemInv`.
  - `HeapInv` describes the slabs (`SlabsOK`, `BlocksOK`: the free list of a slab and the
    blocks held from it are its blocks, each once), the callers in the middle of
    `Slab::alloc` (`OpsOK`: the slab a caller stands at is on the chain of its size; this is
    what makes it safe to release `slab_lock` between slabs), the large blocks
    (`LargeOK`), and the chains (`ChainOK`: `next` is injective and never a root). Slabs
    are never freed, which keeps `OpsOK` when somebody else steps.
  - `PagesOK` is `PagesPartitioned`, which is inductive only together with the others:
    a page that is freed must be known to be of the one who frees it.
  - `SpacesOK` says that there is a labelling of the tables, by level, space and number
    within the level, under which every entry leads to the table with the label the
    four-level index arithmetic gives (`Down`), and every table but the roots has its parent
    (`Up`). With it each table is in one tree at one place, `Translate` and `Tree`
    can be computed from labels, and mapping, creating and destroying a space change
    the labelling in the evident way. `Shared` and `Full` say why the kernel's half stays
    the same: all pml3 of the higher half exist from `Vmm::init` on, so a
    new mapping there never changes a pml4. `StacksOK` is needed for `~Task`, which asks the
    page tables where the stack is and frees that many pages from there. It says that a
    stack not at page 0 consists of frames no other mapping has; `FramesOK` and `StacksOK`
    take the set of strayed spaces as a parameter and exempt what these map of the low
    pages, which keeps the rest provable after a failed allocation.
  - `HeapImplements`: each step of `HeapNext` is a step of `AllocatorSpec` on the cells the
    blocks stand for, and a step of a task leaves them alone.
* `FilesProofs` proves `HandlesFound`, `ListingMissesNothing`, `NodesFound` and
  `FileInCapacity` for any number of tasks, any archive, hash function, number of
  buckets and workload, from `FilesInv == load \in Workloads /\ TreeOK(nodes) /\
  InCapacity /\ DescOK /\ ListingMissesNothing /\ ListsOK /\ IdsOK`. The second half of
  `FileInCapacity`, `WritesLost`, speaks of the step that ends a behaviour and is shown for
  `VfsWrite` from these.
  - For `FileInCapacity` the arithmetic is in `WrappedIs` and `GrownIs`: doubling a positive
    capacity until it is at least what is needed ends in time and without wrapping
    when what is needed is at most `MaxFile`, since `2 * MaxFile <= SizeRange`.
  - `ListsOK` says what a list of handles *is*: there is a chain `c[1..m]` of
    descriptors, descending, such that `next` leads from the head through it to null
    (`ListOK`), and a `prev` that does not dangle leads one or two places back: the wrong
    pointers of `push`, described as they are. `remove` then either unlinks the
    head, or a node with everything up to its `prev`, and both leave such a chain
    (`RemoveHead`, `RemoveInside`). This is why a push is safe whatever was closed, and the
    chain loses open descriptors only when another than the newest is closed. `WalkIs`
    shows that the walk of `get_file_handle` visits the chain.
  - `IdsOK`: the ids of a task are below `next_id`, and tasks share standard descriptors only.
    The second part is needed because `close` frees the descriptor: closing one of
    another task would leave a dangling handle there.
  - `TreeOK`: the entries of each directory are sorted by bucket with distinct hashes, and every
    node but the first four is an entry of one directory. `Added` says what one round of
    `create` does to it, with `BucketEndIs` for the place of the new entry.
  - `Grows` is the relation between the nodes before and after `create` that listings
    depend on: an entry stays and the number of entries counted before it does not go
    down. It is transitive, hence holds for a path of any length. That reading an entry
    leaves the others ahead rests on `CountInjective`.
  - The recursive functions of the model (`GetNode`, `Create`, `Unpacked`, `Grown`, the walk of a
    list) are handled by `Recursion`: a function built step by step exists and stays in a set
    that every step stays in; where more is needed the set of indices up to
    which the claim holds is shown to be all of them (`Upto`).
* `NetProofs` proves what the run `net` checks. `PacketInv` (buffers are held by one ring each,
  or overwritten; what a socket was given, without what was overwritten, is what was
  read from it followed by what it holds) gives `PacketsAccounted` and `UdpInOrder`,
  with lemmas on what `RingWrite` and `RingRead` do to `Items`. `RxInv` says in which
  descriptors the frames are that the handler has not taken yet, relative to RDT, at
  each of its locations; `TxInv` the same between TDH and TDT. `HeadersVerify` says that a
  descriptor holds a header and its checksum; that such a header verifies is arithmetic on
  the sum, its folding and the carry.

### Assumptions

They are named in the modules, and TLC evaluates them in every run.

* Threads differ; bounds are natural numbers; null is no node and no task, and the
  addresses of nodes are finitely many (`NodeAssumption`).
* A byte has no more bits than a page has bytes; memory maps are sequences of regions
  that leave out page 0.
* Block sizes divide the page and a slab holds a block (`LayoutAssumption`; 8 to 512
  and 4096 in the code).
* `PlaceAssumption`: the kernel and the stacks are in their halves, and neither a segment
  nor `sys_mmap` maps at the stack. The last part is about programs: `sys_mmap` takes any
  hint and does not look whether the place is in use. A program that mapped its own
  stack again would make `~Task` free the pages found there. A mapping from a hint ends within the
  address space (`MaxMmap` pages).
* `WorkloadAssumption`: the memory suffices for the first slabs and for the kernel's
  pml4 and higher-half pml3. `Heap::init` and `Vmm::init` do not test these allocations, and
  a machine that has less does not boot.
* `FilesAssumption`: an archive is a sequence of entries with a path, a kind and a
  size; hashes are numbers, and the empty name is no file name. Nothing is assumed about
  collisions or about the order of the archive. Offsets are any integers. A length is at
  most `MaxFile`, and twice `MaxFile` at most `SizeRange`: no file fills half of the range of
  a `size_t`.
* A ring has at least two slots; a header has fewer words than a word has values
  (`NetAssumption`; ten words of 16 bits). With more words one folding of the sum would not do.

### Only model-checked

Liveness, since the prover has no rule for fairness: `ScheduleReturns`, `RunnableRuns`,
`SleeperWakes`, `ReaderServed`, `KmallocReturns`. The labelling in `MemInv` and the chains in
`Sound` and `ListsOK` are quantified, so TLC does not check these invariants themselves; it
checks the properties that follow from them.

## 5. Not modelled

Not modelled: terminal output, formatting and memory copies; user programs; descriptor
tables, APIC registers, PIT calibration, PCI enumeration, EEPROM and link setup
(sequential hardware access, no state that outlives the call); the decoding of ELF
headers; scan codes and modifiers of the keyboard; the contents of files and of
packets, and the length fields of headers (data the properties do not tell apart);
`real_time`; kernel stacks; flags of page table entries; the odd last byte of an ICMP
checksum; what a program does to the first pages of the machine once it has them mapped.

What would come next: the contents of files (growing a file does not copy its data, and
a read may pass the end; both are listed as hazards).
