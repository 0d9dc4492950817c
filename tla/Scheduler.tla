------------------------------ MODULE Scheduler ------------------------------
(***************************************************************************)
(* The round-robin scheduler (scheduler.cpp, scheduler.hpp) with every     *)
(* thread that drives it: the boot code of kernel.cpp, kernel_main,        *)
(* packet_handler, the ring-3 programs, idle, and the interrupt handlers   *)
(* of the timer, the keyboard and the network card.                        *)
(*                                                                         *)
(* One CPU.  `cpu` is the thread whose instructions it executes and        *)
(* `current_task` the task the scheduler believes it executes.  All gates  *)
(* are interrupt gates: handlers and system calls run with interrupts      *)
(* off, so they are single steps up to the point where they yield; kernel  *)
(* threads run with interrupts on, so each of their statements that        *)
(* touches shared state is a step.  schedule() itself runs with            *)
(* interrupts off, but its search loop reads the time-stamp counter, so    *)
(* every iteration is a step (mode "pick").                                *)
(***************************************************************************)
EXTENDS Naturals, Sequences, TaskQueue

CONSTANTS
  KernelMain,     \* the task of kernel_main
  PacketHandler,  \* the task of Socket::packet_handler
  User,           \* the ring-3 tasks kernel_main loads
  Idle,           \* idle_task
  Boot,           \* the boot thread (_start), which is not a task
  None,           \* nullptr
  MaxSleep,       \* bound: longest sleep, in abstract cycles
  CacheSlots,     \* capacity of E1000::cache (its Size - 1)
  EventSlots,     \* capacity of Task::events (its Size - 1)
  PacketSlots     \* capacity of a socket's `packets` (its Size - 1)

Tasks   == {KernelMain, PacketHandler} \cup User
Threads == Tasks \cup {Idle, Boot}

ASSUME ThreadsDiffer ==
  /\ KernelMain # PacketHandler
  /\ {KernelMain, PacketHandler} \cap User = {}
  /\ {Idle, Boot, None} \cap Tasks = {}
  /\ Idle # Boot /\ Idle # None /\ Boot # None

ASSUME BoundsAreNat ==
  /\ MaxSleep \in Nat
  /\ CacheSlots \in Nat \ {0}
  /\ EventSlots \in Nat \ {0}
  /\ PacketSlots \in Nat \ {0}

Status == {"Ready", "Running", "Sleeping", "WaitingIo"}

VARIABLES
  queue,         \* Scheduler::queue, front first
  cursor,        \* queue.current
  current_task,  \* Scheduler::current_task
  status,        \* Task::status
  wakeIn,        \* cycles left until tsc_sleep (0 when the TSC reached it)
  ctx,           \* the thread whose registers Task::context holds, or None
                 \* once they were loaded and the thread has run on
  cpu,           \* the thread that executes
  mode,          \* "thread", or "pick" inside the loop of schedule()
  timer,         \* TRUE when the local APIC timer is unmasked
  pc,            \* where each thread stands
  kernelIF,      \* RFLAGS.IF of kernel_main between its critical sections
  cache,         \* packets in E1000::cache
  events,        \* keyboard events in the ring of each user task
  packets        \* packets in the socket of each user task

vars == <<queue, cursor, current_task, status, wakeIn, ctx, cpu, mode, timer,
          pc, kernelIF, cache, events, packets>>

(***************************************************************************)
(* Locations.  A user task blocked in a system call stands at the          *)
(* condition of block_on that it evaluates again when it is resumed.       *)
(***************************************************************************)
BootPC   == {"init", "add", "hcf"}
KernelPC == {"sleep_status", "sleep_deadline", "sleep_yield", "slept",
             "add_user", "hcf"}
PacketPC == {"check", "await", "yield", "consume"}
UserPC   == {"user", "slept", "tty", "recv", "futex", "exited"}

TypeOK ==
  /\ queue \in Seq(Tasks)
  /\ cursor \in Tasks \cup {None}
  /\ current_task \in Tasks \cup {Idle, None}
  /\ status \in [Tasks \cup {Idle} -> Status]
  /\ wakeIn \in [Tasks -> 0 .. MaxSleep]
  /\ ctx \in [Tasks \cup {Idle} -> Threads \cup {None}]
  /\ cpu \in Threads
  /\ mode \in {"thread", "pick"}
  /\ timer \in BOOLEAN
  /\ pc \in [Threads -> BootPC \cup KernelPC \cup PacketPC \cup UserPC
                         \cup {"hlt"}]
  /\ pc[Boot] \in BootPC /\ pc[KernelMain] \in KernelPC
  /\ pc[PacketHandler] \in PacketPC /\ \A u \in User : pc[u] \in UserPC
  /\ kernelIF \in BOOLEAN
  /\ cache \in 0 .. CacheSlots
  /\ events \in [User -> 0 .. EventSlots]
  /\ packets \in [User -> 0 .. PacketSlots]

(* Interrupts are enabled: _start after Apic::init, the kernel threads and *)
(* ring 3; a thread inside a system call has them off, and kernel_main for *)
(* good once Spinlock::release did not restore its flag.                   *)
Interruptible ==
  /\ mode = "thread"
  /\ cpu \in User => pc[cpu] = "user"
  /\ cpu = KernelMain => kernelIF

(* An interrupt may fall between the two statements of Spinlock::acquire   *)
(* that read and clear the flag (Spinlock.tla, run spinlock_restore).      *)
(* When the interrupting code takes the same lock with interrupts off,     *)
(* release() leaves kernel_main with interrupts off, and no later code of  *)
(* kernel_main enables them.  kernel_main shares slab_lock and pmm_lock    *)
(* (its `new`s, Elf::load) with the handler of the card and, once          *)
(* packet_handler is queued, with every thread a tick may switch to.  The  *)
(* other threads that can be interrupted share no lock: packet_handler     *)
(* takes all of its own inside cache_lock, _start and idle take none, and  *)
(* system calls have interrupts off from the start.                        *)
LockRace(at) ==
  kernelIF' \in IF cpu = KernelMain /\ pc[KernelMain] \in at
                  THEN {kernelIF, FALSE} ELSE {kernelIF}

(* kernel_main in hcf() with interrupts off: `hlt` never ends.             *)
Halted ==
  mode = "thread" /\ cpu = KernelMain /\ pc[KernelMain] = "hcf" /\ ~kernelIF

(* Task::create leaves tsc_sleep uninitialised; only kernel_main's can be  *)
(* read before sleep() has written it.                                     *)
Init ==
  /\ queue = <<>> /\ cursor = None
  /\ current_task = None
  /\ status = [t \in Tasks \cup {Idle} |-> "Ready"]
  /\ \E left \in {0, MaxSleep} :
       wakeIn = [t \in Tasks |-> IF t = KernelMain THEN left ELSE 0]
  /\ ctx = [t \in Tasks \cup {Idle} |-> t]
  /\ cpu = Boot /\ mode = "thread" /\ timer = TRUE
  /\ pc = [t \in Threads |->
             CASE t = Boot          -> "init"
               [] t = KernelMain    -> "sleep_status"
               [] t = PacketHandler -> "check"
               [] t = Idle          -> "hlt"
               [] OTHER             -> "user"]
  /\ kernelIF = TRUE
  /\ cache = 0
  /\ events = [u \in User |-> 0]
  /\ packets = [u \in User |-> 0]

-----------------------------------------------------------------------------
(* Mutant: the ring counts past its capacity. *)
RingWriteUnbounded(n, slots) == n + 1

(* Ringbuffer::write on a full ring drops the oldest item. *)
RingWrite(n, slots) == IF n < slots THEN n + 1 ELSE slots

(* Mutants: nobody is woken; sleepers are woken too. *)
WokenNobody(st) == st
WokenSleepers(st) ==
  [t \in DOMAIN st |->
     IF t \in Elems(queue) /\ st[t] # "Ready" THEN "Running" ELSE st[t]]

(* wake_net, and the waking part of wake_io. *)
Woken(st) ==
  [t \in DOMAIN st |->
     IF t \in Elems(queue) /\ st[t] = "WaitingIo" THEN "Running" ELSE st[t]]

(* Mutant: the context is saved even when current_task was never started. *)
EnterScheduleSavesReady(q, c, st) ==
  /\ mode' = "pick" /\ timer' = FALSE
  /\ queue' = q
  /\ status' = st
  /\ ctx' = IF q # <<>> THEN [ctx EXCEPT ![current_task] = cpu] ELSE ctx
  /\ current_task' = IF q = <<>> THEN Idle ELSE NextTask(q, c)
  /\ cursor' = IF q = <<>> THEN c ELSE NextTask(q, c)
  /\ UNCHANGED cpu

(* schedule(), lines before the loop, entered with run queue q, its cursor *)
(* c and the statuses st: save the registers of the interrupted thread     *)
(* and advance to the next task.                                           *)
EnterSchedule(q, c, st) ==
  /\ mode' = "pick" /\ timer' = FALSE
  /\ queue' = q
  /\ status' = st
  /\ ctx' = IF q # <<>> /\ st[current_task] # "Ready"
              THEN [ctx EXCEPT ![current_task] = cpu] ELSE ctx
  /\ current_task' = IF q = <<>> THEN Idle ELSE NextTask(q, c)
  /\ cursor' = IF q = <<>> THEN c ELSE NextTask(q, c)
  /\ UNCHANGED cpu

(* Mutant: a sleeper is skipped without a look at the time-stamp counter. *)
NotRunnableEver(t) == status[t] \in {"WaitingIo", "Sleeping"}

(* The loop: a Sleeping or WaitingIo task sends the search one node on, to *)
(* idle when that is the same task again.                                  *)
NotRunnable(t) ==
  status[t] = "WaitingIo" \/ (status[t] = "Sleeping" /\ wakeIn[t] > 0)

(* Mutants: the search leaves queue.current behind; it never moves on. *)
PickNextLeavesCursor ==
  /\ mode = "pick"
  /\ current_task # Idle /\ NotRunnable(current_task)
  /\ current_task' = NextTask(queue, current_task)
  /\ UNCHANGED <<queue, cursor, status, wakeIn, ctx, cpu, mode, timer, pc,
                 kernelIF, cache, events, packets>>
PickNextStays ==
  /\ mode = "pick"
  /\ current_task # Idle /\ NotRunnable(current_task)
  /\ UNCHANGED vars

PickNext ==
  /\ mode = "pick"
  /\ current_task # Idle /\ NotRunnable(current_task)
  /\ cursor' = NextTask(queue, cursor)
  /\ current_task' = IF cursor' # current_task THEN cursor' ELSE Idle
  /\ UNCHANGED <<queue, status, wakeIn, ctx, cpu, mode, timer, pc, kernelIF,
                 cache, events, packets>>

(* Mutant: Lapic::resume is forgotten. *)
DispatchMaskedTimer ==
  /\ mode = "pick"
  /\ current_task = Idle \/ ~NotRunnable(current_task)
  /\ status' = [status EXCEPT ![current_task] = "Running"]
  /\ cpu' = IF ctx[current_task] = None THEN current_task
                                        ELSE ctx[current_task]
  /\ ctx' = [ctx EXCEPT ![current_task] = None]
  /\ mode' = "thread"
  /\ UNCHANGED <<queue, cursor, current_task, wakeIn, timer, pc, kernelIF,
                 cache, events, packets>>

(* The loop ends on a Ready, Running or rested task: load its registers    *)
(* and unmask the timer.                                                   *)
Dispatch ==
  /\ mode = "pick"
  /\ current_task = Idle \/ ~NotRunnable(current_task)
  /\ status' = [status EXCEPT ![current_task] = "Running"]
  /\ cpu' = IF ctx[current_task] = None THEN current_task
                                        ELSE ctx[current_task]
  /\ ctx' = [ctx EXCEPT ![current_task] = None]
  /\ mode' = "thread" /\ timer' = TRUE
  /\ UNCHANGED <<queue, cursor, current_task, wakeIn, pc, kernelIF, cache,
                 events, packets>>

(* The local APIC timer.  Before Scheduler::init, schedule() returns at    *)
(* once.                                                                   *)
TimerTick ==
  /\ Interruptible /\ timer /\ pc[Boot] # "init"
  /\ EnterSchedule(queue, cursor, status)
  /\ LockRace({"add_user"})
  /\ UNCHANGED <<wakeIn, pc, cache, events, packets>>

(* The time-stamp counter advances. *)
Elapse ==
  /\ \E t \in Tasks : wakeIn[t] > 0
  /\ wakeIn' = [t \in Tasks |-> IF wakeIn[t] > 0 THEN wakeIn[t] - 1 ELSE 0]
  /\ UNCHANGED <<queue, cursor, current_task, status, ctx, cpu, mode, timer,
                 pc, kernelIF, cache, events, packets>>

(* Keyboard::handler with a key that produces an event: wake_io. *)
KeyboardInterrupt ==
  /\ Interruptible
  /\ events' = [u \in User |-> IF u \in Elems(queue)
                                 THEN RingWrite(events[u], EventSlots)
                                 ELSE events[u]]
  /\ status' = Woken(status)
  /\ UNCHANGED <<queue, cursor, current_task, wakeIn, ctx, cpu, mode, timer,
                 pc, kernelIF, cache, packets>>

(* E1000::handler with one received frame; the card interrupts only once   *)
(* E1000::init has written IMS, after the sleep of the reset.              *)
NicInterrupt ==
  /\ Interruptible
  /\ pc[KernelMain] \in {"slept", "add_user", "hcf"}
  /\ cache' = RingWrite(cache, CacheSlots)
  /\ status' = Woken(status)
  /\ LockRace({"slept", "add_user"})
  /\ UNCHANGED <<queue, cursor, current_task, wakeIn, ctx, cpu, mode, timer,
                 pc, events, packets>>

-----------------------------------------------------------------------------
(* _start: Scheduler::init, then add_task(kernel_task), then hcf. *)
Runs(t, at) == mode = "thread" /\ cpu = t /\ pc[t] = at

BootInit ==
  /\ Runs(Boot, "init")
  /\ current_task' = Idle
  /\ pc' = [pc EXCEPT ![Boot] = "add"]
  /\ UNCHANGED <<queue, cursor, status, wakeIn, ctx, cpu, mode, timer,
                 kernelIF, cache, events, packets>>

Enqueue(t, thread, next) ==
  /\ queue' = AddTask(queue, t)
  /\ cursor' = CursorAfterAdd(queue, cursor, t)
  /\ pc' = [pc EXCEPT ![thread] = next]
  /\ UNCHANGED <<current_task, status, wakeIn, ctx, cpu, mode, timer,
                 kernelIF, cache, events, packets>>

BootAdd == Runs(Boot, "add") /\ Enqueue(KernelMain, Boot, "hcf")

(* kernel_main: the reset of the card sleeps (E1000::reset), then          *)
(* E1000::init adds packet_handler, then the ELF is loaded and added; the  *)
(* thread parks in hcf and stays in the queue.  sleep() is preemptible     *)
(* between its statements.                                                 *)
KernelSleepStatus ==
  /\ Runs(KernelMain, "sleep_status")
  /\ status' = [status EXCEPT ![current_task] = "Sleeping"]
  /\ pc' = [pc EXCEPT ![KernelMain] = "sleep_deadline"]
  /\ UNCHANGED <<queue, cursor, current_task, wakeIn, ctx, cpu, mode, timer,
                 kernelIF, cache, events, packets>>

KernelSleepDeadline ==
  /\ Runs(KernelMain, "sleep_deadline")
  /\ wakeIn' = [wakeIn EXCEPT ![current_task] = MaxSleep]
  /\ pc' = [pc EXCEPT ![KernelMain] = "sleep_yield"]
  /\ UNCHANGED <<queue, cursor, current_task, status, ctx, cpu, mode, timer,
                 kernelIF, cache, events, packets>>

KernelSleepYield ==
  /\ Runs(KernelMain, "sleep_yield")
  /\ pc' = [pc EXCEPT ![KernelMain] = "slept"]
  /\ EnterSchedule(queue, cursor, status)
  /\ UNCHANGED <<wakeIn, kernelIF, cache, events, packets>>

KernelAddPacketHandler ==
  Runs(KernelMain, "slept") /\ Enqueue(PacketHandler, KernelMain, "add_user")

(* kernel.cpp loads one program; the queue takes any number. *)
KernelAddUser ==
  /\ Runs(KernelMain, "add_user")
  /\ \E u \in User :
       /\ u \notin Elems(queue) /\ pc[u] # "exited"
       /\ Enqueue(u, KernelMain,
                  IF \A w \in User \ {u} : w \in Elems(queue) \/ pc[w] = "exited"
                    THEN "hcf" ELSE "add_user")

(* packet_handler: block_on(cache not empty), with interrupts on. *)
PacketCheck ==
  /\ Runs(PacketHandler, "check")
  /\ pc' = [pc EXCEPT ![PacketHandler] =
              IF cache > 0 THEN "consume" ELSE "await"]
  /\ UNCHANGED <<queue, cursor, current_task, status, wakeIn, ctx, cpu, mode,
                 timer, kernelIF, cache, events, packets>>

PacketAwait ==
  /\ Runs(PacketHandler, "await")
  /\ status' = [status EXCEPT ![current_task] = "WaitingIo"]
  /\ pc' = [pc EXCEPT ![PacketHandler] = "yield"]
  /\ UNCHANGED <<queue, cursor, current_task, wakeIn, ctx, cpu, mode, timer,
                 kernelIF, cache, events, packets>>

PacketYield ==
  /\ Runs(PacketHandler, "yield")
  /\ pc' = [pc EXCEPT ![PacketHandler] = "check"]
  /\ EnterSchedule(queue, cursor, status)
  /\ UNCHANGED <<wakeIn, kernelIF, cache, events, packets>>

(* From cache_lock.acquire to its release interrupts are off: one packet   *)
(* is read, handed to the sockets it is for, and its readers are woken.    *)
PacketConsume ==
  /\ Runs(PacketHandler, "consume")
  /\ cache' = cache - 1
  /\ \E to \in SUBSET (User \cap Elems(queue)), wake \in BOOLEAN :
       /\ to # {} => wake
       /\ packets' = [u \in User |-> IF u \in to
                                       THEN RingWrite(packets[u], PacketSlots)
                                       ELSE packets[u]]
       /\ status' = IF wake THEN Woken(status) ELSE status
  /\ pc' = [pc EXCEPT ![PacketHandler] = "check"]
  /\ UNCHANGED <<queue, cursor, current_task, wakeIn, ctx, cpu, mode, timer,
                 kernelIF, events>>

-----------------------------------------------------------------------------
(* System calls.  They run with interrupts off: from the condition of      *)
(* block_on to the schedule() inside await_io is one step.                 *)
SysSleep(u, ms) ==
  /\ Runs(u, "user")
  /\ wakeIn' = [wakeIn EXCEPT ![current_task] = ms]
  /\ pc' = [pc EXCEPT ![u] = "slept"]
  /\ EnterSchedule(queue, cursor, [status EXCEPT ![current_task] = "Sleeping"])
  /\ UNCHANGED <<kernelIF, cache, events, packets>>

SysSleepReturn(u) ==
  /\ Runs(u, "slept")
  /\ pc' = [pc EXCEPT ![u] = "user"]
  /\ UNCHANGED <<queue, cursor, current_task, status, wakeIn, ctx, cpu, mode,
                 timer, kernelIF, cache, events, packets>>

AwaitIo(u, at) ==
  /\ pc' = [pc EXCEPT ![u] = at]
  /\ EnterSchedule(queue, cursor, [status EXCEPT ![current_task] = "WaitingIo"])
  /\ UNCHANGED <<wakeIn, kernelIF, cache, events, packets>>

(* Tty::read: one event per iteration; a release event, or a buffer not    *)
(* yet full, goes round the loop again.                                    *)
TtyRead(u) ==
  /\ Runs(u, "user") \/ Runs(u, "tty")
  /\ \/ events[u] = 0 /\ AwaitIo(u, "tty")
     \/ /\ events[u] > 0
        /\ events' = [events EXCEPT ![u] = events[u] - 1]
        /\ \E next \in {"tty", "user"} : pc' = [pc EXCEPT ![u] = next]
        /\ UNCHANGED <<queue, cursor, current_task, status, wakeIn, ctx, cpu,
                       mode, timer, kernelIF, cache, packets>>

(* UdpSocket::recv_msg and IcmpSocket::recv_msg; the non-blocking flags    *)
(* make an empty socket return at once.                                    *)
RecvMsg(u) ==
  /\ Runs(u, "user") \/ Runs(u, "recv")
  /\ \/ packets[u] = 0 /\ AwaitIo(u, "recv")
     \/ /\ packets[u] > 0
        /\ packets' = [packets EXCEPT ![u] = packets[u] - 1]
        /\ pc' = [pc EXCEPT ![u] = "user"]
        /\ UNCHANGED <<queue, cursor, current_task, status, wakeIn, ctx, cpu,
                       mode, timer, kernelIF, cache, events>>

(* sys_get_kb_event: one event if there is one, without blocking. *)
GetKbEvent(u) ==
  /\ Runs(u, "user")
  /\ events' = [events EXCEPT ![u] = IF events[u] > 0 THEN events[u] - 1 ELSE 0]
  /\ UNCHANGED <<queue, cursor, current_task, status, wakeIn, ctx, cpu, mode,
                 timer, pc, kernelIF, cache, packets>>

(* sys_futex_wait with the expected value: the condition of its block_on   *)
(* is the constant false, so a waiter that was made Running waits again    *)
(* and the lines after block_on are never reached.  With another value the *)
(* call returns -EAGAIN and changes nothing.                               *)
FutexWait(u) ==
  (Runs(u, "user") \/ Runs(u, "futex")) /\ AwaitIo(u, "futex")

(* wake_futex_handles: a task is in futex_handles, with the pointer in its *)
(* list, from its call of sys_futex_wait on, hence for good; `ws` are the  *)
(* waiters on the pointer that is woken.                                   *)
FutexWaiters == {w \in User : pc[w] = "futex"}

FutexWake(u) ==
  /\ Runs(u, "user")
  /\ \E ws \in SUBSET FutexWaiters :
       status' = [t \in DOMAIN status |->
                    IF t \in ws THEN "Running" ELSE status[t]]
  /\ UNCHANGED <<queue, cursor, current_task, wakeIn, ctx, cpu, mode, timer,
                 pc, kernelIF, cache, events, packets>>

(* sys_exit: kill_and_yield deletes current_task, unlinks queue.current    *)
(* and yields.  current_task still points to the deleted task, whose       *)
(* status field keeps its value, so schedule() saves into it.              *)
SysExit(u) ==
  /\ Runs(u, "user")
  /\ pc' = [pc EXCEPT ![u] = "exited"]
  /\ EnterSchedule(Without(queue, cursor),
                   CursorAfterRemove(queue, cursor, None), status)
  /\ UNCHANGED <<wakeIn, kernelIF, cache, events, packets>>

-----------------------------------------------------------------------------
BootStep == BootInit \/ BootAdd
KernelMainStep ==
  \/ KernelSleepStatus \/ KernelSleepDeadline \/ KernelSleepYield
  \/ KernelAddPacketHandler \/ KernelAddUser
PacketStep == PacketCheck \/ PacketAwait \/ PacketYield \/ PacketConsume

(* A system call in progress continues; a new one is the program's choice. *)
SysContinue(u) ==
  \/ SysSleepReturn(u)
  \/ pc[u] = "tty" /\ TtyRead(u)
  \/ pc[u] = "recv" /\ RecvMsg(u)
  \/ pc[u] = "futex" /\ FutexWait(u)

UserStep(u) ==
  \/ \E ms \in 0 .. MaxSleep : SysSleep(u, ms)
  \/ SysSleepReturn(u)
  \/ TtyRead(u)
  \/ RecvMsg(u)
  \/ GetKbEvent(u)
  \/ FutexWait(u)
  \/ FutexWake(u)
  \/ SysExit(u)

Next ==
  \/ PickNext \/ Dispatch
  \/ TimerTick \/ Elapse \/ KeyboardInterrupt \/ NicInterrupt
  \/ BootStep \/ KernelMainStep \/ PacketStep
  \/ \E u \in User : UserStep(u)

(***************************************************************************)
(* Fairness.  The loop of schedule() executes; the time-stamp counter      *)
(* advances; the timer is periodic and the local APIC keeps its interrupt  *)
(* pending while they are off, hence SF (which asks for nothing once they  *)
(* are off for good); and a thread that gets the CPU again and again       *)
(* executes instructions (a quantum is 1 ms), hence SF.                    *)
(* Nothing obliges a key press, a frame, or a program to make a call.      *)
(***************************************************************************)
Fairness ==
  /\ WF_vars(PickNext \/ Dispatch)
  /\ SF_vars(TimerTick)
  /\ WF_vars(Elapse)
  /\ WF_vars(BootStep)
  /\ SF_vars(KernelMainStep)
  /\ SF_vars(PacketStep)
  /\ \A u \in User : SF_vars(SysContinue(u))

Spec == Init /\ [][Next]_vars /\ Fairness

-----------------------------------------------------------------------------
(* The thread on the CPU is current_task and queue.current is its node,    *)
(* even after idle ran or a task exited.  sleep(), await_io() and          *)
(* get_current_task() act on current_task, kill_and_yield() deletes        *)
(* current_task and unlinks queue.current: if they parted, a thread would  *)
(* block or remove another one.                                            *)
CurrentIsExecuting ==
  mode = "thread" /\ cpu # Boot =>
    /\ cpu = current_task
    /\ cpu # Idle => cursor = cpu /\ cpu \in Elems(queue)

(* Every queued task that is not executing has its own latest registers in *)
(* its context: never another thread's, never ones it already ran on from; *)
(* and idle's context never holds another thread's (the comment in         *)
(* schedule() about "a wrong context").                                    *)
ContextsOwned ==
  /\ \A t \in Elems(queue) : mode = "pick" \/ t # cpu => ctx[t] = t
  /\ ctx[Idle] \in {Idle, None}

(* A program that waits is in Tty::read, recv_msg or sys_futex_wait, and   *)
(* in the first two only while there is nothing for it: no interrupt and   *)
(* no packet_handler step between its test in block_on and its WaitingIo   *)
(* status is missed.                                                       *)
NoLostUserWakeup ==
  \A u \in User :
    status[u] = "WaitingIo" =>
      /\ pc[u] \in {"tty", "recv", "futex"}
      /\ pc[u] = "tty" => events[u] = 0
      /\ pc[u] = "recv" => packets[u] = 0

(* A thread that runs again after sleep() has reached its tsc_sleep, though *)
(* wake_io and wake_net store Running into other tasks' status.            *)
SleepHonoured(t) ==
  mode = "thread" /\ cpu = t /\ pc[t] = "slept" => wakeIn[t] = 0

(* sys_sleep, called with interrupts off, sleeps its full time. *)
UserSleepHonoured == \A u \in User : SleepHonoured(u)

(* Scheduler::sleep called by kernel_main sleeps its full time. *)
KernelSleepHonoured == SleepHonoured(KernelMain)

-----------------------------------------------------------------------------
(* The search loop of schedule(), which runs with interrupts off, always   *)
(* ends: some queued task is runnable, or the loop reaches idle.           *)
ScheduleReturns == mode = "pick" ~> mode = "thread"

(* No starvation: every queued task that is Ready or Running gets the CPU. *)
(* The one way the scheduler starves a task is kernel_main halting with    *)
(* interrupts off, after the lock lost its flag.                           *)
RunnableRuns ==
  \A t \in Tasks :
    t \in Elems(queue) /\ status[t] \in {"Ready", "Running"}
      ~> (cpu = t \/ Halted)

(* Every sleeper is woken, unless kernel_main halts with interrupts off.   *)
SleeperWakes ==
  \A t \in Tasks : status[t] = "Sleeping" ~> (status[t] = "Running" \/ Halted)

(* A program blocked in recv_msg or in Tty::read whose socket or event     *)
(* ring has something gets to read it, unless kernel_main halts with       *)
(* interrupts off.                                                         *)
ReaderServed ==
  \A u \in User :
    /\ pc[u] = "recv" /\ packets[u] > 0 ~> (pc[u] # "recv" \/ Halted)
    /\ pc[u] = "tty" /\ events[u] > 0
         ~> (pc[u] # "tty" \/ events[u] = 0 \/ Halted)

(* A packet in the cache of the driver is consumed by packet_handler,      *)
(* which blocks "until we receive a packet" (a machine halted by the lock  *)
(* is not held against it).                                                *)
PacketHandled == cache > 0 ~> (pc[PacketHandler] = "consume" \/ Halted)
=============================================================================
