------------------------------ MODULE Spinlock ------------------------------
(***************************************************************************)
(* Spinlock (lock.cpp) on the one CPU of the kernel: several locks, taken  *)
(* by kernel threads (which run with interrupts enabled), by system calls  *)
(* of user tasks and by interrupt handlers (both with interrupts off).     *)
(* acquire() reads the interrupt flag into the lock, then disables         *)
(* interrupts, then sets the lock: an interrupt may come between any two   *)
(* of these instructions.                                                  *)
(*                                                                         *)
(* The locks of the kernel nest in a fixed order (cache_lock around        *)
(* packets_lock or slab_lock, futex_lock around slab_lock, slab_lock       *)
(* around pmm_lock) and are released innermost first; a lock is a number,  *)
(* its rank in that order.  A context releases only what it holds; the     *)
(* release() without an acquire() of the two recv_msg, after they blocked, *)
(* is not modelled here.                                                   *)
(***************************************************************************)
EXTENDS Naturals

CONSTANTS
  KernelTask,  \* kernel_main, packet_handler, ...
  UserTask,    \* ring-3 tasks; they take locks only inside system calls
  Irq,         \* the interrupt handler, at most one at a time
  Locks        \* number of locks

ASSUME ContextsDiffer ==
  /\ KernelTask \cap UserTask = {}
  /\ Irq \notin KernelTask \cup UserTask

ASSUME LocksIsNat == Locks \in Nat

Task    == KernelTask \cup UserTask
Context == Task \cup {Irq}
Lock    == 1 .. Locks

VARIABLES
  running,  \* the task on the CPU, or the one the handler interrupted
  irq,      \* an interrupt handler (or the schedule() of a yield) executes
  iflag,    \* RFLAGS.IF of the CPU
  saved,    \* RFLAGS.IF in the saved registers of each task
  syscall,  \* the task is inside a system call
  locked,   \* Spinlock::locked
  restore,  \* Spinlock::restore_interrupts
  pc,       \* per context: "run", or inside acquire(): "cli", "tas"
  want,     \* the lock of that acquire()
  held      \* the locks a context acquired and has not released

vars == <<running, irq, iflag, saved, syscall, locked, restore, pc, want, held>>

(* The context whose instructions the CPU executes. *)
Executing == IF irq THEN Irq ELSE running

TypeOK ==
  /\ running \in Task
  /\ irq \in BOOLEAN
  /\ iflag \in BOOLEAN
  /\ saved \in [Task -> BOOLEAN]
  /\ syscall \in [Task -> BOOLEAN]
  /\ locked \in [Lock -> BOOLEAN]
  /\ restore \in [Lock -> BOOLEAN]
  /\ pc \in [Context -> {"run", "cli", "tas"}]
  /\ want \in [Context -> Lock \cup {0}]
  /\ held \in [Context -> SUBSET Lock]

(* Task::create starts every task with IF set (0x202); restore_interrupts  *)
(* has no initial value.                                                   *)
Init ==
  /\ running \in KernelTask
  /\ irq = FALSE
  /\ iflag = TRUE
  /\ saved = [t \in Task |-> TRUE]
  /\ syscall = [t \in Task |-> FALSE]
  /\ locked = [l \in Lock |-> FALSE]
  /\ restore \in [Lock -> BOOLEAN]
  /\ pc = [c \in Context |-> "run"]
  /\ want = [c \in Context |-> 0]
  /\ held = [c \in Context |-> {}]

-----------------------------------------------------------------------------
(* Kernel code executes: a handler, a kernel thread or a system call. *)
InKernel(c) ==
  c = Executing /\ (c \in UserTask => syscall[c])

(* Mutant: acquire() goes on with the lock behind its own. *)
AcquireReadFlagsNextLock(c, l) ==
  /\ InKernel(c) /\ pc[c] = "run"
  /\ \A m \in held[c] : m < l
  /\ restore' = [restore EXCEPT ![l] = iflag]
  /\ want' = [want EXCEPT ![c] = l + 1]
  /\ pc' = [pc EXCEPT ![c] = "cli"]
  /\ UNCHANGED <<running, irq, iflag, saved, syscall, locked, held>>

(* acquire(), first statement, for a lock further in than those held. *)
AcquireReadFlags(c, l) ==
  /\ InKernel(c) /\ pc[c] = "run"
  /\ \A m \in held[c] : m < l
  /\ restore' = [restore EXCEPT ![l] = iflag]
  /\ want' = [want EXCEPT ![c] = l]
  /\ pc' = [pc EXCEPT ![c] = "cli"]
  /\ UNCHANGED <<running, irq, iflag, saved, syscall, locked, held>>

(* Mutant: acquire() does not disable interrupts. *)
AcquireNoDisable(c) ==
  /\ InKernel(c) /\ pc[c] = "cli"
  /\ pc' = [pc EXCEPT ![c] = "tas"]
  /\ UNCHANGED <<running, irq, iflag, saved, syscall, locked, restore, want,
                 held>>

AcquireDisable(c) ==
  /\ InKernel(c) /\ pc[c] = "cli"
  /\ iflag' = FALSE
  /\ pc' = [pc EXCEPT ![c] = "tas"]
  /\ UNCHANGED <<running, irq, saved, syscall, locked, restore, want, held>>

(* The test-and-set that finds the lock free; on a taken lock it spins. *)
AcquireSet(c) ==
  /\ InKernel(c) /\ pc[c] = "tas"
  /\ ~locked[want[c]]
  /\ locked' = [locked EXCEPT ![want[c]] = TRUE]
  /\ held' = [held EXCEPT ![c] = held[c] \cup {want[c]}]
  /\ pc' = [pc EXCEPT ![c] = "run"]
  /\ UNCHANGED <<running, irq, iflag, saved, syscall, restore, want>>

(* Mutant: release() always enables interrupts. *)
ReleaseEnables(c, l) ==
  /\ InKernel(c) /\ pc[c] = "run"
  /\ l \in held[c] /\ \A m \in held[c] : m <= l
  /\ locked' = [locked EXCEPT ![l] = FALSE]
  /\ iflag' = TRUE
  /\ held' = [held EXCEPT ![c] = held[c] \ {l}]
  /\ UNCHANGED <<running, irq, saved, syscall, restore, pc, want>>

(* release(), of the innermost lock. *)
Release(c, l) ==
  /\ InKernel(c) /\ pc[c] = "run"
  /\ l \in held[c] /\ \A m \in held[c] : m <= l
  /\ locked' = [locked EXCEPT ![l] = FALSE]
  /\ iflag' = (iflag \/ restore[l])
  /\ held' = [held EXCEPT ![c] = held[c] \ {l}]
  /\ UNCHANGED <<running, irq, saved, syscall, restore, pc, want>>

-----------------------------------------------------------------------------
(* The gate stores the flags and clears IF. *)
EnterHandler ==
  /\ irq' = TRUE
  /\ iflag' = FALSE
  /\ saved' = [saved EXCEPT ![running] = iflag]
  /\ UNCHANGED <<running, syscall, locked, restore, pc, want, held>>

(* A device or timer interrupt, between any two instructions. *)
Interrupt == ~irq /\ iflag /\ EnterHandler

(* Scheduler::yield raises the timer vector itself; no code that holds a   *)
(* lock calls it.                                                          *)
Yield ==
  /\ ~irq /\ InKernel(running)
  /\ pc[running] = "run" /\ held[running] = {}
  /\ EnterHandler

(* The handler returns, to any task when it was the timer's. *)
HandlerReturn(t) ==
  /\ irq /\ pc[Irq] = "run" /\ held[Irq] = {}
  /\ irq' = FALSE
  /\ running' = t
  /\ iflag' = saved[t]
  /\ UNCHANGED <<saved, syscall, locked, restore, pc, want, held>>

SyscallEnter(t) ==
  /\ ~irq /\ running = t /\ ~syscall[t]
  /\ syscall' = [syscall EXCEPT ![t] = TRUE]
  /\ iflag' = FALSE
  /\ UNCHANGED <<running, irq, saved, locked, restore, pc, want, held>>

SyscallReturn(t) ==
  /\ ~irq /\ running = t /\ syscall[t]
  /\ pc[t] = "run" /\ held[t] = {}
  /\ syscall' = [syscall EXCEPT ![t] = FALSE]
  /\ iflag' = TRUE
  /\ UNCHANGED <<running, irq, saved, locked, restore, pc, want, held>>

Next ==
  \/ \E c \in Context : \/ \E l \in Lock : AcquireReadFlags(c, l)
                        \/ AcquireDisable(c)
                        \/ AcquireSet(c)
                        \/ \E l \in Lock : Release(c, l)
  \/ Interrupt \/ Yield
  \/ \E t \in Task : HandlerReturn(t)
  \/ \E t \in UserTask : SyscallEnter(t) \/ SyscallReturn(t)

Spec == Init /\ [][Next]_vars

-----------------------------------------------------------------------------
(* "A non-running task will never hold a lock" (lock.cpp): every lock that *)
(* is set belongs to the context that executes, so neither an interrupt    *)
(* handler nor a task switched to can find a lock set by somebody else.    *)
OnlyRunningHolds ==
  \A l \in Lock : locked[l] => l \in held[Executing]

(* The loop of acquire() never spins: on one CPU a set lock could never be *)
(* released while another context spins with interrupts off.               *)
NeverSpins ==
  pc[Executing] = "tas" => ~locked[want[Executing]]

(* While a lock is held, in a handler and in a system call, interrupts are *)
(* off: releasing an inner lock, or one whose restore_interrupts somebody  *)
(* else wrote meanwhile, never enables them too early.                     *)
OffWhileCritical ==
  irq \/ syscall[running] \/ held[Executing] # {} => ~iflag

(* "Interrupts are re-enabled after the lock is released" (lock.cpp): a    *)
(* kernel thread outside acquire()..release() has interrupts enabled.      *)
InterruptsRestored ==
  ~irq /\ pc[running] = "run" /\ held[running] = {} /\ ~syscall[running]
    => iflag
=============================================================================
