--------------------------- MODULE SpinlockProofs ---------------------------
(***************************************************************************)
(* The spinlock is safe on one CPU, for any tasks and any number of locks. *)
(***************************************************************************)
EXTENDS Spinlock, TLAPS

(* Whoever does not execute holds no lock and is not about to take one.    *)
OthersHoldNothing ==
  /\ \A c \in Context : c # Executing => held[c] = {} /\ pc[c] # "tas"
  /\ ~irq => pc[Irq] = "run"
  /\ \A t \in UserTask : ~syscall[t] => held[t] = {} /\ pc[t] = "run"

(* Inside acquire() the lock wanted lies further in than those held. *)
WantsInner ==
  \A c \in Context :
    pc[c] # "run" => want[c] \in Lock /\ \A m \in held[c] : m < want[c]

(* Interrupts are off in a critical section, and from the second           *)
(* instruction of acquire() on.                                            *)
Masked ==
  /\ irq \/ syscall[running] \/ held[Executing] # {} \/ pc[Executing] = "tas"
       => ~iflag
  /\ \A t \in Task : syscall[t] /\ t # Executing => pc[t] = "run" /\ ~saved[t]

(* restore_interrupts of a lock that is held, or being acquired, is false  *)
(* wherever its release must leave interrupts off.                         *)
RestoresFalse ==
  /\ \A l \in held[Executing] :
       irq \/ syscall[running] \/ (\E m \in held[Executing] : m < l)
         => ~restore[l]
  /\ pc[Executing] # "run"
       /\ (irq \/ syscall[running] \/ held[Executing] # {})
       => ~restore[want[Executing]]

IInv ==
  /\ TypeOK /\ OthersHoldNothing /\ OnlyRunningHolds /\ WantsInner /\ Masked
  /\ RestoresFalse

-----------------------------------------------------------------------------
(* The context that executes is a context, and the handler is no task. *)
LEMMA ExecutingIsContext ==
  ASSUME TypeOK
  PROVE  /\ Executing \in Context /\ running \in Context
         /\ irq => Executing = Irq /\ running # Irq
         /\ ~irq => Executing = running
         /\ Irq \notin Task
BY ContextsDiffer DEF TypeOK, Executing, Context, Task

LEMMA InitInv == Init => IInv
<1> SUFFICES ASSUME Init PROVE IInv
  OBVIOUS
<1>1. TypeOK
  BY DEF Init, TypeOK, Task
<1>2. Executing \in Context /\ running \in Context
  BY <1>1, ExecutingIsContext
<1>. QED
  BY <1>1, <1>2
     DEF Init, IInv, OthersHoldNothing, OnlyRunningHolds, WantsInner, Masked,
         RestoresFalse, Context, Task

(* acquire() and release(). *)
LEMMA ReadFlagsInv ==
  ASSUME IInv, NEW c \in Context, NEW l \in Lock, AcquireReadFlags(c, l)
  PROVE  IInv'
<1>1. /\ TypeOK /\ c = Executing /\ pc[c] = "run"
      /\ (c \in UserTask => syscall[c])
      /\ \A m \in held[c] : m < l
      /\ restore' = [restore EXCEPT ![l] = iflag]
      /\ want' = [want EXCEPT ![c] = l]
      /\ pc' = [pc EXCEPT ![c] = "cli"]
      /\ UNCHANGED <<running, irq, iflag, saved, syscall, locked, held>>
  BY DEF AcquireReadFlags, InKernel, IInv
<1>2. TypeOK'
  BY <1>1 DEF TypeOK
<1>3. Executing' = Executing /\ (~irq => Executing # Irq)
  BY <1>1, ExecutingIsContext DEF Executing, Context, TypeOK
<1>4. /\ pc'[c] = "cli" /\ want'[c] = l /\ restore'[l] = iflag
      /\ \A d \in Context : d # c => pc'[d] = pc[d] /\ want'[d] = want[d]
      /\ \A m \in Lock : m # l => restore'[m] = restore[m]
  BY <1>1 DEF TypeOK
<1>5. l \notin held[c] /\ held[c] \subseteq Lock
  <2>1. held[c] \subseteq Lock
    BY <1>1 DEF TypeOK
  <2>2. ~(l < l)
    BY DEF Lock
  <2>. QED
    BY <1>1, <2>1, <2>2
<1>6. OthersHoldNothing'
  BY <1>1, <1>3, <1>4 DEF IInv, OthersHoldNothing, Context, Task
<1>7. OnlyRunningHolds'
  BY <1>1, <1>3 DEF IInv, OnlyRunningHolds
<1>8. WantsInner'
  BY <1>1, <1>4 DEF IInv, WantsInner
<1>9. Masked'
  BY <1>1, <1>3, <1>4 DEF IInv, Masked, Context
<1>10. RestoresFalse'
  BY <1>1, <1>3, <1>4, <1>5 DEF IInv, Masked, RestoresFalse
<1>. QED
  BY <1>2, <1>6, <1>7, <1>8, <1>9, <1>10 DEF IInv

LEMMA DisableInv ==
  ASSUME IInv, NEW c \in Context, AcquireDisable(c)
  PROVE  IInv'
<1>1. /\ TypeOK /\ c = Executing /\ pc[c] = "cli"
      /\ (c \in UserTask => syscall[c])
      /\ iflag' = FALSE
      /\ pc' = [pc EXCEPT ![c] = "tas"]
      /\ UNCHANGED <<running, irq, saved, syscall, locked, restore, want, held>>
  BY DEF AcquireDisable, InKernel, IInv
<1>2. TypeOK'
  BY <1>1 DEF TypeOK
<1>3. Executing' = Executing /\ (~irq => Executing # Irq)
  BY <1>1, ExecutingIsContext DEF Executing, Context, TypeOK
<1>4. /\ pc'[c] = "tas"
      /\ \A d \in Context : d # c => pc'[d] = pc[d]
  BY <1>1 DEF TypeOK
<1>5. OthersHoldNothing'
  BY <1>1, <1>3, <1>4 DEF IInv, OthersHoldNothing, Context, Task
<1>6. OnlyRunningHolds'
  BY <1>1, <1>3 DEF IInv, OnlyRunningHolds
<1>7. WantsInner'
  BY <1>1, <1>4 DEF IInv, WantsInner
<1>8. Masked'
  BY <1>1, <1>3, <1>4 DEF IInv, Masked, Context
<1>9. RestoresFalse'
  BY <1>1, <1>3, <1>4 DEF IInv, RestoresFalse
<1>. QED
  BY <1>2, <1>5, <1>6, <1>7, <1>8, <1>9 DEF IInv

LEMMA SetInv ==
  ASSUME IInv, NEW c \in Context, AcquireSet(c)
  PROVE  IInv'
<1>1. /\ TypeOK /\ c = Executing /\ pc[c] = "tas"
      /\ (c \in UserTask => syscall[c])
      /\ locked' = [locked EXCEPT ![want[c]] = TRUE]
      /\ held' = [held EXCEPT ![c] = held[c] \cup {want[c]}]
      /\ pc' = [pc EXCEPT ![c] = "run"]
      /\ UNCHANGED <<running, irq, iflag, saved, syscall, restore, want>>
  BY DEF AcquireSet, InKernel, IInv
<1>2. want[c] \in Lock /\ \A m \in held[c] : m < want[c]
  BY <1>1 DEF IInv, WantsInner
<1>3. TypeOK'
  BY <1>1, <1>2 DEF TypeOK
<1>4. Executing' = Executing /\ (~irq => Executing # Irq)
  BY <1>1, ExecutingIsContext DEF Executing, Context, TypeOK
<1>5. /\ pc'[c] = "run" /\ held'[c] = held[c] \cup {want[c]}
      /\ \A d \in Context : d # c => pc'[d] = pc[d] /\ held'[d] = held[d]
      /\ \A l \in Lock : l # want[c] => locked'[l] = locked[l]
  BY <1>1, <1>2 DEF TypeOK
<1>6. OthersHoldNothing'
  BY <1>1, <1>4, <1>5 DEF IInv, OthersHoldNothing, Context, Task
<1>7. OnlyRunningHolds'
  BY <1>1, <1>4, <1>5 DEF IInv, OnlyRunningHolds
<1>8. WantsInner'
  BY <1>1, <1>5 DEF IInv, WantsInner
<1>9. Masked'
  BY <1>1, <1>4, <1>5 DEF IInv, Masked, Context
<1>10. RestoresFalse'
  <2>1. \A l \in held[c] : l \in Lock /\ ~(want[c] < l)
    BY <1>1, <1>2 DEF TypeOK, Lock
  <2>2. ~(want[c] < want[c])
    BY <1>2 DEF Lock
  <2>. QED
    BY <1>1, <1>4, <1>5, <2>1, <2>2 DEF IInv, RestoresFalse
<1>. QED
  BY <1>3, <1>6, <1>7, <1>8, <1>9, <1>10 DEF IInv

LEMMA ReleaseInv ==
  ASSUME IInv, NEW c \in Context, NEW l \in Lock, Release(c, l)
  PROVE  IInv'
<1>1. /\ TypeOK /\ c = Executing /\ pc[c] = "run"
      /\ (c \in UserTask => syscall[c])
      /\ l \in held[c] /\ \A m \in held[c] : m <= l
      /\ locked' = [locked EXCEPT ![l] = FALSE]
      /\ iflag' = (iflag \/ restore[l])
      /\ held' = [held EXCEPT ![c] = held[c] \ {l}]
      /\ UNCHANGED <<running, irq, saved, syscall, restore, pc, want>>
  BY DEF Release, InKernel, IInv
<1>2. TypeOK'
  BY <1>1 DEF TypeOK
<1>3. Executing' = Executing /\ (~irq => Executing # Irq)
  BY <1>1, ExecutingIsContext DEF Executing, Context, TypeOK
<1>4. /\ held'[c] = held[c] \ {l}
      /\ \A d \in Context : d # c => held'[d] = held[d]
      /\ ~locked'[l] /\ \A m \in Lock : m # l => locked'[m] = locked[m]
  BY <1>1 DEF TypeOK
<1>5. ~iflag
  BY <1>1 DEF IInv, Masked
<1>6. OthersHoldNothing'
  BY <1>1, <1>3, <1>4 DEF IInv, OthersHoldNothing, Context, Task
<1>7. OnlyRunningHolds'
  BY <1>1, <1>3, <1>4 DEF IInv, OnlyRunningHolds
<1>8. WantsInner'
  BY <1>1, <1>4 DEF IInv, WantsInner
<1>9. Masked'
  <2>1. irq \/ syscall[running] \/ held'[c] # {} => ~restore[l]
    <3>1. \A m \in held'[c] : m \in held[c] /\ m < l
      BY <1>1, <1>4 DEF TypeOK, Lock
    <3>. QED
      BY <1>1, <3>1 DEF IInv, RestoresFalse
  <2>. QED
    BY <1>1, <1>3, <1>4, <1>5, <2>1 DEF IInv, Masked, Context
<1>10. RestoresFalse'
  BY <1>1, <1>3, <1>4 DEF IInv, RestoresFalse
<1>. QED
  BY <1>2, <1>6, <1>7, <1>8, <1>9, <1>10 DEF IInv

(* A handler starts: the interrupted task holds nothing and is not at the  *)
(* test-and-set.                                                           *)
LEMMA EnterHandlerInv ==
  ASSUME IInv, ~irq, EnterHandler,
         held[running] = {}, pc[running] # "tas",
         syscall[running] => pc[running] = "run" /\ ~iflag
  PROVE  IInv'
<1>1. /\ TypeOK /\ irq' = TRUE /\ iflag' = FALSE
      /\ saved' = [saved EXCEPT ![running] = iflag]
      /\ UNCHANGED <<running, syscall, locked, restore, pc, want, held>>
  BY DEF EnterHandler, IInv
<1>2. TypeOK'
  BY <1>1 DEF TypeOK
<1>3. /\ Executing = running /\ Executing' = Irq /\ Irq \in Context
      /\ running \in Context /\ Irq # running /\ Irq \notin Task /\ running \in Task
  BY <1>1, ExecutingIsContext DEF Executing, Context, TypeOK
<1>4. held[Irq] = {} /\ pc[Irq] = "run"
  BY <1>3 DEF IInv, OthersHoldNothing
<1>5. /\ saved'[running] = iflag
      /\ \A t \in Task : t # running => saved'[t] = saved[t]
  BY <1>1, <1>3 DEF TypeOK
<1>6. OthersHoldNothing'
  BY <1>1, <1>3 DEF IInv, OthersHoldNothing
<1>7. OnlyRunningHolds'
  BY <1>1, <1>3 DEF IInv, OnlyRunningHolds
<1>8. WantsInner'
  BY <1>1 DEF IInv, WantsInner
<1>9. Masked'
  BY <1>1, <1>3, <1>4, <1>5 DEF IInv, Masked
<1>10. RestoresFalse'
  BY <1>1, <1>3, <1>4 DEF RestoresFalse
<1>. QED
  BY <1>2, <1>6, <1>7, <1>8, <1>9, <1>10 DEF IInv

LEMMA HandlerReturnInv ==
  ASSUME IInv, NEW t \in Task, HandlerReturn(t)
  PROVE  IInv'
<1>1. /\ TypeOK /\ irq /\ pc[Irq] = "run" /\ held[Irq] = {}
      /\ irq' = FALSE /\ running' = t /\ iflag' = saved[t]
      /\ UNCHANGED <<saved, syscall, locked, restore, pc, want, held>>
  BY DEF HandlerReturn, IInv
<1>2. TypeOK'
  BY <1>1 DEF TypeOK
<1>3. Executing = Irq /\ Executing' = t /\ t # Irq /\ t \in Context
  BY <1>1, ExecutingIsContext DEF Executing, Context
<1>4. held[t] = {} /\ pc[t] # "tas" /\ (syscall[t] => pc[t] = "run" /\ ~saved[t])
  BY <1>3 DEF IInv, OthersHoldNothing, Masked
<1>5. OthersHoldNothing'
  BY <1>1, <1>3 DEF IInv, OthersHoldNothing
<1>6. OnlyRunningHolds'
  BY <1>1, <1>3 DEF IInv, OnlyRunningHolds
<1>7. WantsInner'
  BY <1>1 DEF IInv, WantsInner
<1>8. Masked'
  <2>1. \A x \in Task : x # Irq
    BY <1>1, ExecutingIsContext
  <2>. QED
    BY <1>1, <1>3, <1>4, <2>1 DEF IInv, Masked
<1>9. RestoresFalse'
  BY <1>1, <1>3, <1>4 DEF RestoresFalse
<1>. QED
  BY <1>2, <1>5, <1>6, <1>7, <1>8, <1>9 DEF IInv

(* System calls. *)
LEMMA SyscallInv ==
  ASSUME IInv, NEW t \in UserTask, SyscallEnter(t) \/ SyscallReturn(t)
  PROVE  IInv'
<1>1. /\ TypeOK /\ ~irq /\ running = t /\ t \in Task /\ t \in Context
      /\ UNCHANGED <<running, irq, saved, locked, restore, pc, want, held>>
  BY DEF SyscallEnter, SyscallReturn, IInv, Task, Context
<1>2. Executing = t /\ Executing' = t
  BY <1>1 DEF Executing
<1>3. held[t] = {} /\ pc[t] = "run"
  BY DEF SyscallEnter, SyscallReturn, IInv, OthersHoldNothing
<1>4. PICK b \in BOOLEAN : /\ syscall' = [syscall EXCEPT ![t] = b]
                           /\ iflag' = ~b
  BY DEF SyscallEnter, SyscallReturn
<1>5. syscall'[t] = b /\ \A x \in Task : x # t => syscall'[x] = syscall[x]
  BY <1>1, <1>4 DEF TypeOK
<1>6. TypeOK'
  BY <1>1, <1>4 DEF TypeOK
<1>7. OthersHoldNothing'
  BY <1>1, <1>2, <1>3, <1>5 DEF IInv, OthersHoldNothing, Task
<1>8. OnlyRunningHolds'
  BY <1>1, <1>2 DEF IInv, OnlyRunningHolds
<1>9. WantsInner'
  BY <1>1 DEF IInv, WantsInner
<1>10. Masked'
  BY <1>1, <1>2, <1>3, <1>4, <1>5 DEF IInv, Masked
<1>11. RestoresFalse'
  BY <1>1, <1>2, <1>3 DEF RestoresFalse
<1>. QED
  BY <1>6, <1>7, <1>8, <1>9, <1>10, <1>11 DEF IInv

-----------------------------------------------------------------------------
(* IInv is an inductive invariant of the lock. *)
THEOREM Invariance == Spec => []IInv
<1>1. Init => IInv
  BY InitInv
<1>2. IInv /\ [Next]_vars => IInv'
  <2> SUFFICES ASSUME IInv, [Next]_vars PROVE IInv'
    OBVIOUS
  <2>1. CASE \E c \in Context : \/ \E l \in Lock : AcquireReadFlags(c, l)
                                \/ AcquireDisable(c)
                                \/ AcquireSet(c)
                                \/ \E l \in Lock : Release(c, l)
    BY <2>1, ReadFlagsInv, DisableInv, SetInv, ReleaseInv
  <2>2. CASE Interrupt
    <3>1. ~irq /\ iflag /\ EnterHandler /\ Executing = running
      BY <2>2 DEF Interrupt, Executing
    <3>2. held[running] = {} /\ pc[running] # "tas" /\ ~syscall[running]
      BY <3>1 DEF IInv, Masked
    <3>. QED
      BY <3>1, <3>2, EnterHandlerInv
  <2>3. CASE Yield
    <3>1. /\ ~irq /\ EnterHandler /\ Executing = running
          /\ pc[running] = "run" /\ held[running] = {}
      BY <2>3 DEF Yield, Executing
    <3>2. syscall[running] => ~iflag
      BY DEF IInv, Masked
    <3>. QED
      BY <3>1, <3>2, EnterHandlerInv
  <2>4. CASE \E t \in Task : HandlerReturn(t)
    BY <2>4, HandlerReturnInv
  <2>5. CASE \E t \in UserTask : SyscallEnter(t) \/ SyscallReturn(t)
    BY <2>5, SyscallInv
  <2>6. CASE UNCHANGED vars
    BY <2>6 DEF vars, IInv, TypeOK, OthersHoldNothing, OnlyRunningHolds,
                WantsInner, Masked, RestoresFalse, Executing
  <2>. QED
    BY <2>1, <2>2, <2>3, <2>4, <2>5, <2>6 DEF Next
<1>. QED
  BY <1>1, <1>2, PTL DEF Spec

(* The variables of every lock and context keep their types. *)
THEOREM TypeCorrect == Spec => []TypeOK
<1>1. IInv => TypeOK
  BY DEF IInv
<1>. QED
  BY <1>1, Invariance, PTL

(* "A non-running task will never hold a lock" (lock.cpp). *)
THEOREM OnlyRunningHoldsCorrect == Spec => []OnlyRunningHolds
<1>1. IInv => OnlyRunningHolds
  BY DEF IInv
<1>. QED
  BY <1>1, Invariance, PTL

(* No acquire() ever finds its lock set, so none spins with interrupts off. *)
THEOREM NeverSpinsCorrect == Spec => []NeverSpins
<1>1. IInv => NeverSpins
  <2> SUFFICES ASSUME IInv, pc[Executing] = "tas", locked[want[Executing]]
               PROVE  FALSE
    BY DEF NeverSpins
  <2>1. Executing \in Context
    BY ExecutingIsContext DEF IInv
  <2>2. want[Executing] \in Lock /\ \A m \in held[Executing] : m < want[Executing]
    BY <2>1 DEF IInv, WantsInner
  <2>3. want[Executing] \in held[Executing]
    BY <2>2 DEF IInv, OnlyRunningHolds
  <2>4. ~(want[Executing] < want[Executing])
    BY <2>2 DEF Lock
  <2>. QED
    BY <2>2, <2>3, <2>4
<1>. QED
  BY <1>1, Invariance, PTL

(* Interrupts stay off in critical sections, handlers and system calls.    *)
THEOREM OffWhileCriticalCorrect == Spec => []OffWhileCritical
<1>1. IInv => OffWhileCritical
  BY DEF IInv, Masked, OffWhileCritical
<1>. QED
  BY <1>1, Invariance, PTL
=============================================================================
