-------------------------- MODULE SchedulerProofs --------------------------
(***************************************************************************)
(* The safety of the scheduler, for any number of programs, any ring sizes *)
(* and any sleep length.                                                   *)
(***************************************************************************)
EXTENDS Scheduler, TLAPS

-----------------------------------------------------------------------------
(* What the operators of the run queue return and preserve. *)

(* The position of a queued task is where it stands. *)
LEMMA PositionIsPosition ==
  ASSUME NEW q, NEW t \in Elems(q)
  PROVE  Position(q, t) \in DOMAIN q /\ q[Position(q, t)] = t
BY DEF Elems, Position

(* next_task stays in the queue. *)
LEMMA NextTaskQueued ==
  ASSUME NEW S, NEW q \in Seq(S), NEW c \in Elems(q)
  PROVE  NextTask(q, c) \in Elems(q)
<1> DEFINE i == Position(q, c)
<1>1. i \in DOMAIN q /\ q[i] = c
  BY PositionIsPosition
<1>2. DOMAIN q = 1 .. Len(q) /\ Len(q) \in Nat
  OBVIOUS
<1>3. i + 1 \in DOMAIN q \/ ~(i < Len(q))
  BY <1>1, <1>2
<1>4. 1 \in DOMAIN q
  BY <1>1, <1>2
<1>. QED
  BY <1>3, <1>4 DEF NextTask, Elems

(* add_task adds exactly the task it is given. *)
LEMMA AddTaskAdds ==
  ASSUME NEW S, NEW q \in Seq(S), NEW t \in S
  PROVE  /\ AddTask(q, t) \in Seq(S)
         /\ AddTask(q, t) # <<>>
         /\ Elems(AddTask(q, t)) = Elems(q) \cup {t}
         /\ NoDup(q) /\ t \notin Elems(q) => NoDup(AddTask(q, t))
<1> DEFINE a == AddTask(q, t)
<1>1. a \in Seq(S) /\ Len(a) = Len(q) + 1 /\ a # <<>>
  BY DEF AddTask
<1>2. a[1] = t
  BY DEF AddTask
<1>3. \A j \in 2 .. Len(a) : a[j] = q[j - 1] /\ j - 1 \in DOMAIN q
  BY <1>1 DEF AddTask
<1>4. DOMAIN a = 1 .. Len(a) /\ DOMAIN q = 1 .. Len(q) /\ Len(q) \in Nat
  BY <1>1
<1>5. Elems(a) \subseteq Elems(q) \cup {t}
  <2>. SUFFICES ASSUME NEW j \in DOMAIN a PROVE a[j] \in Elems(q) \cup {t}
    BY DEF Elems
  <2>1. j = 1 \/ j \in 2 .. Len(a)
    BY <1>4
  <2>. QED
    BY <2>1, <1>2, <1>3 DEF Elems
<1>6. Elems(q) \cup {t} \subseteq Elems(a)
  <2>1. t \in Elems(a)
    BY <1>1, <1>2, <1>4 DEF Elems
  <2>2. ASSUME NEW j \in DOMAIN q PROVE q[j] \in Elems(a)
    <3>1. j + 1 \in 2 .. Len(a) /\ j + 1 \in DOMAIN a
      BY <1>1, <1>4
    <3>2. a[j + 1] = q[j]
      BY <3>1, <1>3, <1>4
    <3>. QED
      BY <3>1, <3>2 DEF Elems
  <2>. QED
    BY <2>1, <2>2 DEF Elems
<1>7. ASSUME NoDup(q), t \notin Elems(q) PROVE NoDup(a)
  <2>. SUFFICES ASSUME NEW j \in DOMAIN a, NEW k \in DOMAIN a, a[j] = a[k]
                PROVE  j = k
    BY DEF NoDup
  <2>1. j \in 1 .. Len(a) /\ k \in 1 .. Len(a) /\ Len(a) \in Nat
    BY <1>4, <1>1
  <2>2. \A m \in 2 .. Len(a) : a[m] # t
    BY <1>3, <1>7 DEF Elems
  <2>3. CASE j = 1
    BY <2>1, <2>2, <2>3, <1>2
  <2>4. CASE k = 1
    BY <2>1, <2>2, <2>4, <1>2
  <2>5. CASE j \in 2 .. Len(a) /\ k \in 2 .. Len(a)
    <3>1. q[j - 1] = q[k - 1] /\ j - 1 \in DOMAIN q /\ k - 1 \in DOMAIN q
      BY <2>5, <1>3
    <3>2. j - 1 = k - 1
      BY <3>1, <1>7 DEF NoDup
    <3>. QED
      BY <3>2, <2>1
  <2>. QED
    BY <2>1, <2>3, <2>4, <2>5
<1>. QED
  BY <1>1, <1>5, <1>6, <1>7

(* remove_current removes exactly the task of the cursor. *)
LEMMA WithoutRemoves ==
  ASSUME NEW S, NEW q \in Seq(S), NoDup(q), NEW c \in Elems(q)
  PROVE  /\ Without(q, c) \in Seq(S)
         /\ Len(Without(q, c)) = Len(q) - 1
         /\ Elems(Without(q, c)) = Elems(q) \ {c}
         /\ NoDup(Without(q, c))
<1> DEFINE i == Position(q, c)
           w == Without(q, c)
<1>1. i \in DOMAIN q /\ q[i] = c
  BY PositionIsPosition
<1>2. DOMAIN q = 1 .. Len(q) /\ Len(q) \in Nat /\ i \in 1 .. Len(q)
  BY <1>1
<1>3. w = [j \in 1 .. Len(q) - 1 |-> IF j < i THEN q[j] ELSE q[j + 1]]
  BY DEF Without
<1>4. \A j \in 1 .. Len(q) - 1 :
        /\ j \in DOMAIN q /\ j + 1 \in DOMAIN q
        /\ w[j] = IF j < i THEN q[j] ELSE q[j + 1]
        /\ w[j] \in S
  BY <1>2, <1>3
<1>5. w \in Seq(S) /\ Len(w) = Len(q) - 1 /\ DOMAIN w = 1 .. Len(q) - 1
  <2>1. Len(q) - 1 \in Nat
    BY <1>2
  <2>2. w \in [1 .. Len(q) - 1 -> S]
    BY <1>3, <1>4
  <2>. QED
    BY <2>1, <2>2
<1> HIDE DEF i, w
<1>6. ASSUME NEW j \in DOMAIN w PROVE w[j] \in Elems(q) \ {c}
  <2>0. j \in 1 .. Len(q) - 1 /\ j \in DOMAIN q /\ j + 1 \in DOMAIN q
    BY <1>4, <1>5
  <2>1. \E k \in DOMAIN q : w[j] = q[k] /\ k # i
    <3>1. CASE j < i
      <4>1. w[j] = q[j] /\ j # i
        BY <3>1, <2>0, <1>2, <1>4
      <4>. QED
        BY <4>1, <2>0
    <3>2. CASE ~(j < i)
      <4>1. w[j] = q[j + 1] /\ j + 1 # i
        BY <3>2, <2>0, <1>2, <1>4
      <4>. QED
        BY <4>1, <2>0
    <3>. QED
      BY <3>1, <3>2
  <2>. QED
    BY <2>1, <1>1 DEF NoDup, Elems
<1>7. ASSUME NEW k \in DOMAIN q, q[k] # c PROVE q[k] \in Elems(w)
  <2>1. k # i
    BY <1>7, <1>1
  <2>2. CASE k < i
    BY <2>2, <1>2, <1>4, <1>5 DEF Elems
  <2>3. CASE k > i
    <3>1. k - 1 \in DOMAIN w /\ ~(k - 1 < i) /\ (k - 1) + 1 = k
      BY <2>3, <1>2, <1>5
    <3>2. w[k - 1] = q[k]
      BY <3>1, <1>4, <1>5
    <3>. QED
      BY <3>1, <3>2 DEF Elems
  <2>. QED
    BY <2>1, <2>2, <2>3, <1>2
<1>8. ASSUME NEW j \in DOMAIN w, NEW k \in DOMAIN w, w[j] = w[k] PROVE j = k
  <2>1. j \in 1 .. Len(q) - 1 /\ k \in 1 .. Len(q) - 1
    BY <1>5
  <2>2. PICK x \in DOMAIN q : w[j] = q[x] /\ x = IF j < i THEN j ELSE j + 1
    BY <2>1, <1>4
  <2>3. PICK y \in DOMAIN q : w[k] = q[y] /\ y = IF k < i THEN k ELSE k + 1
    BY <2>1, <1>4
  <2>4. x = y
    BY <2>2, <2>3, <1>8 DEF NoDup
  <2>. QED
    BY <2>1, <2>2, <2>3, <2>4, <1>2
<1>9. Elems(w) = Elems(q) \ {c}
  BY <1>6, <1>7 DEF Elems
<1>10. NoDup(w)
  BY <1>8 DEF NoDup
<1>. QED
  BY <1>5, <1>9, <1>10 DEF w

(* After remove_current the cursor is on a task still queued. *)
LEMMA CursorAfterRemoveQueued ==
  ASSUME NEW S, NEW q \in Seq(S), NoDup(q), NEW c \in Elems(q), NEW none,
         Len(q) # 1
  PROVE  CursorAfterRemove(q, c, none) \in Elems(Without(q, c))
<1> DEFINE i == Position(q, c)
<1>1. i \in DOMAIN q /\ q[i] = c
  BY PositionIsPosition
<1>2. DOMAIN q = 1 .. Len(q) /\ Len(q) \in Nat /\ i \in 1 .. Len(q)
  BY <1>1
<1>3. NextTask(q, c) \in Elems(q)
  BY NextTaskQueued
<1>4. NextTask(q, c) # c
  <2> HIDE DEF i
  <2>1. NextTask(q, c) = IF i < Len(q) THEN q[i + 1] ELSE q[1]
    BY DEF NextTask, i
  <2>2. CASE i < Len(q)
    <3>1. i + 1 \in DOMAIN q /\ i + 1 # i
      BY <2>2, <1>2
    <3>. QED
      BY <3>1, <2>1, <2>2, <1>1 DEF NoDup
  <2>3. CASE ~(i < Len(q))
    <3>1. 1 \in DOMAIN q /\ 1 # i
      BY <2>3, <1>2
    <3>. QED
      BY <3>1, <2>1, <2>3, <1>1 DEF NoDup
  <2>. QED
    BY <2>2, <2>3
<1>. QED
  BY <1>3, <1>4, WithoutRemoves DEF CursorAfterRemove

-----------------------------------------------------------------------------
(* The run queue holds each task once, its cursor is on one of them, and   *)
(* a task that is current is the one at the cursor.  What boot and         *)
(* kernel_main are still going to add is not queued yet.                   *)
QueueInv ==
  /\ NoDup(queue)
  /\ queue # <<>> => cursor \in Elems(queue)
  /\ current_task \in Tasks => current_task \in Elems(queue)
                               /\ cursor = current_task
  /\ pc[Boot] # "hcf" => queue = <<>>
  /\ pc[KernelMain] \notin {"add_user", "hcf"} => Elems(queue) \subseteq {KernelMain}

(* The CPU executes current_task, which has been started; the boot thread  *)
(* runs only as long as idle, its stand-in, has not been started; contexts *)
(* are owned, also those of tasks not added yet.                           *)
SwitchInv ==
  /\ mode = "thread" /\ cpu # Boot => cpu = current_task /\ status[cpu] # "Ready"
  /\ mode = "thread" /\ cpu = Boot => current_task \notin Tasks
                                      /\ status[Idle] = "Ready"
  /\ pc[Boot] # "init" => current_task # None
  /\ pc[Boot] = "init" => cpu = Boot /\ mode = "thread"
  /\ ContextsOwned
  /\ \A t \in Tasks : t \notin Elems(queue) /\ pc[t] # "exited" => ctx[t] = t

(* A program that executes is Running; one that waits is queued (so wake_io *)
(* and wake_net reach it) and has nothing to read; one that is in          *)
(* sys_sleep is Sleeping or rested; packet_handler past block_on finds a   *)
(* packet in the cache.                                                    *)
UserInv ==
  /\ mode = "thread" /\ cpu \in User => status[cpu] = "Running"
  /\ \A u \in User : status[u] = "WaitingIo" => u \in Elems(queue)
  /\ NoLostUserWakeup
  /\ \A u \in User : pc[u] = "slept" => status[u] = "Sleeping" \/ wakeIn[u] = 0
  /\ pc[PacketHandler] = "consume" => cache > 0

IInv == TypeOK /\ QueueInv /\ SwitchInv /\ UserInv

-----------------------------------------------------------------------------
(* The tasks in a queue of tasks are tasks. *)
LEMMA ElemsAreTasks ==
  ASSUME TypeOK
  PROVE  Elems(queue) \subseteq Tasks
BY DEF TypeOK, Elems

(* The initial state satisfies the invariant. *)
LEMMA InitInv == Init => IInv
<1> SUFFICES ASSUME Init PROVE IInv
  OBVIOUS
<1> USE ThreadsDiffer, BoundsAreNat
<1>0. Elems(queue) = {}
  BY DEF Init, Elems
<1>1. TypeOK
  BY DEF Init, TypeOK, Tasks, Threads, Status, BootPC, KernelPC, PacketPC, UserPC
<1>2. QueueInv
  <2>1. /\ queue = <<>> /\ current_task = None /\ NoDup(queue)
        /\ pc[KernelMain] \notin {"add_user", "hcf"}
    BY DEF Init, NoDup, Threads, Tasks
  <2>. QED
    BY <1>0, <2>1 DEF QueueInv, Tasks
<1>3. SwitchInv
  BY <1>0 DEF Init, SwitchInv, ContextsOwned, Tasks, Threads
<1>4. UserInv
  BY DEF Init, UserInv, NoLostUserWakeup, Tasks, Threads
<1>. QED
  BY <1>1, <1>2, <1>3, <1>4 DEF IInv

(* Entering schedule() from the thread that executes, with its own status  *)
(* changed or not: afterwards every queued task has its own context, and   *)
(* current_task is idle or the task at the cursor.                         *)
LEMMA EnterScheduleKeeps ==
  ASSUME IInv, mode = "thread", pc[Boot] # "init",
         NEW st \in [Tasks \cup {Idle} -> Status],
         st[current_task] = "Ready" <=> status[current_task] = "Ready",
         EnterSchedule(queue, cursor, st)
  PROVE  /\ mode' = "pick" /\ timer' = FALSE /\ cpu' = cpu
         /\ queue' = queue /\ status' = st
         /\ cursor' \in Tasks \cup {None}
         /\ queue # <<>> => cursor' \in Elems(queue)
         /\ current_task' \in Tasks \cup {Idle}
         /\ current_task' \in Tasks => current_task' \in Elems(queue)
                                       /\ cursor' = current_task'
         /\ ctx' \in [Tasks \cup {Idle} -> Threads \cup {None}]
         /\ \A t \in Elems(queue) : ctx'[t] = t
         /\ ctx'[Idle] \in {Idle, None}
         /\ \A t \in Tasks \ Elems(queue) : ctx'[t] = ctx[t]
<1> USE ThreadsDiffer
<1>1. Elems(queue) \subseteq Tasks
  BY ElemsAreTasks DEF IInv
<1>2. queue # <<>> => NextTask(queue, cursor) \in Elems(queue)
  BY NextTaskQueued DEF IInv, QueueInv, TypeOK
<1>3. current_task \in Tasks \cup {Idle}
  BY DEF IInv, SwitchInv, TypeOK
<1>4. /\ ctx' \in [Tasks \cup {Idle} -> Threads \cup {None}]
      /\ \A t \in Elems(queue) : ctx'[t] = t
      /\ ctx'[Idle] \in {Idle, None}
      /\ \A t \in Tasks \ Elems(queue) : ctx'[t] = ctx[t]
  <2>1. CASE queue = <<>>
    BY <2>1 DEF EnterSchedule, IInv, SwitchInv, ContextsOwned, TypeOK, Elems
  <2>2. CASE queue # <<>> /\ cpu = Boot
    <3>1. current_task = Idle /\ st[current_task] = "Ready"
      BY <2>2, <1>3 DEF IInv, SwitchInv
    <3>2. ctx' = ctx
      BY <3>1 DEF EnterSchedule
    <3>. QED
      BY <3>2, <2>2, <1>1 DEF IInv, SwitchInv, ContextsOwned, TypeOK, Tasks
  <2>3. CASE queue # <<>> /\ cpu # Boot
    <3>1. cpu = current_task /\ st[current_task] # "Ready"
      BY <2>3 DEF IInv, SwitchInv
    <3>2. ctx' = [ctx EXCEPT ![current_task] = current_task]
      BY <3>1, <2>3 DEF EnterSchedule
    <3>3. current_task \in Tasks => current_task \in Elems(queue)
      BY DEF IInv, QueueInv
    <3>4. /\ ctx \in [Tasks \cup {Idle} -> Threads \cup {None}]
          /\ \A t \in Elems(queue) : t # current_task => ctx[t] = t
          /\ ctx[Idle] \in {Idle, None}
      BY <3>1 DEF IInv, SwitchInv, ContextsOwned, TypeOK
    <3>. QED
      BY <3>2, <3>3, <3>4, <1>1, <1>3 DEF Threads, Tasks
  <2>. QED
    BY <2>1, <2>2, <2>3
<1>. QED
  BY <1>1, <1>2, <1>4 DEF EnterSchedule, IInv, TypeOK

(* Steps that enter schedule(): given what the lemma above establishes, it *)
(* remains to say what the thread itself did to its location, its status   *)
(* and its deadline.                                                       *)
LEMMA EnterInv ==
  ASSUME IInv, mode = "thread", pc[Boot] # "init",
         NEW st \in [Tasks \cup {Idle} -> Status],
         st[current_task] = "Ready" <=> status[current_task] = "Ready",
         EnterSchedule(queue, cursor, st),
         TypeOK',
         pc'[Boot] = pc[Boot],
         pc'[KernelMain] \in {"add_user", "hcf"} <=>
           pc[KernelMain] \in {"add_user", "hcf"},
         \A t \in Tasks : pc'[t] = "exited" <=> pc[t] = "exited",
         pc'[PacketHandler] = "consume" => cache' > 0,
         \A u \in User :
           /\ st[u] = "WaitingIo" => u \in Elems(queue)
           /\ st[u] = "WaitingIo" => /\ pc'[u] \in {"tty", "recv", "futex"}
                                     /\ pc'[u] = "tty" => events'[u] = 0
                                     /\ pc'[u] = "recv" => packets'[u] = 0
           /\ pc'[u] = "slept" => st[u] = "Sleeping" \/ wakeIn'[u] = 0
  PROVE  IInv'
<1> USE ThreadsDiffer
<1>1. /\ mode' = "pick" /\ cpu' = cpu
      /\ queue' = queue /\ status' = st
      /\ queue # <<>> => cursor' \in Elems(queue)
      /\ current_task' \in Tasks \cup {Idle}
      /\ current_task' \in Tasks => current_task' \in Elems(queue)
                                    /\ cursor' = current_task'
      /\ \A t \in Elems(queue) : ctx'[t] = t
      /\ ctx'[Idle] \in {Idle, None}
      /\ \A t \in Tasks \ Elems(queue) : ctx'[t] = ctx[t]
  BY EnterScheduleKeeps
<1>2. Elems(queue') = Elems(queue) /\ Elems(queue)' = Elems(queue)
  BY <1>1 DEF Elems
<1>3. QueueInv'
  BY <1>1, <1>2 DEF IInv, QueueInv, NoDup
<1>4. SwitchInv'
  BY <1>1, <1>2 DEF IInv, SwitchInv, ContextsOwned
<1>5. UserInv'
  BY <1>1, <1>2 DEF UserInv, NoLostUserWakeup
<1>. QED
  BY <1>3, <1>4, <1>5 DEF IInv

(* The thread on the CPU, when it is a task. *)
LEMMA ExecutingTask ==
  ASSUME IInv, NEW t \in Tasks, mode = "thread", cpu = t
  PROVE  /\ current_task = t /\ status[t] # "Ready"
         /\ cursor = t /\ t \in Elems(queue) /\ queue # <<>>
         /\ pc[Boot] = "hcf"
<1> USE ThreadsDiffer
<1>1. current_task = t /\ status[t] # "Ready" /\ cursor = t /\ t \in Elems(queue)
  BY DEF IInv, SwitchInv, QueueInv, Tasks
<1>2. queue # <<>>
  BY <1>1 DEF Elems
<1>. QED
  BY <1>1, <1>2 DEF IInv, QueueInv

(* Steps that add a task to the queue. *)
LEMMA EnqueueInv ==
  ASSUME IInv, NEW t \in Tasks, NEW thread \in {Boot, KernelMain}, NEW at,
         Enqueue(t, thread, at),
         TypeOK',
         mode = "thread", cpu = thread,
         t \notin Elems(queue), pc[t] # "exited",
         pc[Boot] # "init", pc'[Boot] = "hcf",
         pc'[KernelMain] \in {"add_user", "hcf"} \/ Elems(queue) \cup {t} = {KernelMain}
  PROVE  IInv'
<1> USE ThreadsDiffer
<1>1. /\ queue' = AddTask(queue, t)
      /\ cursor' = CursorAfterAdd(queue, cursor, t)
      /\ \A x \in Threads : x # thread => pc'[x] = pc[x]
      /\ UNCHANGED <<current_task, status, wakeIn, ctx, cpu, mode, timer,
                     kernelIF, cache, events, packets>>
  BY DEF Enqueue, IInv, TypeOK
<1>2. /\ NoDup(queue') /\ queue' # <<>>
      /\ Elems(queue') = Elems(queue) \cup {t}
  <2>1. queue \in Seq(Tasks) /\ NoDup(queue)
    BY DEF IInv, TypeOK, QueueInv
  <2>2. /\ AddTask(queue, t) # <<>>
        /\ Elems(AddTask(queue, t)) = Elems(queue) \cup {t}
        /\ NoDup(AddTask(queue, t))
    BY <2>1, AddTaskAdds
  <2>. QED
    BY <2>2, <1>1
<1>3. Elems(queue)' = Elems(queue) \cup {t}
  BY <1>2 DEF Elems
<1>4. cursor' \in Elems(queue') /\ (queue # <<>> => cursor' = cursor)
  BY <1>1, <1>2 DEF IInv, QueueInv, CursorAfterAdd
<1>5. current_task \in Tasks => queue # <<>>
  BY DEF IInv, QueueInv, Elems
<1>6. QueueInv'
  BY <1>1, <1>2, <1>3, <1>4, <1>5 DEF IInv, QueueInv, NoDup
<1>7. SwitchInv'
  <2>1. ctx[t] = t
    BY DEF IInv, SwitchInv
  <2>2. \A x \in Tasks : x # KernelMain => pc'[x] = pc[x]
    BY <1>1 DEF Tasks, Threads
  <2>3. pc[KernelMain] # "exited"
    BY DEF IInv, TypeOK, KernelPC
  <2>. QED
    BY <1>1, <1>3, <2>1, <2>2, <2>3 DEF IInv, SwitchInv, ContextsOwned
<1>8. UserInv'
  <2>1. \A u \in User \cup {PacketHandler} : pc'[u] = pc[u]
    BY <1>1 DEF Tasks, Threads
  <2>. QED
    BY <1>1, <1>3, <2>1 DEF IInv, UserInv, NoLostUserWakeup
<1>. QED
  BY <1>6, <1>7, <1>8 DEF IInv

(* The loop of schedule(). *)
LEMMA PickNextInv == IInv /\ PickNext => IInv'
<1> SUFFICES ASSUME IInv, PickNext PROVE IInv'
  OBVIOUS
<1> USE ThreadsDiffer
<1>1. current_task \in Tasks /\ current_task \in Elems(queue) /\ cursor = current_task
  BY DEF IInv, TypeOK, QueueInv, SwitchInv, PickNext
<1>2. NextTask(queue, cursor) \in Elems(queue)
  BY <1>1, NextTaskQueued DEF IInv, TypeOK
<1>3. Elems(queue) \subseteq Tasks
  BY ElemsAreTasks DEF IInv
<1>4. Elems(queue)' = Elems(queue)
  BY DEF PickNext, Elems
<1>5. TypeOK'
  BY <1>2, <1>3 DEF IInv, TypeOK, PickNext
<1>6. QueueInv'
  BY <1>2, <1>3, <1>4 DEF IInv, QueueInv, PickNext, NoDup
<1>7. SwitchInv'
  BY <1>2, <1>3, <1>4 DEF IInv, SwitchInv, ContextsOwned, PickNext
<1>8. UserInv'
  BY <1>4 DEF IInv, UserInv, NoLostUserWakeup, PickNext
<1>. QED
  BY <1>5, <1>6, <1>7, <1>8 DEF IInv

LEMMA DispatchInv == IInv /\ Dispatch => IInv'
<1> SUFFICES ASSUME IInv, Dispatch PROVE IInv'
  OBVIOUS
<1> USE ThreadsDiffer
<1>1. current_task \in Tasks \cup {Idle} /\ pc[Boot] # "init"
  BY DEF IInv, TypeOK, SwitchInv, Dispatch
<1>2. current_task \in Tasks => current_task \in Elems(queue)
  BY DEF IInv, QueueInv
<1>3. cpu' = current_task
  BY <1>1, <1>2 DEF IInv, SwitchInv, ContextsOwned, Dispatch
<1>4. Elems(queue)' = Elems(queue)
  BY DEF Dispatch, Elems
<1>5. Elems(queue) \subseteq Tasks
  BY ElemsAreTasks DEF IInv
<1>6. TypeOK'
  BY <1>1, <1>3 DEF IInv, TypeOK, Dispatch, Threads, Status
<1>7. QueueInv'
  BY <1>4 DEF IInv, QueueInv, Dispatch, NoDup
<1>8. SwitchInv'
  <2>1. status'[current_task] = "Running"
    BY <1>1 DEF IInv, TypeOK, Dispatch
  <2>2. /\ \A t \in Elems(queue) : t # current_task => ctx'[t] = t
        /\ ctx'[Idle] \in {Idle, None}
        /\ \A t \in Tasks : t # current_task => ctx'[t] = ctx[t]
    BY <1>1, <1>5 DEF IInv, SwitchInv, ContextsOwned, TypeOK, Dispatch
  <2>3. current_task # Boot
    BY <1>1
  <2>. QED
    BY <1>1, <1>2, <1>3, <1>4, <2>1, <2>2, <2>3
       DEF IInv, SwitchInv, ContextsOwned, Dispatch
<1>9. UserInv'
  <2>1. /\ \A t \in Tasks : t # current_task => status'[t] = status[t]
        /\ status'[current_task] = "Running"
    BY <1>1 DEF IInv, TypeOK, Dispatch
  <2>2. ASSUME NEW u \in User, pc[u] = "slept", u = current_task
        PROVE  wakeIn[u] = 0
    <3>1. status[u] # "Sleeping" \/ ~(wakeIn[u] > 0)
      BY <2>2 DEF Dispatch, NotRunnable, Tasks
    <3>2. wakeIn[u] \in Nat
      BY BoundsAreNat DEF IInv, TypeOK, Tasks
    <3>. QED
      BY <2>2, <3>1, <3>2 DEF IInv, UserInv
  <2>. QED
    BY <1>3, <1>4, <2>1, <2>2
       DEF IInv, UserInv, NoLostUserWakeup, Dispatch, Tasks
<1>. QED
  BY <1>6, <1>7, <1>8, <1>9 DEF IInv

(* Interrupts and the passing of time. *)
LEMMA LockRaceType ==
  ASSUME TypeOK, NEW at, LockRace(at)
  PROVE  kernelIF' \in BOOLEAN
<1>1. kernelIF \in BOOLEAN
  BY DEF TypeOK
<1>2. kernelIF' = kernelIF \/ kernelIF' = FALSE
  BY DEF LockRace
<1>. QED
  BY <1>1, <1>2

LEMMA TimerTickInv == IInv /\ TimerTick => IInv'
<1> SUFFICES ASSUME IInv, TimerTick PROVE IInv'
  OBVIOUS
<1> USE ThreadsDiffer
<1>1. /\ mode = "thread" /\ pc[Boot] # "init"
      /\ status \in [Tasks \cup {Idle} -> Status]
      /\ EnterSchedule(queue, cursor, status)
  BY DEF TimerTick, Interruptible, IInv, TypeOK
<1>2. TypeOK'
  <2>1. kernelIF' \in BOOLEAN
    BY LockRaceType DEF TimerTick, IInv
  <2>. QED
    BY <1>1, <2>1, EnterScheduleKeeps DEF IInv, TypeOK, TimerTick
<1>. QED
  BY <1>1, <1>2, EnterInv DEF TimerTick, IInv, UserInv, NoLostUserWakeup

LEMMA ElapseInv == IInv /\ Elapse => IInv'
<1> SUFFICES ASSUME IInv, Elapse PROVE IInv'
  OBVIOUS
<1> USE ThreadsDiffer, BoundsAreNat
<1>1. Elems(queue)' = Elems(queue)
  BY DEF Elapse, Elems
<1>2. TypeOK'
  <2>1. wakeIn' \in [Tasks -> 0 .. MaxSleep]
    BY DEF IInv, TypeOK, Elapse
  <2>. QED
    BY <2>1 DEF IInv, TypeOK, Elapse
<1>3. QueueInv'
  BY <1>1 DEF IInv, QueueInv, Elapse, NoDup
<1>4. SwitchInv'
  BY <1>1 DEF IInv, SwitchInv, ContextsOwned, Elapse
<1>5. UserInv'
  BY <1>1 DEF IInv, UserInv, NoLostUserWakeup, Elapse, TypeOK, Tasks
<1>. QED
  BY <1>2, <1>3, <1>4, <1>5 DEF IInv

(* wake_net touches queued tasks that wait, and makes them Running. *)
LEMMA WokenWakes ==
  ASSUME TypeOK
  PROVE  /\ Woken(status) \in [Tasks \cup {Idle} -> Status]
         /\ \A t \in Tasks \cup {Idle} :
              /\ t \in Elems(queue) => Woken(status)[t] # "WaitingIo"
              /\ status[t] # "WaitingIo" => Woken(status)[t] = status[t]
              /\ Woken(status)[t] \in {status[t], "Running"}
         /\ Woken(status)[Idle] = status[Idle]
<1>1. Elems(queue) \subseteq Tasks
  BY ElemsAreTasks
<1>. QED
  BY <1>1, ThreadsDiffer DEF TypeOK, Woken, Status

LEMMA KeyboardInv == IInv /\ KeyboardInterrupt => IInv'
<1> SUFFICES ASSUME IInv, KeyboardInterrupt PROVE IInv'
  OBVIOUS
<1> USE ThreadsDiffer, BoundsAreNat
<1>1. Elems(queue)' = Elems(queue)
  BY DEF KeyboardInterrupt, Elems
<1>2. /\ status' \in [Tasks \cup {Idle} -> Status]
      /\ \A t \in Tasks \cup {Idle} :
           /\ t \in Elems(queue) => status'[t] # "WaitingIo"
           /\ status[t] # "WaitingIo" => status'[t] = status[t]
           /\ status'[t] \in {status[t], "Running"}
      /\ status'[Idle] = status[Idle]
  BY WokenWakes DEF KeyboardInterrupt, IInv
<1>3. TypeOK'
  <2>1. events' \in [User -> 0 .. EventSlots]
    BY DEF KeyboardInterrupt, RingWrite, IInv, TypeOK
  <2>. QED
    BY <1>2, <2>1 DEF KeyboardInterrupt, IInv, TypeOK
<1>4. QueueInv'
  BY <1>1 DEF IInv, QueueInv, KeyboardInterrupt, NoDup
<1>5. SwitchInv'
  BY <1>1, <1>2 DEF IInv, SwitchInv, ContextsOwned, KeyboardInterrupt, TypeOK
<1>6. UserInv'
  BY <1>1, <1>2 DEF IInv, UserInv, NoLostUserWakeup, KeyboardInterrupt, Tasks
<1>. QED
  BY <1>3, <1>4, <1>5, <1>6 DEF IInv

LEMMA NicInv == IInv /\ NicInterrupt => IInv'
<1> SUFFICES ASSUME IInv, NicInterrupt PROVE IInv'
  OBVIOUS
<1> USE ThreadsDiffer, BoundsAreNat
<1>1. Elems(queue)' = Elems(queue)
  BY DEF NicInterrupt, Elems
<1>2. /\ status' \in [Tasks \cup {Idle} -> Status]
      /\ \A t \in Tasks \cup {Idle} :
           /\ t \in Elems(queue) => status'[t] # "WaitingIo"
           /\ status[t] # "WaitingIo" => status'[t] = status[t]
           /\ status'[t] \in {status[t], "Running"}
      /\ status'[Idle] = status[Idle]
  BY WokenWakes DEF NicInterrupt, IInv
<1>3. cache' \in 0 .. CacheSlots /\ cache' > 0
  BY DEF NicInterrupt, RingWrite, IInv, TypeOK
<1>4. TypeOK'
  <2>1. kernelIF' \in BOOLEAN
    BY LockRaceType DEF NicInterrupt, IInv
  <2>. QED
    BY <1>2, <1>3, <2>1 DEF NicInterrupt, IInv, TypeOK
<1>5. QueueInv'
  BY <1>1 DEF IInv, QueueInv, NicInterrupt, NoDup
<1>6. SwitchInv'
  BY <1>1, <1>2 DEF IInv, SwitchInv, ContextsOwned, NicInterrupt, TypeOK
<1>7. UserInv'
  BY <1>1, <1>2, <1>3 DEF IInv, UserInv, NoLostUserWakeup, NicInterrupt, Tasks
<1>. QED
  BY <1>4, <1>5, <1>6, <1>7 DEF IInv

(* A thread moves to another of its locations. *)
PCTyped ==
  /\ pc \in [Threads -> BootPC \cup KernelPC \cup PacketPC \cup UserPC
                         \cup {"hlt"}]
  /\ pc[Boot] \in BootPC /\ pc[KernelMain] \in KernelPC
  /\ pc[PacketHandler] \in PacketPC /\ \A u \in User : pc[u] \in UserPC

LEMMA PCMoves ==
  ASSUME TypeOK, NEW t \in Tasks, NEW at, pc' = [pc EXCEPT ![t] = at],
         t = KernelMain => at \in KernelPC,
         t = PacketHandler => at \in PacketPC,
         t \in User => at \in UserPC
  PROVE  PCTyped' /\ pc'[t] = at /\ \A x \in Threads : x # t => pc'[x] = pc[x]
<1> USE ThreadsDiffer
<1>1. /\ at \in KernelPC \cup PacketPC \cup UserPC /\ t \in Threads
      /\ User \subseteq Threads /\ {Boot, KernelMain, PacketHandler} \subseteq Threads
      /\ t # Boot
  BY DEF Tasks, Threads
<1>2. pc'[t] = at /\ \A x \in Threads : x # t => pc'[x] = pc[x]
  BY <1>1 DEF TypeOK
<1>3. pc' \in [Threads -> BootPC \cup KernelPC \cup PacketPC \cup UserPC
                         \cup {"hlt"}]
  BY <1>1 DEF TypeOK
<1>4. /\ pc'[Boot] \in BootPC /\ pc'[KernelMain] \in KernelPC
      /\ pc'[PacketHandler] \in PacketPC /\ \A u \in User : pc'[u] \in UserPC
  BY <1>1, <1>2 DEF TypeOK
<1>. QED
  BY <1>2, <1>3, <1>4 DEF PCTyped

(* Boot. *)
LEMMA BootInv == IInv /\ BootStep => IInv'
<1> SUFFICES ASSUME IInv, BootStep PROVE IInv'
  OBVIOUS
<1> USE ThreadsDiffer
<1>1. CASE BootInit
  <2>1. Elems(queue)' = Elems(queue)
    BY <1>1 DEF BootInit, Elems
  <2>2. TypeOK' /\ \A t \in Tasks : pc'[t] = pc[t]
    BY <1>1 DEF BootInit, Runs, IInv, TypeOK, Tasks, Threads, BootPC
  <2>3. pc'[Boot] = "add" /\ pc[Boot] = "init"
    BY <1>1 DEF BootInit, Runs, IInv, TypeOK, Threads
  <2>4. QueueInv'
    BY <1>1, <2>1, <2>2, <2>3 DEF IInv, QueueInv, BootInit, NoDup, Tasks
  <2>5. SwitchInv'
    BY <1>1, <2>1, <2>2, <2>3 DEF IInv, SwitchInv, ContextsOwned, BootInit, Runs
  <2>6. UserInv'
    BY <1>1, <2>1, <2>2 DEF IInv, UserInv, NoLostUserWakeup, BootInit, Tasks
  <2>. QED
    BY <2>2, <2>4, <2>5, <2>6 DEF IInv
<1>2. CASE BootAdd
  <2>1. /\ Enqueue(KernelMain, Boot, "hcf") /\ mode = "thread" /\ cpu = Boot
        /\ pc[Boot] = "add" /\ queue = <<>>
    BY <1>2 DEF BootAdd, Runs, IInv, QueueInv
  <2>2. /\ pc' = [pc EXCEPT ![Boot] = "hcf"]
        /\ pc[KernelMain] # "exited"
        /\ Elems(queue) = {} /\ KernelMain \in Tasks
    BY <2>1 DEF Enqueue, IInv, TypeOK, KernelPC, Elems, Tasks
  <2>3. TypeOK'
    <3>1. queue' \in Seq(Tasks) /\ cursor' \in Tasks \cup {None}
      BY <2>1, <2>2, AddTaskAdds DEF Enqueue, IInv, TypeOK, CursorAfterAdd
    <3>. QED
      BY <2>1, <2>2, <3>1 DEF Enqueue, IInv, TypeOK, Threads, BootPC, Tasks
  <2>4. pc'[Boot] = "hcf"
    BY <2>2 DEF IInv, TypeOK, Threads
  <2>. QED
    BY <2>1, <2>2, <2>3, <2>4, EnqueueInv
<1>. QED
  BY <1>1, <1>2 DEF BootStep

(* A step of a thread that changes no more than its own status, its own    *)
(* deadline and its location.                                              *)
LEMMA OwnStepInv ==
  ASSUME IInv, NEW t \in {KernelMain, PacketHandler}, mode = "thread", cpu = t,
         TypeOK',
         UNCHANGED <<queue, cursor, current_task, ctx, cpu, mode, kernelIF,
                     events, packets>>,
         status'[t] # "Ready",
         \A x \in Tasks \cup {Idle} : x # t => status'[x] = status[x],
         \A x \in Tasks : x # t => wakeIn'[x] = wakeIn[x],
         \A x \in Threads : x # t => pc'[x] = pc[x],
         pc'[KernelMain] \in {"add_user", "hcf"} <=>
           pc[KernelMain] \in {"add_user", "hcf"},
         pc'[PacketHandler] = "consume" => cache' > 0
  PROVE  IInv'
<1> USE ThreadsDiffer
<1>1. Elems(queue)' = Elems(queue)
  BY DEF Elems
<1>2. /\ t \in Tasks /\ t \notin User /\ t # Boot
      /\ pc'[t] # "exited" /\ pc[t] # "exited"
  BY DEF Tasks, IInv, TypeOK, KernelPC, PacketPC
<1>3. pc[Boot] = "hcf" /\ pc'[Boot] = "hcf"
  BY <1>2, ExecutingTask DEF Threads
<1>4. QueueInv'
  BY <1>1, <1>3 DEF IInv, QueueInv, NoDup
<1>5. SwitchInv'
  <2>1. \A x \in Tasks : pc'[x] = "exited" <=> pc[x] = "exited"
    BY <1>2 DEF Threads
  <2>. QED
    BY <1>1, <1>2, <1>3, <2>1 DEF IInv, SwitchInv, ContextsOwned
<1>6. UserInv'
  <2>1. \A u \in User : pc'[u] = pc[u] /\ status'[u] = status[u]
                        /\ wakeIn'[u] = wakeIn[u]
    BY <1>2 DEF Tasks, Threads
  <2>. QED
    BY <1>1, <1>2, <2>1 DEF IInv, UserInv, NoLostUserWakeup
<1>. QED
  BY <1>4, <1>5, <1>6 DEF IInv

(* kernel_main. *)
LEMMA KernelMainInv == IInv /\ KernelMainStep => IInv'
<1> SUFFICES ASSUME IInv, KernelMainStep PROVE IInv'
  OBVIOUS
<1> USE ThreadsDiffer, BoundsAreNat
<1>1. KernelMain \in Tasks /\ mode = "thread" /\ cpu = KernelMain
  BY DEF KernelMainStep, KernelSleepStatus, KernelSleepDeadline,
         KernelSleepYield, KernelAddPacketHandler, KernelAddUser, Runs, Tasks
<1>2. /\ current_task = KernelMain /\ status[KernelMain] # "Ready"
      /\ pc[Boot] = "hcf"
  BY <1>1, ExecutingTask
<1>3. pc[PacketHandler] = "consume" => cache > 0
  BY DEF IInv, UserInv
<1>4. CASE KernelSleepStatus
  <2>1. /\ status' = [status EXCEPT ![KernelMain] = "Sleeping"]
        /\ pc' = [pc EXCEPT ![KernelMain] = "sleep_deadline"]
        /\ pc[KernelMain] = "sleep_status"
    BY <1>2, <1>4 DEF KernelSleepStatus, Runs
  <2>2. TypeOK'
    <3>1. PCTyped'
      BY <1>1, <2>1, PCMoves DEF IInv, KernelPC
    <3>2. status' \in [Tasks \cup {Idle} -> Status]
      BY <2>1 DEF IInv, TypeOK, Status
    <3>. QED
      BY <1>4, <3>1, <3>2 DEF KernelSleepStatus, IInv, TypeOK, PCTyped
  <2>. QED
    BY <1>1, <1>3, <1>4, <2>1, <2>2, OwnStepInv
       DEF KernelSleepStatus, IInv, TypeOK, Threads, Tasks
<1>5. CASE KernelSleepDeadline
  <2>1. /\ wakeIn' = [wakeIn EXCEPT ![KernelMain] = MaxSleep]
        /\ pc' = [pc EXCEPT ![KernelMain] = "sleep_yield"]
        /\ pc[KernelMain] = "sleep_deadline"
    BY <1>2, <1>5 DEF KernelSleepDeadline, Runs
  <2>2. TypeOK'
    <3>1. PCTyped'
      BY <1>1, <2>1, PCMoves DEF IInv, KernelPC
    <3>2. wakeIn' \in [Tasks -> 0 .. MaxSleep]
      <4>1. MaxSleep \in 0 .. MaxSleep
        OBVIOUS
      <4>2. wakeIn \in [Tasks -> 0 .. MaxSleep]
        BY DEF IInv, TypeOK
      <4>. QED
        BY <2>1, <4>1, <4>2
    <3>. QED
      BY <1>5, <3>1, <3>2 DEF KernelSleepDeadline, IInv, TypeOK, PCTyped
  <2>. QED
    BY <1>1, <1>2, <1>3, <1>5, <2>1, <2>2, OwnStepInv
       DEF KernelSleepDeadline, IInv, TypeOK, Threads, Tasks
<1>6. CASE KernelSleepYield
  <2>1. /\ EnterSchedule(queue, cursor, status)
        /\ pc' = [pc EXCEPT ![KernelMain] = "slept"]
        /\ pc[KernelMain] = "sleep_yield"
        /\ status \in [Tasks \cup {Idle} -> Status]
    BY <1>6 DEF KernelSleepYield, Runs, IInv, TypeOK
  <2>2. TypeOK'
    <3>1. pc[Boot] # "init"
      BY <1>2
    <3>2. /\ mode' = "pick" /\ timer' = FALSE /\ cpu' = cpu
          /\ queue' = queue /\ status' = status
          /\ cursor' \in Tasks \cup {None}
          /\ current_task' \in Tasks \cup {Idle}
          /\ ctx' \in [Tasks \cup {Idle} -> Threads \cup {None}]
      BY <1>1, <2>1, <3>1, EnterScheduleKeeps
    <3>. QED
      BY <1>6, <2>1, <3>2
         DEF KernelSleepYield, IInv, TypeOK, KernelPC, Threads, Tasks
  <2>3. \A x \in Threads : x # KernelMain => pc'[x] = pc[x]
    BY <2>1 DEF IInv, TypeOK
  <2>4. pc'[KernelMain] = "slept"
    BY <2>1, <1>1 DEF IInv, TypeOK, Threads
  <2>5. \A u \in User : pc'[u] = pc[u]
    BY <2>3 DEF Threads, Tasks
  <2>6. \A t \in Tasks : pc'[t] = "exited" <=> pc[t] = "exited"
    BY <2>1, <2>3, <2>4 DEF Threads
  <2>7. pc'[Boot] = pc[Boot] /\ pc'[PacketHandler] = pc[PacketHandler]
    BY <2>3 DEF Threads, Tasks
  <2>8. UNCHANGED <<wakeIn, kernelIF, cache, events, packets>>
    BY <1>6 DEF KernelSleepYield
  <2>9. \A u \in User :
          /\ status[u] = "WaitingIo" => u \in Elems(queue)
          /\ status[u] = "WaitingIo" => /\ pc'[u] \in {"tty", "recv", "futex"}
                                        /\ pc'[u] = "tty" => events'[u] = 0
                                        /\ pc'[u] = "recv" => packets'[u] = 0
          /\ pc'[u] = "slept" => status[u] = "Sleeping" \/ wakeIn'[u] = 0
    BY <2>5, <2>8 DEF IInv, UserInv, NoLostUserWakeup
  <2>. QED
    BY <1>1, <1>2, <1>3, <2>1, <2>2, <2>4, <2>6, <2>7, <2>8, <2>9, EnterInv
<1>7. CASE KernelAddPacketHandler
  <2>1. /\ Enqueue(PacketHandler, KernelMain, "add_user")
        /\ pc[KernelMain] = "slept"
        /\ pc' = [pc EXCEPT ![KernelMain] = "add_user"]
    BY <1>7 DEF KernelAddPacketHandler, Runs, Enqueue
  <2>2. /\ PacketHandler \in Tasks /\ PacketHandler \notin Elems(queue)
        /\ pc[PacketHandler] # "exited"
    BY <2>1 DEF IInv, QueueInv, TypeOK, PacketPC, Tasks
  <2>3. queue' \in Seq(Tasks) /\ cursor' \in Tasks \cup {None}
    BY <2>1, <2>2, AddTaskAdds DEF Enqueue, IInv, TypeOK, CursorAfterAdd
  <2>4. TypeOK'
    BY <2>1, <2>3 DEF Enqueue, IInv, TypeOK, Threads, KernelPC, Tasks
  <2>5. pc'[Boot] = "hcf" /\ pc'[KernelMain] = "add_user"
    BY <2>1, <1>2 DEF IInv, TypeOK, Threads, Tasks
  <2>. QED
    BY <1>1, <1>2, <2>1, <2>2, <2>4, <2>5, EnqueueInv
<1>8. CASE KernelAddUser
  <2>1. PICK u \in User :
          /\ u \notin Elems(queue) /\ pc[u] # "exited"
          /\ \E at \in {"hcf", "add_user"} : Enqueue(u, KernelMain, at)
    BY <1>8 DEF KernelAddUser
  <2>2. PICK at \in {"hcf", "add_user"} : Enqueue(u, KernelMain, at)
    BY <2>1
  <2>3. u \in Tasks
    BY DEF Tasks
  <2>4. queue' \in Seq(Tasks) /\ cursor' \in Tasks \cup {None}
    BY <2>2, <2>3, AddTaskAdds DEF Enqueue, IInv, TypeOK, CursorAfterAdd
  <2>5. TypeOK'
    BY <2>2, <2>4 DEF Enqueue, IInv, TypeOK, Threads, KernelPC, Tasks
  <2>6. pc'[Boot] = "hcf" /\ pc'[KernelMain] \in {"add_user", "hcf"}
    BY <2>2, <1>2 DEF Enqueue, IInv, TypeOK, Threads, Tasks
  <2>. QED
    BY <1>1, <1>2, <2>1, <2>2, <2>3, <2>5, <2>6, EnqueueInv
<1>. QED
  BY <1>4, <1>5, <1>6, <1>7, <1>8 DEF KernelMainStep

(* packet_handler. *)
LEMMA PacketInv == IInv /\ PacketStep => IInv'
<1> SUFFICES ASSUME IInv, PacketStep PROVE IInv'
  OBVIOUS
<1> USE ThreadsDiffer, BoundsAreNat
<1>1. PacketHandler \in Tasks /\ mode = "thread" /\ cpu = PacketHandler
  BY DEF PacketStep, PacketCheck, PacketAwait, PacketYield, PacketConsume, Runs,
         Tasks
<1>2. /\ current_task = PacketHandler /\ status[PacketHandler] # "Ready"
      /\ pc[Boot] = "hcf"
  BY <1>1, ExecutingTask
<1>3. /\ TypeOK /\ PacketHandler \notin User /\ PacketHandler # KernelMain
      /\ KernelMain \in Threads /\ Boot \in Threads /\ User \subseteq Threads
  BY DEF IInv, Threads, Tasks
<1>4. ASSUME NEW at \in PacketPC, pc' = [pc EXCEPT ![PacketHandler] = at]
      PROVE  /\ PCTyped' /\ pc'[PacketHandler] = at
             /\ \A x \in Threads : x # PacketHandler => pc'[x] = pc[x]
  BY <1>1, <1>3, <1>4, PCMoves
<1>5. CASE PacketCheck
  <2>1. PICK at \in PacketPC : /\ pc' = [pc EXCEPT ![PacketHandler] = at]
                               /\ at = "consume" => cache > 0
    BY <1>5 DEF PacketCheck, PacketPC
  <2>2. /\ PCTyped' /\ pc'[PacketHandler] = at
        /\ \A x \in Threads : x # PacketHandler => pc'[x] = pc[x]
    BY <1>4, <2>1
  <2>3. TypeOK'
    BY <1>3, <1>5, <2>2 DEF PacketCheck, TypeOK, PCTyped
  <2>. QED
    BY <1>1, <1>2, <1>3, <1>5, <2>1, <2>2, <2>3, OwnStepInv DEF PacketCheck
<1>6. CASE PacketAwait
  <2>1. /\ pc' = [pc EXCEPT ![PacketHandler] = "yield"]
        /\ status' = [status EXCEPT ![PacketHandler] = "WaitingIo"]
    BY <1>2, <1>6 DEF PacketAwait
  <2>2. /\ PCTyped' /\ pc'[PacketHandler] = "yield"
        /\ \A x \in Threads : x # PacketHandler => pc'[x] = pc[x]
    BY <1>4, <2>1 DEF PacketPC
  <2>3. /\ status' \in [Tasks \cup {Idle} -> Status]
        /\ status'[PacketHandler] = "WaitingIo"
        /\ \A x \in Tasks \cup {Idle} : x # PacketHandler => status'[x] = status[x]
    BY <1>1, <1>3, <2>1 DEF TypeOK, Status
  <2>4. TypeOK'
    BY <1>3, <1>6, <2>2, <2>3 DEF PacketAwait, TypeOK, PCTyped
  <2>. QED
    BY <1>1, <1>3, <1>6, <2>2, <2>3, <2>4, OwnStepInv DEF PacketAwait
<1>7. CASE PacketYield
  <2>1. /\ EnterSchedule(queue, cursor, status)
        /\ pc' = [pc EXCEPT ![PacketHandler] = "check"]
        /\ pc[PacketHandler] = "yield"
        /\ UNCHANGED <<wakeIn, kernelIF, cache, events, packets>>
        /\ status \in [Tasks \cup {Idle} -> Status]
    BY <1>3, <1>7 DEF PacketYield, Runs, TypeOK
  <2>2. /\ PCTyped' /\ pc'[PacketHandler] = "check"
        /\ \A x \in Threads : x # PacketHandler => pc'[x] = pc[x]
    BY <1>4, <2>1 DEF PacketPC
  <2>3. TypeOK'
    BY <1>1, <1>2, <1>3, <2>1, <2>2, EnterScheduleKeeps DEF TypeOK, PCTyped
  <2>4. \A t \in Tasks : pc'[t] = "exited" <=> pc[t] = "exited"
    BY <2>1, <2>2 DEF Threads
  <2>5. \A u \in User :
          /\ status[u] = "WaitingIo" => u \in Elems(queue)
          /\ status[u] = "WaitingIo" => /\ pc'[u] \in {"tty", "recv", "futex"}
                                        /\ pc'[u] = "tty" => events'[u] = 0
                                        /\ pc'[u] = "recv" => packets'[u] = 0
          /\ pc'[u] = "slept" => status[u] = "Sleeping" \/ wakeIn'[u] = 0
    BY <1>3, <2>1, <2>2 DEF IInv, UserInv, NoLostUserWakeup
  <2>6. /\ pc'[Boot] = pc[Boot] /\ pc'[KernelMain] = pc[KernelMain]
        /\ pc'[PacketHandler] # "consume"
    BY <1>1, <1>3, <2>2
  <2>. QED
    BY <1>1, <1>2, <2>1, <2>3, <2>4, <2>5, <2>6, EnterInv
<1>8. CASE PacketConsume
  <2>1. /\ pc' = [pc EXCEPT ![PacketHandler] = "check"]
        /\ pc[PacketHandler] = "consume" /\ cache' = cache - 1
        /\ UNCHANGED <<queue, cursor, current_task, wakeIn, ctx, cpu, mode,
                       timer, kernelIF, events>>
    BY <1>8 DEF PacketConsume, Runs
  <2>2. /\ PCTyped' /\ pc'[PacketHandler] = "check"
        /\ \A x \in Threads : x # PacketHandler => pc'[x] = pc[x]
    BY <1>4, <2>1 DEF PacketPC
  <2>3. cache' \in 0 .. CacheSlots
    <3>1. cache > 0 /\ cache \in 0 .. CacheSlots
      BY <1>3, <2>1 DEF IInv, UserInv, TypeOK
    <3>. QED
      BY <2>1, <3>1
  <2>4. PICK to \in SUBSET (User \cap Elems(queue)), wake \in BOOLEAN :
          /\ to # {} => wake
          /\ packets' = [u \in User |-> IF u \in to
                                          THEN RingWrite(packets[u], PacketSlots)
                                          ELSE packets[u]]
          /\ status' = IF wake THEN Woken(status) ELSE status
    BY <1>8 DEF PacketConsume
  <2>5. /\ packets' \in [User -> 0 .. PacketSlots]
        /\ \A u \in User : u \notin to => packets'[u] = packets[u]
    <3>1. \A u \in User : RingWrite(packets[u], PacketSlots) \in 0 .. PacketSlots
      BY <1>3 DEF TypeOK, RingWrite
    <3>2. packets \in [User -> 0 .. PacketSlots]
      BY <1>3 DEF TypeOK
    <3>. QED
      BY <2>4, <3>1, <3>2
  <2>6. /\ status' \in [Tasks \cup {Idle} -> Status]
        /\ \A t \in Tasks \cup {Idle} :
             /\ wake /\ t \in Elems(queue) => status'[t] # "WaitingIo"
             /\ status[t] # "WaitingIo" => status'[t] = status[t]
             /\ status'[t] \in {status[t], "Running"}
        /\ status'[Idle] = status[Idle]
        /\ ~wake => status' = status
    <3>1. CASE wake
      BY <1>3, <2>4, <3>1, WokenWakes
    <3>2. CASE ~wake
      BY <1>3, <2>4, <3>2 DEF TypeOK
    <3>. QED
      BY <3>1, <3>2
  <2>7. Elems(queue)' = Elems(queue)
    BY <2>1 DEF Elems
  <2>8. TypeOK'
    BY <1>3, <2>1, <2>2, <2>3, <2>5, <2>6 DEF TypeOK, PCTyped
  <2>9. QueueInv'
    BY <1>2, <1>3, <2>1, <2>2, <2>7 DEF IInv, QueueInv, NoDup
  <2>10. SwitchInv'
    <3>1. \A t \in Tasks : pc'[t] = "exited" <=> pc[t] = "exited"
      BY <2>1, <2>2 DEF Threads
    <3>2. pc'[Boot] = pc[Boot]
      BY <1>1, <1>3, <2>2
    <3>. QED
      BY <1>1, <1>2, <2>1, <2>6, <2>7, <3>1, <3>2
         DEF IInv, SwitchInv, ContextsOwned
  <2>11. UserInv'
    <3>1. \A u \in User : pc'[u] = pc[u] /\ u \in Tasks
      BY <1>3, <2>2 DEF Tasks
    <3>2. \A u \in User : status'[u] = "WaitingIo" =>
            status[u] = "WaitingIo" /\ u \in Elems(queue) /\ packets'[u] = packets[u]
      BY <2>4, <2>5, <2>6, <3>1 DEF IInv, UserInv
    <3>. QED
      BY <1>1, <1>3, <2>1, <2>2, <2>6, <2>7, <3>1, <3>2
         DEF IInv, UserInv, NoLostUserWakeup
  <2>. QED
    BY <2>8, <2>9, <2>10, <2>11 DEF IInv
<1>. QED
  BY <1>5, <1>6, <1>7, <1>8 DEF PacketStep

(* What holds when a program executes. *)
LEMMA ExecutingUser ==
  ASSUME IInv, NEW u \in User, mode = "thread", cpu = u
  PROVE  /\ u \in Tasks /\ u # KernelMain /\ u # PacketHandler
         /\ current_task = u /\ cursor = u /\ status[u] = "Running"
         /\ u \in Elems(queue) /\ queue # <<>> /\ pc[Boot] = "hcf"
<1>1. u \in Tasks /\ u # KernelMain /\ u # PacketHandler
  BY ThreadsDiffer DEF Tasks
<1>2. status[u] = "Running"
  BY DEF IInv, UserInv
<1>. QED
  BY <1>1, <1>2, ExecutingTask

(* A program moves to another of its locations. *)
LEMMA UserMoves ==
  ASSUME IInv, NEW u \in User, NEW at \in UserPC, pc' = [pc EXCEPT ![u] = at]
  PROVE  /\ PCTyped' /\ pc'[u] = at
         /\ \A x \in User : x # u => pc'[x] = pc[x]
         /\ \A x \in Tasks : x # u => pc'[x] = pc[x]
         /\ pc'[Boot] = pc[Boot] /\ pc'[KernelMain] = pc[KernelMain]
         /\ pc'[PacketHandler] = pc[PacketHandler]
<1>1. u \in Tasks /\ u # KernelMain /\ u # PacketHandler /\ u # Boot
  BY ThreadsDiffer DEF Tasks
<1>2. PCTyped' /\ pc'[u] = at /\ \A x \in Threads : x # u => pc'[x] = pc[x]
  BY <1>1, PCMoves DEF IInv
<1>. QED
  BY <1>1, <1>2 DEF Threads, Tasks

(* A system call that blocks: the program becomes Sleeping with its        *)
(* deadline written, or WaitingIo with nothing to read, and yields.        *)
LEMMA BlockInv ==
  ASSUME IInv, NEW u \in User, mode = "thread", cpu = u, pc[u] # "exited",
         NEW s \in {"Sleeping", "WaitingIo"}, NEW at \in UserPC \ {"exited"},
         EnterSchedule(queue, cursor, [status EXCEPT ![current_task] = s]),
         pc' = [pc EXCEPT ![u] = at],
         wakeIn' \in [Tasks -> 0 .. MaxSleep],
         \A x \in User : x # u => wakeIn'[x] = wakeIn[x],
         UNCHANGED <<kernelIF, cache, events, packets>>,
         s = "Sleeping" => at = "slept",
         s = "WaitingIo" => \/ at = "tty" /\ events[u] = 0
                            \/ at = "recv" /\ packets[u] = 0
                            \/ at = "futex"
  PROVE  IInv'
<1> USE ThreadsDiffer
<1> DEFINE st == [status EXCEPT ![current_task] = s]
<1>1. /\ u \in Tasks /\ u # KernelMain /\ u # PacketHandler
      /\ current_task = u /\ status[u] = "Running"
      /\ u \in Elems(queue) /\ pc[Boot] # "init"
  BY ExecutingUser
<1>2. /\ st \in [Tasks \cup {Idle} -> Status]
      /\ st[u] = s /\ \A x \in Tasks : x # u => st[x] = status[x]
  BY <1>1 DEF IInv, TypeOK, Status
<1>3. st[current_task] = "Ready" <=> status[current_task] = "Ready"
  BY <1>1, <1>2
<1>4. EnterSchedule(queue, cursor, st)
  OBVIOUS
<1> HIDE DEF st
<1>5. /\ PCTyped' /\ pc'[u] = at
      /\ \A x \in User : x # u => pc'[x] = pc[x]
      /\ \A x \in Tasks : x # u => pc'[x] = pc[x]
      /\ pc'[Boot] = pc[Boot] /\ pc'[KernelMain] = pc[KernelMain]
      /\ pc'[PacketHandler] = pc[PacketHandler]
  BY UserMoves
<1>6. TypeOK'
  <2>1. /\ mode' = "pick" /\ timer' = FALSE /\ cpu' = cpu
        /\ queue' = queue /\ status' = st
        /\ cursor' \in Tasks \cup {None}
        /\ current_task' \in Tasks \cup {Idle}
        /\ ctx' \in [Tasks \cup {Idle} -> Threads \cup {None}]
    BY <1>1, <1>2, <1>3, <1>4, EnterScheduleKeeps
  <2>. QED
    BY <1>2, <1>5, <2>1 DEF IInv, TypeOK, PCTyped
<1>7. \A t \in Tasks : pc'[t] = "exited" <=> pc[t] = "exited"
  BY <1>5
<1>8. \A x \in User :
        /\ st[x] = "WaitingIo" => x \in Elems(queue)
        /\ st[x] = "WaitingIo" => /\ pc'[x] \in {"tty", "recv", "futex"}
                                  /\ pc'[x] = "tty" => events'[x] = 0
                                  /\ pc'[x] = "recv" => packets'[x] = 0
        /\ pc'[x] = "slept" => st[x] = "Sleeping" \/ wakeIn'[x] = 0
  <2> TAKE x \in User
  <2>1. CASE x = u
    BY <1>1, <1>2, <1>5, <2>1
  <2>2. CASE x # u
    BY <1>2, <1>5, <2>2 DEF IInv, UserInv, NoLostUserWakeup, Tasks
  <2>. QED
    BY <2>1, <2>2
<1>9. pc'[PacketHandler] = "consume" => cache' > 0
  BY <1>5 DEF IInv, UserInv
<1>. QED
  BY <1>1, <1>2, <1>3, <1>4, <1>5, <1>6, <1>7, <1>8, <1>9, EnterInv

(* A system call that reads what is there, or returns. *)
LEMMA ReadInv ==
  ASSUME IInv, NEW u \in User, mode = "thread", cpu = u, pc[u] # "exited",
         NEW at \in UserPC \ {"exited"},
         pc' = [pc EXCEPT ![u] = at],
         UNCHANGED <<queue, cursor, current_task, status, wakeIn, ctx, cpu,
                     mode, timer, kernelIF, cache>>,
         events' \in [User -> 0 .. EventSlots],
         packets' \in [User -> 0 .. PacketSlots],
         \A x \in User : x # u => events'[x] = events[x] /\ packets'[x] = packets[x],
         at # "slept"
  PROVE  IInv'
<1> USE ThreadsDiffer
<1>1. u \in Tasks /\ status[u] = "Running" /\ pc[Boot] = "hcf"
  BY ExecutingUser
<1>2. /\ PCTyped' /\ pc'[u] = at
      /\ \A x \in User : x # u => pc'[x] = pc[x]
      /\ \A x \in Tasks : x # u => pc'[x] = pc[x]
      /\ pc'[Boot] = pc[Boot] /\ pc'[KernelMain] = pc[KernelMain]
      /\ pc'[PacketHandler] = pc[PacketHandler]
  BY UserMoves
<1>3. Elems(queue)' = Elems(queue)
  BY DEF Elems
<1>4. TypeOK'
  BY <1>2 DEF IInv, TypeOK, PCTyped
<1>5. QueueInv'
  BY <1>2, <1>3 DEF IInv, QueueInv, NoDup
<1>6. SwitchInv'
  BY <1>2, <1>3 DEF IInv, SwitchInv, ContextsOwned
<1>7. UserInv'
  BY <1>1, <1>2, <1>3 DEF IInv, UserInv, NoLostUserWakeup
<1>. QED
  BY <1>4, <1>5, <1>6, <1>7 DEF IInv

(* sys_exit: the program leaves the queue and the search starts at the     *)
(* successor of the one after it.                                          *)
LEMMA ExitInv == \A u \in User : IInv /\ SysExit(u) => IInv'
<1> SUFFICES ASSUME NEW u \in User, IInv, SysExit(u) PROVE IInv'
  OBVIOUS
<1> USE ThreadsDiffer
<1> DEFINE q == Without(queue, u)
           c == CursorAfterRemove(queue, u, None)
<1>1. mode = "thread" /\ cpu = u /\ pc' = [pc EXCEPT ![u] = "exited"]
  BY DEF SysExit, Runs
<1>2. /\ u \in Tasks /\ u # KernelMain /\ u # PacketHandler
      /\ current_task = u /\ cursor = u /\ status[u] = "Running"
      /\ u \in Elems(queue) /\ pc[Boot] = "hcf"
  BY <1>1, ExecutingUser
<1>3. queue \in Seq(Tasks) /\ NoDup(queue) /\ TypeOK
  BY DEF IInv, TypeOK, QueueInv
<1>4. /\ q \in Seq(Tasks) /\ Elems(q) = Elems(queue) \ {u} /\ NoDup(q)
      /\ Len(q) = Len(queue) - 1
  BY <1>2, <1>3, WithoutRemoves
<1>5. q # <<>> => c \in Elems(q)
  <2>1. q # <<>> => Len(queue) # 1
    <3>1. \A s \in Seq(Tasks) : Len(s) \in Nat /\ (Len(s) = 0 => s = <<>>)
      OBVIOUS
    <3>2. Len(q) = 0 => q = <<>>
      BY <1>4, <3>1
    <3>3. Len(queue) = 1 => Len(q) = 0
      BY <1>4
    <3>. QED
      BY <3>2, <3>3
  <2>. QED
    BY <1>2, <1>3, <2>1, CursorAfterRemoveQueued
<1>6. c \in Tasks \cup {None}
  <2>1. NextTask(queue, u) \in Elems(queue)
    BY <1>2, <1>3, NextTaskQueued
  <2>2. Elems(queue) \subseteq Tasks
    BY <1>3, ElemsAreTasks
  <2>. QED
    BY <2>1, <2>2 DEF CursorAfterRemove
<1>7. /\ mode' = "pick" /\ timer' = FALSE /\ cpu' = cpu
      /\ queue' = q /\ status' = status
      /\ ctx' = IF q # <<>> THEN [ctx EXCEPT ![u] = u] ELSE ctx
      /\ current_task' = IF q = <<>> THEN Idle ELSE NextTask(q, c)
      /\ cursor' = IF q = <<>> THEN c ELSE NextTask(q, c)
      /\ UNCHANGED <<wakeIn, kernelIF, cache, events, packets>>
  BY <1>1, <1>2 DEF SysExit, EnterSchedule
<1> HIDE DEF q, c
<1>8. Elems(queue)' = Elems(q) /\ Elems(q) \subseteq Tasks
  BY <1>4, <1>7 DEF Elems
<1>9. q # <<>> => NextTask(q, c) \in Elems(q)
  BY <1>4, <1>5, NextTaskQueued
<1>10. /\ PCTyped' /\ pc'[u] = "exited"
       /\ \A x \in User : x # u => pc'[x] = pc[x]
       /\ \A x \in Tasks : x # u => pc'[x] = pc[x]
       /\ pc'[Boot] = pc[Boot] /\ pc'[KernelMain] = pc[KernelMain]
       /\ pc'[PacketHandler] = pc[PacketHandler]
  BY <1>1, UserMoves DEF UserPC
<1>11. /\ ctx' \in [Tasks \cup {Idle} -> Threads \cup {None}]
       /\ \A t \in Tasks \cup {Idle} : t # u => ctx'[t] = ctx[t]
  BY <1>2, <1>3, <1>7 DEF TypeOK, Threads
<1>12. TypeOK'
  <2>1. queue' \in Seq(Tasks)
    BY <1>4, <1>7
  <2>2. cursor' \in Tasks \cup {None} /\ current_task' \in Tasks \cup {Idle}
    BY <1>6, <1>7, <1>8, <1>9
  <2>. QED
    BY <1>3, <1>7, <1>10, <1>11, <2>1, <2>2 DEF TypeOK, PCTyped
<1>13. QueueInv'
  <2>1. NoDup(queue)' /\ (queue' # <<>> => cursor' \in Elems(q))
    BY <1>4, <1>7, <1>9 DEF NoDup
  <2>2. current_task' \in Tasks => current_task' \in Elems(q) /\ cursor' = current_task'
    BY <1>7, <1>9
  <2>3. pc'[KernelMain] \notin {"add_user", "hcf"} => Elems(q) \subseteq {KernelMain}
    BY <1>4, <1>10 DEF IInv, QueueInv
  <2>. QED
    BY <1>2, <1>8, <1>10, <2>1, <2>2, <2>3 DEF QueueInv
<1>14. SwitchInv'
  <2>1. \A t \in Elems(q) : t # u /\ ctx'[t] = t
    BY <1>1, <1>4, <1>8, <1>11 DEF IInv, SwitchInv, ContextsOwned
  <2>2. ctx'[Idle] \in {Idle, None}
    BY <1>2, <1>11 DEF IInv, SwitchInv, ContextsOwned
  <2>3. \A t \in Tasks : t \notin Elems(q) /\ pc'[t] # "exited" => ctx'[t] = t
    BY <1>4, <1>10, <1>11 DEF IInv, SwitchInv
  <2>4. current_task' # None
    BY <1>7, <1>8, <1>9
  <2>. QED
    BY <1>2, <1>7, <1>8, <1>10, <2>1, <2>2, <2>3, <2>4 DEF SwitchInv, ContextsOwned
<1>15. UserInv'
  BY <1>2, <1>4, <1>7, <1>8, <1>10 DEF IInv, UserInv, NoLostUserWakeup
<1>. QED
  BY <1>12, <1>13, <1>14, <1>15 DEF IInv

(* sys_futex_wake makes some programs that wait in sys_futex_wait Running. *)
LEMMA FutexWakeInv == \A u \in User : IInv /\ FutexWake(u) => IInv'
<1> SUFFICES ASSUME NEW u \in User, IInv, FutexWake(u) PROVE IInv'
  OBVIOUS
<1> USE ThreadsDiffer
<1>1. /\ mode = "thread" /\ cpu = u /\ pc[u] = "user"
      /\ UNCHANGED <<queue, cursor, current_task, wakeIn, ctx, cpu, mode,
                     timer, pc, kernelIF, cache, events, packets>>
  BY DEF FutexWake, Runs
<1>2. PICK ws \in SUBSET FutexWaiters :
        status' = [t \in DOMAIN status |-> IF t \in ws THEN "Running" ELSE status[t]]
  BY DEF FutexWake
<1>3. /\ status' \in [Tasks \cup {Idle} -> Status]
      /\ status'[Idle] = status[Idle]
      /\ \A t \in Tasks : /\ status'[t] \in {status[t], "Running"}
                          /\ pc[t] # "futex" => status'[t] = status[t]
  BY <1>2 DEF IInv, TypeOK, Status, FutexWaiters, Tasks
<1>4. u \in Tasks /\ Elems(queue)' = Elems(queue)
  BY <1>1 DEF Tasks, Elems
<1>5. TypeOK'
  BY <1>1, <1>3 DEF IInv, TypeOK
<1>6. QueueInv'
  BY <1>1, <1>4 DEF IInv, QueueInv, NoDup
<1>7. SwitchInv'
  BY <1>1, <1>3, <1>4 DEF IInv, SwitchInv, ContextsOwned
<1>8. UserInv'
  BY <1>1, <1>3, <1>4 DEF IInv, UserInv, NoLostUserWakeup, Tasks
<1>. QED
  BY <1>5, <1>6, <1>7, <1>8 DEF IInv

(* Every step of a program. *)
LEMMA UserStepInv == \A u \in User : IInv /\ UserStep(u) => IInv'
<1> SUFFICES ASSUME NEW u \in User, IInv, UserStep(u) PROVE IInv'
  OBVIOUS
<1> USE ThreadsDiffer, BoundsAreNat
<1>1. TypeOK /\ u \in Tasks
  BY DEF IInv, Tasks
<1>2. ASSUME NEW ms \in 0 .. MaxSleep, SysSleep(u, ms)
      PROVE  IInv'
  <2>1. /\ mode = "thread" /\ cpu = u /\ pc[u] = "user"
        /\ pc' = [pc EXCEPT ![u] = "slept"]
        /\ wakeIn' = [wakeIn EXCEPT ![current_task] = ms]
        /\ EnterSchedule(queue, cursor, [status EXCEPT ![current_task] = "Sleeping"])
        /\ UNCHANGED <<kernelIF, cache, events, packets>>
    BY <1>2 DEF SysSleep, Runs
  <2>2. current_task = u
    BY <2>1, ExecutingUser
  <2>3. /\ wakeIn' \in [Tasks -> 0 .. MaxSleep]
        /\ \A x \in User : x # u => wakeIn'[x] = wakeIn[x]
    BY <1>1, <1>2, <2>1, <2>2 DEF TypeOK, Tasks
  <2>. QED
    BY <2>1, <2>3, BlockInv DEF UserPC
<1>3. CASE SysSleepReturn(u)
  <2>1. /\ mode = "thread" /\ cpu = u /\ pc[u] = "slept"
        /\ pc' = [pc EXCEPT ![u] = "user"]
        /\ UNCHANGED <<queue, cursor, current_task, status, wakeIn, ctx, cpu,
                       mode, timer, kernelIF, cache, events, packets>>
    BY <1>3 DEF SysSleepReturn, Runs
  <2>2. events' \in [User -> 0 .. EventSlots] /\ packets' \in [User -> 0 .. PacketSlots]
    BY <1>1, <2>1 DEF TypeOK
  <2>. QED
    BY <2>1, <2>2, ReadInv DEF UserPC
<1>4. ASSUME NEW at \in {"tty", "recv", "futex"}, AwaitIo(u, at), mode = "thread", cpu = u,
             pc[u] # "exited", at = "tty" => events[u] = 0,
             at = "recv" => packets[u] = 0
      PROVE  IInv'
  <2>1. /\ pc' = [pc EXCEPT ![u] = at]
        /\ EnterSchedule(queue, cursor, [status EXCEPT ![current_task] = "WaitingIo"])
        /\ UNCHANGED <<wakeIn, kernelIF, cache, events, packets>>
    BY <1>4 DEF AwaitIo
  <2>2. /\ wakeIn' \in [Tasks -> 0 .. MaxSleep]
        /\ \A x \in User : x # u => wakeIn'[x] = wakeIn[x]
    BY <1>1, <2>1 DEF TypeOK
  <2>. QED
    BY <1>4, <2>1, <2>2, BlockInv DEF UserPC
<1>5. CASE TtyRead(u)
  <2>1. mode = "thread" /\ cpu = u /\ pc[u] # "exited"
    BY <1>5 DEF TtyRead, Runs
  <2>2. CASE events[u] = 0 /\ AwaitIo(u, "tty")
    BY <1>4, <2>1, <2>2
  <2>3. CASE ~(events[u] = 0 /\ AwaitIo(u, "tty"))
    <3>1. /\ events[u] > 0 /\ events' = [events EXCEPT ![u] = events[u] - 1]
          /\ UNCHANGED <<queue, cursor, current_task, status, wakeIn, ctx,
                         cpu, mode, timer, kernelIF, cache, packets>>
      BY <1>5, <2>3 DEF TtyRead
    <3>2. PICK next \in {"tty", "user"} : pc' = [pc EXCEPT ![u] = next]
      BY <1>5, <2>3 DEF TtyRead
    <3>3. /\ events' \in [User -> 0 .. EventSlots]
          /\ \A x \in User : x # u => events'[x] = events[x]
      BY <1>1, <3>1 DEF TypeOK
    <3>4. packets' \in [User -> 0 .. PacketSlots]
      BY <1>1, <3>1 DEF TypeOK
    <3>. QED
      BY <2>1, <3>1, <3>2, <3>3, <3>4, ReadInv DEF UserPC
  <2>. QED
    BY <2>2, <2>3
<1>6. CASE RecvMsg(u)
  <2>1. mode = "thread" /\ cpu = u /\ pc[u] # "exited"
    BY <1>6 DEF RecvMsg, Runs
  <2>2. CASE packets[u] = 0 /\ AwaitIo(u, "recv")
    BY <1>4, <2>1, <2>2
  <2>3. CASE ~(packets[u] = 0 /\ AwaitIo(u, "recv"))
    <3>1. /\ packets[u] > 0 /\ packets' = [packets EXCEPT ![u] = packets[u] - 1]
          /\ pc' = [pc EXCEPT ![u] = "user"]
          /\ UNCHANGED <<queue, cursor, current_task, status, wakeIn, ctx,
                         cpu, mode, timer, kernelIF, cache, events>>
      BY <1>6, <2>3 DEF RecvMsg
    <3>2. /\ packets' \in [User -> 0 .. PacketSlots]
          /\ \A x \in User : x # u => packets'[x] = packets[x]
      BY <1>1, <3>1 DEF TypeOK
    <3>3. events' \in [User -> 0 .. EventSlots]
      BY <1>1, <3>1 DEF TypeOK
    <3>. QED
      BY <2>1, <3>1, <3>2, <3>3, ReadInv DEF UserPC
  <2>. QED
    BY <2>2, <2>3
<1>7. CASE SysExit(u)
  BY <1>7, ExitInv
<1>8. CASE GetKbEvent(u)
  <2>1. /\ mode = "thread" /\ cpu = u /\ pc[u] = "user"
        /\ events' = [events EXCEPT ![u] = IF events[u] > 0 THEN events[u] - 1 ELSE 0]
        /\ UNCHANGED <<queue, cursor, current_task, status, wakeIn, ctx, cpu,
                       mode, timer, pc, kernelIF, cache, packets>>
    BY <1>8 DEF GetKbEvent, Runs
  <2>2. pc' = [pc EXCEPT ![u] = "user"]
    BY <1>1, <2>1 DEF TypeOK, Threads
  <2>3. /\ events' \in [User -> 0 .. EventSlots]
        /\ \A x \in User : x # u => events'[x] = events[x]
    BY <1>1, <2>1 DEF TypeOK
  <2>4. packets' \in [User -> 0 .. PacketSlots]
    BY <1>1, <2>1 DEF TypeOK
  <2>. QED
    BY <2>1, <2>2, <2>3, <2>4, ReadInv DEF UserPC
<1>9. CASE FutexWait(u)
  <2>1. mode = "thread" /\ cpu = u /\ pc[u] # "exited" /\ AwaitIo(u, "futex")
    BY <1>9 DEF FutexWait, Runs
  <2>. QED
    BY <1>4, <2>1
<1>10. CASE FutexWake(u)
  BY <1>10, FutexWakeInv
<1>. QED
  BY <1>2, <1>3, <1>5, <1>6, <1>7, <1>8, <1>9, <1>10 DEF UserStep

-----------------------------------------------------------------------------
(* IInv is an inductive invariant of the scheduler. *)
THEOREM Invariance == Spec => []IInv
<1>1. Init => IInv
  BY InitInv
<1>2. IInv /\ [Next]_vars => IInv'
  <2> SUFFICES ASSUME IInv, [Next]_vars PROVE IInv'
    OBVIOUS
  <2>1. CASE Next
    BY <2>1, PickNextInv, DispatchInv, TimerTickInv, ElapseInv, KeyboardInv, NicInv,
       BootInv, KernelMainInv, PacketInv, UserStepInv DEF Next
  <2>2. CASE UNCHANGED vars
    <3>1. Elems(queue)' = Elems(queue)
      BY <2>2 DEF vars, Elems
    <3>. QED
      BY <2>2, <3>1 DEF vars, IInv, TypeOK, QueueInv, SwitchInv, UserInv, NoDup,
                        ContextsOwned, NoLostUserWakeup
  <2>. QED
    BY <2>1, <2>2
<1>. QED
  BY <1>1, <1>2, PTL DEF Spec

(* Type correctness; in particular no ring of keyboard events or packets   *)
(* ever counts past its capacity (Ringbuffer::write).                      *)
THEOREM TypeCorrect == Spec => []TypeOK
<1>1. IInv => TypeOK
  BY DEF IInv
<1>. QED
  BY <1>1, Invariance, PTL

(* Whoever executes a thread of a task has current_task and queue.current  *)
(* on that task: sleep(), await_io() and kill_and_yield() act on their     *)
(* caller and on nobody else.                                              *)
THEOREM CurrentCorrect == Spec => []CurrentIsExecuting
<1>1. IInv => CurrentIsExecuting
  <2> SUFFICES ASSUME IInv, mode = "thread", cpu # Boot
               PROVE  /\ cpu = current_task
                      /\ cpu # Idle => cursor = cpu /\ cpu \in Elems(queue)
    BY DEF CurrentIsExecuting
  <2>1. cpu = current_task
    BY DEF IInv, SwitchInv
  <2>2. cpu # Idle => cpu \in Tasks
    BY DEF IInv, TypeOK, Threads
  <2>. QED
    BY <2>1, <2>2 DEF IInv, QueueInv
<1>. QED
  BY <1>1, Invariance, PTL

(* schedule() never saves a thread's registers into another task's context *)
(* and never resumes a task from registers it already ran on from.         *)
THEOREM ContextsCorrect == Spec => []ContextsOwned
<1>1. IInv => ContextsOwned
  BY DEF IInv, SwitchInv
<1>. QED
  BY <1>1, Invariance, PTL

(* No program is WaitingIo while its ring of events or its socket has      *)
(* something for it: the system calls' block_on misses no wake-up.         *)
THEOREM UserWakeupCorrect == Spec => []NoLostUserWakeup
<1>1. IInv => NoLostUserWakeup
  BY DEF IInv, UserInv
<1>. QED
  BY <1>1, Invariance, PTL

(* sys_sleep never returns early, whatever wake_io and wake_net do. *)
THEOREM UserSleepCorrect == Spec => []UserSleepHonoured
<1>1. IInv => UserSleepHonoured
  BY DEF IInv, UserInv, UserSleepHonoured, SleepHonoured
<1>. QED
  BY <1>1, Invariance, PTL
=============================================================================
