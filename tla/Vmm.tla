--------------------------------- MODULE Vmm ---------------------------------
(***************************************************************************)
(* Address spaces (memory/vmm.cpp) and what builds them: kernel_main and   *)
(* the ELF loader, Task::create, sys_mmap and ~Task.  A space is a tree of *)
(* four levels of tables; a table is a page whose entries are 0 or the     *)
(* page of the next level.  Any page can be mapped, page 0 too: a pml1     *)
(* entry is 0 when it is not present, and Entry(page) otherwise.           *)
(* The code has Fanout = 512 entries per table; the upper half of the pml4 *)
(* belongs to the kernel and is shared by all spaces.                      *)
(*                                                                         *)
(* map runs under the lock of its space, and system calls with interrupts  *)
(* off, so the handlers below are one step each; Task::create and          *)
(* Elf::load only touch a space nobody else uses yet.                      *)
(***************************************************************************)
EXTENDS FiniteSets, PagePool

CONSTANTS
  Fanout,          \* entries per table
  Tasks,           \* user tasks
  KernelBase,      \* the virtual page, frame and number of pages of the
  KernelFrame,     \* mapping that Vmm::init makes for the kernel
  KernelPages,
  UserStack,       \* the first virtual page of the stack
  StackPages,      \* STACK_SIZE / PAGE_SIZE
  Segment,         \* the virtual page an ELF segment is loaded to
  HeapStart,       \* heap_cur of a new task, an address in cells
  HeapTop,         \* bound: heap_cur does not pass it
  MmapSizes,       \* the sizes programs give to mmap, in cells
  MaxMmap,         \* bound: the most pages of such a size
  Hints,           \* the hints they give, addresses in cells, 0 for none
  VirtualPages     \* the virtual pages in use

ASSUME SpaceAssumption ==
  /\ Fanout \in Nat \ {0, 1} /\ Fanout % 2 = 0
  /\ StackPages \in Nat \ {0}
  /\ HeapStart \in Nat /\ HeapTop \in Nat /\ Segment \in Nat
  /\ Hints \subseteq Nat /\ UserStack \in Nat
  /\ \A size \in MmapSizes : size \in Nat /\ size \div PAGE_SIZE <= MaxMmap
  /\ VirtualPages \subseteq 0 .. Fanout * Fanout * Fanout * Fanout - 1
  /\ KernelBase \in Nat /\ KernelFrame \in Nat /\ KernelPages \in Nat /\ MaxMmap \in Nat

VARIABLES
  pt,            \* the tables: page -> entries
  kernel_space,  \* pml4 of the kernel
  space,         \* pml4 of each task, 0 when it has none
  phase,         \* how far a task is: new, loading, running, dead
  heap_cur,      \* where the next anonymous mapping goes
  frames,        \* pages handed out to be mapped, and not freed
  strayed,       \* history: the pml4s that got pages from physical page 0 on,
                 \* because a failed allocation was not tested
  cr3            \* the pml4 the CPU uses

vmmVars == <<pt, kernel_space, space, phase, heap_cur, frames, strayed, cr3>>

Index == 0 .. Fanout - 1
LowerHalf == 0 .. (Fanout \div 2) - 1
HigherHalf == Index \ LowerHalf

Shift(n) == IF n = 3 THEN Fanout * Fanout * Fanout
            ELSE IF n = 2 THEN Fanout * Fanout
            ELSE IF n = 1 THEN Fanout ELSE 1
(* The index of virtual page v in a table of a level, pml1 being level 1. *)
Offset(v, level) == (v \div Shift(level - 1)) % Fanout

IsKernel(v) == Offset(v, 4) \in HigherHalf

(* The address space has a place for everything: the kernel is mapped in   *)
(* its half and the stack of a task in the other, and the stack starts     *)
(* where neither a segment nor a mapping of sys_mmap goes.                 *)
ASSUME PlaceAssumption ==
  LET limit == Fanout * Fanout * Fanout * Fanout
      top == HeapTop \div PAGE_SIZE
  IN  /\ \A v \in Span(KernelBase, KernelPages) : v < limit /\ IsKernel(v)
      /\ \A v \in Span(UserStack, StackPages) : v < limit /\ ~IsKernel(v)
      /\ Segment < limit /\ Segment # UserStack
      /\ top <= limit /\ UserStack \notin (HeapStart \div PAGE_SIZE) .. top - 1
      /\ \A hint \in Hints \ {0} :
           LET v == hint \div PAGE_SIZE
           IN  v + MaxMmap <= limit /\ UserStack \notin Span(v, MaxMmap)

EmptyTable == [i \in Index |-> 0]

-----------------------------------------------------------------------------
(* The operators work on the memory m == [pool, pt]. *)
Memory == [pool |-> pool, pt |-> pt]

(* Pmm::calloc(1) for a table; page 0 when there is none. *)
NewTable(m) ==
  LET a == AllocPages(m.pool, 1)
  IN  [page |-> a.page,
       m |-> [pool |-> a.pool, pt |-> IF a.page = 0 THEN m.pt
                     ELSE [q \in DOMAIN m.pt \cup {a.page} |->
                             IF q = a.page THEN EmptyTable ELSE m.pt[q]]]]

(* get_next_level(table, i, true), where table may be nullptr already. *)
GetNextLevel(r, i) ==
  LET new == NewTable(r.m)
  IN  IF r.page = 0 THEN r
      ELSE IF r.m.pt[r.page][i] # 0 THEN [page |-> r.m.pt[r.page][i], m |-> r.m]
      ELSE IF new.page = 0 THEN new
      ELSE [page |-> new.page, m |-> [new.m EXCEPT !.pt[r.page][i] = new.page]]

(* virt_to_pte: the pml1 that maps v, with the tables missing on the way. *)
VirtToPte(m, pml4, v) ==
  GetNextLevel(GetNextLevel(GetNextLevel([page |-> pml4, m |-> m],
    Offset(v, 4)), Offset(v, 3)), Offset(v, 2))

(* A present pml1 entry. *)
Entry(page) == page + 1

(* AddressSpace::map: nothing happens when a table is missing for lack of  *)
(* memory, or when v is mapped already.                                    *)
Map(m, pml4, v, frame) ==
  LET r == VirtToPte(m, pml4, v)
  IN  IF r.page = 0 THEN r.m
      ELSE IF r.m.pt[r.page][Offset(v, 1)] # 0 THEN r.m
      ELSE [r.m EXCEPT !.pt[r.page][Offset(v, 1)] = Entry(frame)]

(* Mutant: the physical address does not advance. *)
MapRangeSameFrame(m, pml4, v, frame, n) ==
  LET range[i \in 0 .. n] ==
        IF i = 0 THEN m ELSE Map(range[i - 1], pml4, v + i - 1, frame)
  IN  range[n]

MapRange(m, pml4, v, frame, n) ==
  LET range[i \in 0 .. n] ==
        IF i = 0 THEN m ELSE Map(range[i - 1], pml4, v + i - 1, frame + i - 1)
  IN  range[n]

(* The entry the CPU, or virt_to_phys, finds for v without adding tables. *)
Translate(t, pml4, v) ==
  LET next(p, level) == IF p = 0 THEN 0 ELSE t[p][Offset(v, level)]
  IN  next(next(next(next(pml4, 4), 3), 2), 1)

(* A pml4 and the tables below its entries in `half`. *)
Children(t, ps, indices) == {t[p][i] : p \in ps, i \in indices} \ {0}
Tree(t, pml4, half) ==
  LET pml3 == Children(t, {pml4}, half)
      pml2 == Children(t, pml3, Index)
  IN  {pml4} \cup pml3 \cup pml2 \cup Children(t, pml2, Index)

(* Mutant: destroy_pml stops one level too early. *)
DestroyPmlShallow(t, pml4) ==
  LET pml3 == Children(t, {pml4}, LowerHalf)
  IN  {pml4} \cup pml3 \cup Children(t, pml3, Index)

(* What destroy_pml(pml4, 0, 256, 4) frees: the tables of the lower half,  *)
(* but not the pages that are mapped.                                      *)
DestroyPml(t, pml4) == Tree(t, pml4, LowerHalf)

Becomes(m) == pool' = m.pool /\ pt' = m.pt

-----------------------------------------------------------------------------
(* Mutant: the higher-half pml3 are made when they are needed. *)
KernelSpaceLazy(m) ==
  LET top == NewTable(m)
  IN  [page |-> top.page, m |-> MapRange(top.m, top.page, KernelBase, KernelFrame, KernelPages)]

(* Vmm::init on a memory m: the kernel's pml4, all its higher-half pml3 so *)
(* that every space can share them, and the kernel's own mapping.          *)
KernelSpaceOf(m) ==
  LET top == NewTable(m)
      pml3[i \in Index] ==
        IF i \in LowerHalf THEN top
        ELSE [page |-> top.page,
              m |-> GetNextLevel([page |-> top.page, m |-> pml3[i - 1].m], i).m]
  IN  [page |-> top.page,
       m |-> MapRange(pml3[Fanout - 1].m, top.page, KernelBase, KernelFrame, KernelPages)]

VmmInit(m) ==
  LET k == KernelSpaceOf(m)
  IN  /\ phase = [t \in Tasks |-> "new"]
      /\ kernel_space = k.page /\ cr3 = k.page
      /\ pool = k.m.pool /\ pt = k.m.pt
      /\ space = [t \in Tasks |-> 0]
      /\ heap_cur = [t \in Tasks |-> HeapStart]
      /\ frames = {} /\ strayed = {}

(* new_space: the higher half is the kernel's.  AddressSpace() does not    *)
(* test calloc, and the first write to the missing pml4 faults.            *)
NewSpace(t) ==
  LET r == NewTable(Memory)
  IN  /\ phase[t] = "new"
      /\ phase' = [phase EXCEPT ![t] = "loading"]
      /\ IF r.page = 0
           THEN Becomes(r.m) /\ halted' = TRUE /\ UNCHANGED space
           ELSE /\ Becomes([r.m EXCEPT !.pt[r.page] =
                             [i \in Index |-> IF i \in HigherHalf THEN pt[kernel_space][i] ELSE 0]])
                /\ space' = [space EXCEPT ![t] = r.page]
                /\ UNCHANGED halted
      /\ UNCHANGED <<kernel_space, heap_cur, frames, strayed, cr3>>

(* The space whose own tables map v when it is mapped in pml4. *)
OwnerOf(pml4, v) == IF IsKernel(v) THEN kernel_space ELSE pml4

(* Pages to be mapped at v: they are allocated first, then mapped one by   *)
(* one; the pages stay allocated when map does nothing.  A null result is  *)
(* used like any other: the pages from physical page 0 on are mapped.      *)
AllocAndMap(pml4, v, n) ==
  LET a == AllocPages(pool, n)
  IN  /\ Becomes(MapRange([pool |-> a.pool, pt |-> pt], pml4, v, a.page, n))
      /\ IF a.page = 0
           THEN strayed' = strayed \cup {OwnerOf(pml4, w) : w \in Span(v, n)} /\ UNCHANGED frames
           ELSE frames' = frames \cup Span(a.page, n) /\ UNCHANGED strayed

NoRun(n) == Runs(pool, n) = {}

(* Elf::load, a PT_LOAD header: without memory the load is given up, and   *)
(* nothing changes.                                                        *)
LoadSegment(t) ==
  /\ phase[t] = "loading"
  /\ Translate(pt, space[t], Segment) = 0 /\ ~NoRun(1)
  /\ AllocAndMap(space[t], Segment, 1)
  /\ UNCHANGED <<kernel_space, space, phase, heap_cur, cr3, halted>>

(* Task::create of a user task and the heap_cur kernel_main gives it.  A   *)
(* failed allocation is not tested: the task runs on the memory at         *)
(* physical page 0.  (What create writes to the stack, here the end of     *)
(* page StackPages - 1, is not modelled.)                                  *)
CreateTask(t) ==
  /\ phase[t] = "loading"
  /\ AllocAndMap(space[t], UserStack, StackPages)
  /\ phase' = [phase EXCEPT ![t] = "running"]
  /\ heap_cur' = [heap_cur EXCEPT ![t] = HeapStart]
  /\ UNCHANGED <<kernel_space, space, cr3, halted>>

(* sys_mmap, by the executing task: size \div PAGE_SIZE pages are mapped   *)
(* (none when the size is less than a page: alloc(0) is nullptr), at the   *)
(* page of heap_cur or of the hint, and heap_cur moves by the whole size.  *)
(* A failed allocation is not tested here either.                          *)
Mmap(t, hint, size) ==
  /\ phase[t] = "running" /\ cr3 = space[t]
  /\ heap_cur[t] + size <= HeapTop
  /\ AllocAndMap(space[t], (IF hint = 0 THEN heap_cur[t] ELSE hint) \div PAGE_SIZE,
                 size \div PAGE_SIZE)
  /\ heap_cur' = [heap_cur EXCEPT ![t] = @ + size]
  /\ UNCHANGED <<kernel_space, space, phase, cr3, halted>>

(* The spaces schedule() may load; the kernel's own tasks use spaces with  *)
(* the higher half of kernel_space and nothing else.                       *)
Spaces == {kernel_space} \cup {space[t] : t \in {u \in Tasks : phase[u] = "running"}}

(* Mutant: the CPU stays in the space of the dead task. *)
NextSpaceStays(t) == {cr3}

NextSpace(t) == Spaces \ {space[t]}

(* kill_and_yield: ~Task frees the pages of the stack that virt_to_phys    *)
(* finds (its walk adds missing tables) and the tables of the space;       *)
(* schedule() then loads another space, all with interrupts off.  When the *)
(* stack was never mapped, free gets UINT64_MAX and faults.  When the      *)
(* stack is the memory at physical page 0, those pages become free,        *)
(* whoever uses them: no step is modelled after this one.                  *)
Exit(t) ==
  LET r == VirtToPte(Memory, space[t], UserStack)
      entry == IF r.page = 0 THEN 0 ELSE r.m.pt[r.page][Offset(UserStack, 1)]
      stack == Span(entry - 1, StackPages)
      dead == DestroyPml(r.m.pt, space[t])
  IN  /\ phase[t] = "running" /\ cr3 = space[t]
      /\ IF entry = 0
           THEN Becomes(r.m) /\ halted' = TRUE /\ UNCHANGED <<space, phase, frames, strayed, cr3>>
           ELSE /\ Becomes([pool |-> r.m.pool \cup stack \cup dead,
                            pt |-> [q \in DOMAIN r.m.pt \ dead |-> r.m.pt[q]]])
                /\ frames' = IF entry = Entry(0) THEN frames ELSE frames \ stack
                /\ space' = [space EXCEPT ![t] = 0]
                /\ phase' = [phase EXCEPT ![t] = "dead"]
                /\ strayed' = strayed \ {space[t]}
                /\ cr3' \in NextSpace(t)
                /\ halted' = (entry = Entry(0))
      /\ UNCHANGED <<kernel_space, heap_cur>>

(* switch_space, by schedule(). *)
SwitchSpace(pml4) ==
  /\ pml4 # cr3
  /\ cr3' = pml4
  /\ UNCHANGED <<poolVars, pt, kernel_space, space, phase, heap_cur, frames, strayed>>

VmmNext(tasks) ==
  \/ \E t \in tasks : NewSpace(t) \/ LoadSegment(t) \/ CreateTask(t) \/ Exit(t)
  \/ \E t \in tasks, hint \in Hints, size \in MmapSizes : Mmap(t, hint, size)
  \/ \E pml4 \in Spaces : SwitchSpace(pml4)
-----------------------------------------------------------------------------
UserSpaces == {space[t] : t \in Tasks} \ {0}

(* The kernel's half looks the same from every address space, also after a *)
(* mapping is added to it while other spaces exist ("the higher half has   *)
(* to be shared amongst all address spaces", vmm.cpp:35).                  *)
HigherHalfShared ==
  \A pml4 \in UserSpaces, v \in VirtualPages :
    IsKernel(v) => Translate(pt, pml4, v) = Translate(pt, kernel_space, v)

(* Every table belongs to exactly one space or to the kernel, and no table *)
(* is left over: destroy_pml frees all tables of the space, and none that  *)
(* another space still uses.                                               *)
OwnTables(s) == Tree(pt, s, LowerHalf)
KernelTables == Tree(pt, kernel_space, HigherHalf)
TablesOwned ==
  /\ DOMAIN pt = KernelTables \cup UNION {OwnTables(s) : s \in UserSpaces}
  /\ \A s \in UserSpaces : OwnTables(s) \cap KernelTables = {}
  /\ \A s, u \in UserSpaces : s # u => OwnTables(s) \cap OwnTables(u) = {}

(* A page that some space maps is allocated, and mapped nowhere else: no   *)
(* task can reach the memory of another one, a table, or memory that was   *)
(* freed under it.  This is so except in a space that got pages from       *)
(* physical page 0 on when memory ran out, and there the pages that nobody *)
(* allocated are the first of the machine, as many as one request has:     *)
(* everything else such a space maps is its own.                           *)
Mapped(s, v) == Translate(pt, s, v) # 0
Mappings ==
  {m \in UserSpaces \X VirtualPages : ~IsKernel(m[2]) /\ Mapped(m[1], m[2])}
  \cup {<<kernel_space, v>> : v \in {v \in VirtualPages \ Span(KernelBase, KernelPages) :
                                       IsKernel(v) /\ Mapped(kernel_space, v)}}
Frame(m) == Translate(pt, m[1], m[2]) - 1
LowFrames == Span(0, MaxMmap) \cup Span(0, StackPages)
FramesExclusive ==
  \A m \in Mappings :
    LET low == Frame(m) \in LowFrames
    IN  /\ Frame(m) \in frames \/ (low /\ m[1] \in strayed)
        /\ \A n \in Mappings :
             m # n /\ Frame(n) = Frame(m) => low /\ (m[1] \in strayed \/ n[1] \in strayed)
=============================================================================
