------------------------------- MODULE Memory -------------------------------
(***************************************************************************)
(* Memory of user processes: memory objects, the address spaces they are   *)
(* mapped into, user stacks, page faults and page tables, on top of the    *)
(* physical memory manager.  A handler is one step: none of them takes a   *)
(* lock, so the model is of handlers that are not preempted half-way.      *)
(*                                                                         *)
(* Addresses are in pages.  A page table entry of level l covers           *)
(* Fanout^l pages; Levels tables lie under the top-level one.              *)
(***************************************************************************)
EXTENDS PhysicalMemory, MemoryMappingTree, TLC

LOCAL INSTANCE SequencesExt

CONSTANTS Process, Root,   \* Root is the init process, the first one
          Parent,          \* the processes that spawn others
          Program,         \* the processes whose own memory is followed
          Thread,          \* thread ids of a process, 0..
          Fanout, Levels,  \* 512 and 3 in the code
          NextMap, MapLimit, \* where automatic mappings start and end
          Aligns,          \* the alignments asked for, in pages
          StackSize,       \* pages of a user stack
          Code,            \* where programs are loaded: base addresses
          Sizes,           \* sizes of memory objects, in pages
          Bounds,          \* the addresses that unmapped ranges begin or end at
          BootPrograms,    \* sizes of the objects init gets copies in, in pages
          Menus,           \* the sets of handlers that run together, with
                           \* a bound on their number
          MaxObjects       \* bound: memory objects made

kUserSpaceMax == (Fanout ^ (Levels + 1)) \div 2
UserAddr == 1..kUserSpaceMax - 1
DevicePage == 1000         \* a page that no memory region holds
Uninitialized == 2 * kUserSpaceMax \* user_stack_base_ before Init: 0xABAB...

Stacks == {kUserSpaceMax - i * StackSize : i \in 1..Cardinality(Thread)}
Base == Code \cup Stacks \cup NextMap..MapLimit

VARIABLES menu, steps,     \* the handlers that run, and how many have
          m                \* the state, a record of:
                           \*   k       physical memory and the kernel heap
                           \*   obj     the memory objects made so far
                           \*   caps    per process, the objects it can map
                           \*   vcaps   per process, the spaces it can map into
                           \*   proc    per process, Process::state_
                           \*   thread  per process and thread, its life
                           \*   vmas    per process, its AddressSpace
                           \*   leaked  objects that cut-off tree nodes hold
                           \*   stale   history: <<p, vaddr>> of translations
                           \*           left in place by AddressSpaceUnmap,
                           \*           or for a node that was cut off

NoSpace ==
  [cr3 |-> 0, map |-> NoMappings(Base), nextMap |-> NextMap,
   nextStack |-> kUserSpaceMax, freed |-> <<>>, tables |-> <<>>, pte |-> <<>>]

MemInit ==
  /\ menu \in Menus /\ steps = 0
  /\ m = [k |-> BootState, obj |-> <<>>, caps |-> [p \in Process |-> {}],
       vcaps |-> [p \in Process |-> {}], proc |-> [p \in Process |-> "none"],
       thread |-> [p \in Process |-> [t \in Thread |->
                     [state |-> "none", stack |-> Uninitialized, kstack |-> 0,
                      queued |-> FALSE]]],
       vmas |-> [p \in Process |-> NoSpace], leaked |-> {}, stale |-> {}]

----------------------------------------------------------------------------
(* Memory objects.                                                         *)

Mapped(v) == {v.map.obj[n] : n \in Nodes(v.map.tree)}

HasSpace(s, p) == s.vmas[p].cr3 # 0

Referenced(s, o) ==
  \/ o \in s.leaked
  \/ \E p \in Process : o \in s.caps[p] \/ o \in Mapped(s.vmas[p])

\* The destructors: a variable object frees its pages one by one, a fixed
\* one as a block, a view nothing.
Destroy(s, o) ==
  LET ob == s.obj[o]
      FreeIfUsed(k, page) == IF page = 0 THEN k ELSE FreePage(k, page)
      k1 == CASE ob.kind = "variable" -> FoldLeft(FreeIfUsed, s.k, ob.pages)
              [] ob.kind = "fixed" -> FreePages(s.k, ob.pages[1], Len(ob.pages))
              [] OTHER -> s.k
  IN  [s EXCEPT !.k = k1, !.obj[o].kind = "dead"]

\* References to the objects os are dropped, in this order.
DropReferences(s, os) ==
  FoldLeft(LAMBDA acc, i :
             IF Referenced(s, os[i]) \/ \E j \in i + 1..Len(os) : os[j] = os[i]
             THEN acc ELSE Destroy(acc, os[i]),
           s, [i \in 1..Len(os) |-> i])

AddObject(s, p, kind, pages) ==
  [s EXCEPT !.obj = Append(@, [kind |-> kind, pages |-> pages]),
            !.caps[p] = @ \cup {Len(s.obj) + 1}]

Zeros(n) == [i \in 1..n |-> 0]
Run(base, n) == [i \in 1..n |-> base + i - 1]

\* PageNumberToPhysAddr, page number n from 0: the page is in s.k.ret.
PageNumberToPhysAddr(s, o, n) ==
  LET page == s.obj[o].pages[n + 1]
      k1 == AllocatePage(s.k)
  IN  IF page # 0 THEN [s EXCEPT !.k.ret = page]
      ELSE [s EXCEPT !.k = k1, !.obj[o].pages[n + 1] = k1.ret]

----------------------------------------------------------------------------
(* Page tables.                                                            *)

\* The table of level l (0 the last one) on the way to vaddr.
Table(l, vaddr) == <<l, vaddr \div (Fanout ^ (l + 1))>>

\* MapPage: the missing tables from the top down, then the entry.
MapPage(s, p, vaddr, page) ==
  LET add(acc, i) ==
        LET t == Table(Levels - i, vaddr)
            k1 == AllocatePage(acc.k)
        IN  IF t \in DOMAIN acc.vmas[p].tables THEN acc
            ELSE [acc EXCEPT !.k = k1, !.vmas[p].tables = @ @@ t :> k1.ret]
      s1 == FoldLeft(add, s, [i \in 1..Levels |-> i])
  IN  IF vaddr \in DOMAIN s.vmas[p].pte
      THEN [s EXCEPT !.k = Panic(@, "Page already allocated.")]
      ELSE [s1 EXCEPT !.vmas[p].pte = @ @@ vaddr :> page]

\* UnmapPage for every page of the range, and for the one behind it.
UnmapPages(s, p, base, limit) ==
  [s EXCEPT !.vmas[p].pte = [a \in DOMAIN @ \ (base..limit) |-> @[a]],
            !.stale = @ \ ({p} \X (base..limit))]

RECURSIVE CleanupPageStructure(_, _, _, _)

\* Children first: only those in the first half of the table are visited.
CleanupPageStructure(k, tables, l, x) ==
  LET child(acc, i) ==
        IF <<l - 1, x * Fanout + i - 1>> \in DOMAIN tables
        THEN CleanupPageStructure(acc, tables, l - 1, x * Fanout + i - 1)
        ELSE acc
      k1 == IF l = 0 THEN k
            ELSE FoldLeft(child, k, [i \in 1..Fanout \div 2 |-> i])
  IN  FreePage(k1, tables[<<l, x>>])

\* Only the first quarter of the top-level table is visited.
CleanupPml4(k, v) ==
  LET top(acc, i) ==
        IF <<Levels - 1, i - 1>> \in DOMAIN v.tables
        THEN CleanupPageStructure(acc, v.tables, Levels - 1, i - 1)
        ELSE acc
  IN  FreePage(FoldLeft(top, k, [i \in 1..Fanout \div 4 |-> i]), v.cr3)

----------------------------------------------------------------------------
(* Address spaces.                                                         *)

Size(s, o) == Len(s.obj[o].pages)

\* The translations that are present for addresses in a set.
Present(s, p, addrs) == {p} \X (addrs \cap DOMAIN s.vmas[p].pte)

\* The tree that FreeMemoryRange leaves, f its result: the freed mappings
\* drop their objects, those of nodes that were cut off are never dropped.
KeepMappings(s, p, f) ==
  LET map == s.vmas[p].map
      lost == Nodes(map.tree) \ (Nodes(f.tree) \cup ToSet(f.freed))
      cut == UNION {n..map.limit[n] - 1 : n \in lost}
  IN  DropReferences([s EXCEPT !.vmas[p].map.tree = f.tree,
                               !.vmas[p].map.pinned = f.pinned,
                               !.leaked = @ \cup {map.obj[n] : n \in lost},
                               !.stale = @ \cup Present(s, p, cut)],
                     [i \in 1..Len(f.freed) |-> map.obj[f.freed[i]]])

\* FreeAddressRange: an error, unless the range cuts no mapping.
FreeAddressRange(s, p, base, limit, dying) ==
  LET s1 == KeepMappings(s, p, FreeMemoryRange(s.vmas[p].map, base, limit))
  IN  IF ~CanFree(s.vmas[p].map, base, limit) THEN s
      ELSE IF dying THEN s1
      ELSE UnmapPages(s1, p, base, limit)

\* Mutant: the list keeps the stack.
NewUserStackPeeks(v) ==
  IF v.freed # <<>> THEN [v EXCEPT !.cr3 = @]
  ELSE [v EXCEPT !.nextStack = @ - StackSize]

NewUserStack(v) ==
  IF v.freed # <<>> THEN [v EXCEPT !.freed = Tail(@)]
  ELSE [v EXCEPT !.nextStack = @ - StackSize]

StackOf(v) == IF v.freed # <<>> THEN Head(v.freed) ELSE v.nextStack - StackSize

\* AllocateUserStack; Thread::Init panics when the address is taken.
AllocateUserStack(s, p, t) ==
  LET base == StackOf(s.vmas[p])
      o == Len(s.obj) + 1
      v == NewUserStack(s.vmas[p])
      map == AddInMemoryObject(v.map, base, StackSize, o)
  IN  IF ~CanAddIn(v.map, base, StackSize)
      THEN [s EXCEPT !.k = Panic(@, "Unable to allocate user stack")]
      ELSE [s EXCEPT !.obj = Append(@, [kind |-> "variable", pages |-> Zeros(StackSize)]),
                     !.vmas[p] = [v EXCEPT !.map = map],
                     !.thread[p][t].stack = base,
                     !.thread[p][t].state = "running"]

\* The stack goes to the freed ones only if its range can be unmapped;
\* Thread::Cleanup panics otherwise.
ReturnUserStack(s, p, base, dying) ==
  IF CanFree(s.vmas[p].map, base, base + StackSize)
  THEN [FreeAddressRange(s, p, base, base + StackSize, dying)
          EXCEPT !.vmas[p].freed = Append(@, base)]
  ELSE [s EXCEPT !.k = Panic(@, "Unable to free user stack.")]

\* Mutant: a user stack is unmapped as if the process were dying.
FreeUserStackDying(s, p, base) == ReturnUserStack(s, p, base, TRUE)

FreeUserStack(s, p, base) == ReturnUserStack(s, p, base, FALSE)

\* GetNextMemMapAddr: the next address that is a multiple of align.
NextMemMapAddr(v, align) ==
  IF align = 0 THEN v.nextMap
  ELSE CHOOSE a \in v.nextMap..v.nextMap + align - 1 : a % align = 0

\* MapInMemoryObject, at an address or, with vaddr = 0, at the next one.
MapInMemoryObject(s, p, o, vaddr, align) ==
  LET v == s.vmas[p]
      at == IF vaddr = 0 THEN NextMemMapAddr(v, align) ELSE vaddr
      s1 == IF vaddr = 0 THEN [s EXCEPT !.vmas[p].nextMap = at + Size(s, o)] ELSE s
  IN  IF s1.vmas[p].nextMap >= MapLimit THEN [s EXCEPT !.k = Panic(@, "OOM: Memmap")]
      ELSE IF ~CanAddIn(v.map, at, Size(s, o)) THEN s1
      ELSE [s1 EXCEPT !.vmas[p].map = AddInMemoryObject(@, at, Size(s, o), o)]

\* The destructor: the page tables, then the tree, which its parent
\* pointers keep alive unless it is a single node.
DestroySpace(s, p) ==
  LET v == s.vmas[p]
      s1 == [s EXCEPT !.k = CleanupPml4(@, v), !.vmas[p] = NoSpace,
                      !.stale = {q \in @ : q[1] # p}]
  IN  IF Cardinality(Nodes(v.map.tree)) = 1 /\ v.map.pinned = {}
      THEN DropReferences(s1, SetToSeq(Mapped(v)))
      ELSE [s1 EXCEPT !.leaked = @ \cup Mapped(v)]

\* The space goes with its last reference: the process's, or a capability.
DropSpace(s, p) ==
  IF \E q \in Process : p \in s.vcaps[q] THEN s
  ELSE IF s.proc[p] # "finished" THEN s
  ELSE DestroySpace(s, p)

\* Process::Process with its address space.
NewProcess(s, p) ==
  LET k1 == AllocatePage(s.k)
  IN  [s EXCEPT !.k = k1, !.vmas[p].cr3 = k1.ret, !.proc[p] = "running"]

----------------------------------------------------------------------------
(* The steps.  A panic stops the machine.                                  *)

Running(p) == m.k.panic = "" /\ m.proc[p] = "running"

Boot == m.k.panic = "" /\ \A p \in Process : m.proc[p] = "none"

InitKernelVmm ==
  /\ Boot /\ m.k.slab = {}
  /\ m' = [m EXCEPT !.k = KernelVmm(@)]

InitPmm ==
  /\ Boot /\ m.k.slab # {} /\ ~m.k.up
  /\ m' = [m EXCEPT !.k = InitPhysicalMemoryManager(@)]

\* CopyBytesToObject gives every page of the object that is written a page.
CopyBytesToObject(s, o) ==
  FoldLeft(LAMBDA acc, i : PageNumberToPhysAddr(acc, o, i - 1), s,
           [i \in 1..Size(s, o) |-> i])

\* LoadElfProgram: one segment of the program, in an object that only the
\* mapping refers to.
LoadElfProgram(s, p, vaddr, size) ==
  LET o == Len(s.obj) + 1
      s1 == [s EXCEPT !.obj = Append(@, [kind |-> "variable", pages |-> Zeros(size)])]
  IN  MapInMemoryObject(CopyBytesToObject(s1, o), p, o, vaddr, 0)

CreateThread(s, p, t) ==
  LET k1 == AllocateKernelStack(s.k)
  IN  [s EXCEPT !.k = k1, !.thread[p][t].kstack = k1.ret, !.thread[p][t].state = "created"]

\* What init finds in its port: copies of programs and of the framebuffer's
\* description, and a view of the PCI configuration space.
WriteInitProgram(s, size) ==
  CopyBytesToObject(AddObject(s, Root, "variable", Zeros(size)), Len(s.obj) + 1)

WritePciVmmo(s) == AddObject(s, Root, "view", Run(DevicePage, 1))

LoadInitProgram ==
  /\ Boot /\ m.k.up
  /\ LET base == CHOOSE b \in Code : TRUE
         size == CHOOSE n \in Sizes : TRUE
         s1 == WritePciVmmo(FoldLeft(WriteInitProgram, NewProcess(m, Root), BootPrograms))
     IN  m' = CreateThread(LoadElfProgram(s1, Root, base, size), Root, 0)

ProcessSpawn(p, q) ==
  /\ Running(p) /\ m.proc[q] = "none"
  /\ m' = [NewProcess(m, q) EXCEPT !.vcaps[p] = @ \cup {q}]

\* The parent starts the first thread, the process itself the others.
ThreadCreate(p, t) ==
  /\ Running(p) /\ m.thread[p][t].state = "none"
  /\ t # 0 => m.thread[p][t - 1].state \notin {"none", "created"}
  /\ m' = CreateThread(m, p, t)

ThreadInit(p, t) ==
  /\ Running(p) /\ m.thread[p][t].state = "created"
  /\ Len(m.obj) < MaxObjects
  /\ m' = AllocateUserStack(m, p, t)

Cleanup(s, p, t) ==
  LET th == s.thread[p][t]
      s1 == FreeUserStack(s, p, th.stack)
  IN  [s1 EXCEPT !.k = FreeKernelStack(@, th.kstack), !.thread[p][t].state = "finished"]

\* Thread::Exit puts the thread on thread_list_, from which the cleanup
\* thread takes it when it gets there.
ThreadExit(p, t) ==
  /\ Running(p) /\ m.thread[p][t].state = "running"
  /\ m' = [m EXCEPT !.thread[p][t].state = "cleanup", !.thread[p][t].queued = TRUE]

\* Process::Cleanup may have been there before, with all of its threads:
\* Thread::Cleanup then follows the null vmas_ of the process.
ThreadCleanup(p, t) ==
  LET s == [m EXCEPT !.thread[p][t].queued = FALSE]
  IN  /\ m.k.panic = "" /\ m.thread[p][t].queued
      /\ m' = IF m.proc[p] = "finished" THEN [s EXCEPT !.k = Panic(@, "PF")]
              ELSE Cleanup(s, p, t)

ProcessExit(p) ==
  /\ Running(p) /\ p # Root
  /\ m' = [m EXCEPT !.proc[p] = "cleanup",
                    !.thread[p] = [t \in Thread |->
                      IF @[t].state \in {"created", "running"}
                      THEN [@[t] EXCEPT !.state = "cleanup"] ELSE @[t]]]

\* Process::Cleanup: threads, capabilities, mappings, the address space.
ProcessCleanup(p) ==
  LET dying == SelectSeq([i \in 1..Cardinality(Thread) |-> i - 1],
                         LAMBDA t : m.thread[p][t].state = "cleanup")
      s1 == FoldLeft(LAMBDA acc, t : Cleanup(acc, p, t), m, dying)
      s2 == DropReferences([s1 EXCEPT !.caps[p] = {}], SetToSeq(m.caps[p]))
      s3 == FreeAddressRange(s2, p, 0, kUserSpaceMax, TRUE)
  IN  /\ m.k.panic = "" /\ m.proc[p] = "cleanup"
      /\ m' = IF CanFree(s2.vmas[p].map, 0, kUserSpaceMax)
              THEN DropSpace([s3 EXCEPT !.proc[p] = "finished"], p)
              ELSE [s2 EXCEPT !.k = Panic(@, "Failed to cleanup")]

CanMake(p) == Running(p) /\ Len(m.obj) < MaxObjects

MemoryObjectCreate(p) ==
  /\ CanMake(p)
  /\ \E n \in Sizes : m' = AddObject(m, p, "variable", Zeros(n))

MemoryObjectCreateContiguous(p) ==
  /\ CanMake(p)
  /\ \E n \in Sizes :
       LET k1 == AllocateContinuous(m.k, n)
       IN  m' = AddObject([m EXCEPT !.k = k1], p, "fixed", Run(k1.ret, n))

MemoryObjectCreatePhysical(p) ==
  /\ CanMake(p)
  /\ \E n \in Sizes : m' = AddObject(m, p, "view", Run(DevicePage, n))

\* Only a view can be duplicated, and only inside its bounds.
MemoryObjectDuplicate(p) ==
  /\ CanMake(p)
  /\ \E o \in m.caps[p], offset \in 0..1, n \in Sizes :
       /\ m.obj[o].kind = "view" /\ offset + n <= Size(m, o)
       /\ m' = AddObject(m, p, "view", Run(m.obj[o].pages[1] + offset, n))

\* The spaces that p has a capability to.
CanUse(p, q) == HasSpace(m, q) /\ q \in m.vcaps[p] \cup ({p} \cap Program)

AddressSpaceMap(p, q) ==
  /\ Running(p) /\ CanUse(p, q)
  /\ \E o \in m.caps[p], vaddr \in {0} \cup Code, align \in Aligns :
       m' = MapInMemoryObject(m, q, o, vaddr, align)

\* Any range; the translations stay, as in a dying process.
AddressSpaceUnmap(p, q, lower, upper) ==
  LET s == FreeAddressRange(m, q, lower, upper, TRUE)
  IN  /\ Running(p) /\ CanUse(p, q)
      /\ m' = IF CanFree(m.vmas[q].map, lower, upper)
              THEN [s EXCEPT !.stale = @ \cup Present(m, q, lower..upper - 1)]
              ELSE m

\* A message carries a capability to an object from p to q; p may have made
\* a duplicate before and keeps it.
SendCapability(p, q) ==
  /\ Running(p) /\ Running(q)
  /\ \E o \in m.caps[p] \ m.caps[q] : \E kept \in SUBSET {o} :
       m' = [m EXCEPT !.caps[p] = (@ \ {o}) \cup kept, !.caps[q] = @ \cup {o}]

CapRelease(p) ==
  /\ Running(p)
  /\ \/ \E o \in m.caps[p] : m' = DropReferences([m EXCEPT !.caps[p] = @ \ {o}], <<o>>)
     \/ \E q \in m.vcaps[p] : m' = DropSpace([m EXCEPT !.vcaps[p] = @ \ {q}], q)

\* HandlePageFault, for an address without a translation.
HandlePageFault(p, vaddr) ==
  LET v == m.vmas[p]
      n == GetMemoryMappingForAddr(v.map, vaddr)
      s1 == PageNumberToPhysAddr(m, v.map.obj[n], vaddr - n)
  IN  /\ Running(p) /\ vaddr \notin DOMAIN v.pte /\ n # None
      /\ m' = MapPage(s1, p, vaddr, s1.k.ret)

MemStep ==
  \/ InitKernelVmm \/ InitPmm \/ LoadInitProgram
  \/ \E p \in Process :
       \/ "create" \in menu.ops /\ MemoryObjectCreate(p)
       \/ "contiguous" \in menu.ops /\ MemoryObjectCreateContiguous(p)
       \/ "physical" \in menu.ops /\ (MemoryObjectCreatePhysical(p) \/ MemoryObjectDuplicate(p))
       \/ CapRelease(p)
  \/ \E p \in Parent, q \in Process :
       \/ ProcessSpawn(p, q)
       \/ "map" \in menu.ops /\ AddressSpaceMap(p, q)
       \/ "send" \in menu.ops /\ SendCapability(p, q)
  \/ \E p \in Parent \cup Program, q \in Process, lower, upper \in Bounds :
       "unmap" \in menu.ops /\ AddressSpaceUnmap(p, q, lower, upper)
  \/ \E p \in Program :
       \/ "map" \in menu.ops /\ AddressSpaceMap(p, p)
       \/ ProcessExit(p) \/ ProcessCleanup(p)
       \/ \E vaddr \in UserAddr : HandlePageFault(p, vaddr)
       \/ \E t \in Thread :
            /\ "thread" \in menu.ops
            /\ \/ ThreadCreate(p, t) \/ ThreadInit(p, t)
               \/ ThreadExit(p, t) \/ ThreadCleanup(p, t)

MemNext ==
  /\ steps < menu.steps /\ steps' = steps + 1
  /\ MemStep /\ UNCHANGED menu

MemSpec == MemInit /\ [][MemNext]_<<m, steps, menu>>

----------------------------------------------------------------------------
(* Properties.                                                             *)

Owner ==
  KernelHolders(m.k)
    \cup {<<"object", o>> : o \in {i \in 1..Len(m.obj) : m.obj[i].kind \in {"variable", "fixed"}}}
    \cup {<<"space", p>> : p \in {q \in Process : HasSpace(m, q)}}

Owned(h) ==
  CASE h[1] = "object" -> ToSet(m.obj[h[2]].pages) \ {0}
    [] h[1] = "space" -> {m.vmas[h[2]].cr3} \cup
                         {m.vmas[h[2]].tables[t] : t \in DOMAIN m.vmas[h[2]].tables}
    [] OTHER -> KernelHolds(m.k, h)

\* Every page has at most one owner among the free lists, the kernel heap
\* and stacks, the memory objects and the page tables of the address spaces:
\* from the bootstrap allocator's pages, through the lists that the manager
\* keeps in the heap it serves, to the destructors.
PageHasOneOwner ==
  \A g, h \in Owner : g # h => Owned(g) \cap Owned(h) = {}

\* A translation of a process that has not ended leads to the page that the
\* mapped object has for the address, also when a stack was freed there or
\* the address was mapped before (FreeUserStack, UnmapPage, HandlePageFault),
\* unless AddressSpaceUnmap left it in place, or Delete cut its node off.
TranslationsBacked ==
  \A p \in {q \in Process : m.proc[q] # "finished"} : \A a \in DOMAIN m.vmas[p].pte :
    LET v == m.vmas[p]
        n == GetMemoryMappingForAddr(v.map, a)
    IN  \/ <<p, a>> \in m.stale
        \/ n # None /\ v.pte[a] = m.obj[v.map.obj[n]].pages[a - n + 1]

\* The mappings in the tree of an address space do not overlap, and the
\* objects they map are alive (AddInMemoryObject, the reference counts).  "Note
\* this is unsafe for now as it may clobber other mappings", which address_space.h
\* says of MapInMemoryObject, is thus no longer true of the tree.
MappingsDisjoint ==
  \A p \in Process : LET map == m.vmas[p].map IN
    \A a, b \in Nodes(map.tree) :
      /\ m.obj[map.obj[a]].kind # "dead"
      /\ a < b => map.limit[a] <= b

\* A thread of a live process always gets its user stack: a stack address
\* is handed out again only after its mapping is gone.
StackIsFree == m.k.panic # "Unable to allocate user stack"

\* AddressSpaceUnmap removes no mapping outside the range it is given, and
\* the clean-up of a thread none but that of its stack: Delete loses no other
\* node, except those under a node with two children.
FreeKeepsOthers ==
  [][\A p \in Process :
       LET t == m.vmas[p].map.tree
           gone == Nodes(t) \ Nodes(m'.vmas[p].map.tree)
       IN  \/ gone = {}
           \/ \E n \in gone : t.left[n] # None /\ t.right[n] # None
           \/ /\ \A q \in Process, lower, upper \in Bounds :
                   AddressSpaceUnmap(q, p, lower, upper) => gone \subseteq lower..upper - 1
              /\ \A i \in Thread :
                   ThreadCleanup(p, i) => gone \subseteq {m.thread[p][i].stack}]_m
=============================================================================
