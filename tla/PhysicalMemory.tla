--------------------------- MODULE PhysicalMemory ---------------------------
(***************************************************************************)
(* The pages of the machine and the kernel that lives in them: the         *)
(* bootstrap allocator, the physical memory manager, the slab heap and the *)
(* kernel stacks.  They call each other: the manager keeps its lists in    *)
(* the heap, and the heap grows by pages of the manager.                   *)
(*                                                                         *)
(* An operation takes the record k of their state to the next one, with    *)
(* its result in k.ret.  Addresses are page numbers, and the elements of   *)
(* slabs are counted and not named.                                        *)
(***************************************************************************)
EXTENDS Integers, Sequences, FiniteSets

CONSTANTS MemMap,          \* the usable regions: records of base and num
          SlotsPerSlab     \* per size class, the elements of one slab

LOCAL INSTANCE SequencesExt

\* Heap objects by the size class of operator new that they fall into.
PageItem == 16             \* ListItem of single_memory_pages_, free_stacks_
BlockItem == 32            \* ListItem of memory_blocks_: 24 bytes
StackManagerSize == 32     \* KernelStackManager: 24 bytes
PmmSize == 64              \* PhysicalMemoryManager: 40 bytes
Class == {16, 32, 64}

BootstrapPages == 9
kKernelStackPages == 3

\* Page tables that the first page of a kernel region needs: a directory and
\* a table for the heap, a table for the stacks.
TablesNeeded == [slab |-> 2, stack |-> 1]

\* InitBootstrapPageAllocation: the first region that is large enough.
InitPage ==
  MemMap[CHOOSE i \in 1..Len(MemMap) :
           /\ MemMap[i].num >= BootstrapPages
           /\ \A j \in 1..i - 1 : MemMap[j].num < BootstrapPages].base

BootState ==
  [up |-> FALSE, next |-> InitPage, blocks |-> <<>>, singles |-> <<>>,
   slots |-> [c \in Class |-> 0], slab |-> {}, stack |-> {}, tables |-> {},
   stacks |-> 0, freeStacks |-> <<>>, panic |-> "", ret |-> 0]

Panic(k, why) == [k EXCEPT !.panic = IF @ = "" THEN why ELSE @]

BootstrapAllocate(k) ==
  IF k.next = InitPage + BootstrapPages THEN Panic(k, "bootstrap")
  ELSE [k EXCEPT !.ret = k.next, !.next = @ + 1]

\* The blocks of no pages that PopFront drops from the front of the list.
LeadingEmpty(blocks) ==
  {i \in 1..Len(blocks) : \A j \in 1..i : blocks[j].num = 0}

PopEmpty(k) ==
  LET n == Cardinality(LeadingEmpty(k.blocks))
  IN  [k EXCEPT !.blocks = SubSeq(@, n + 1, Len(@)), !.slots[BlockItem] = @ + n]

TakeFrom(k, i, n) ==
  [k EXCEPT !.ret = k.blocks[i].base,
            !.blocks[i] = [base |-> @.base + n, num |-> @.num - n]]

\* A block that has become empty goes at once.
TakeOne(k) ==
  LET Drop(k1) == IF k1.blocks[1].num > 0 THEN k1
                  ELSE [k1 EXCEPT !.blocks = Tail(@), !.slots[BlockItem] = @ + 1]
  IN  Drop(TakeFrom(k, 1, 1))

PmmAllocatePage(k) ==
  IF k.singles # <<>>
  THEN [k EXCEPT !.ret = Head(k.singles), !.singles = Tail(@),
                 !.slots[PageItem] = @ + 1]
  ELSE IF PopEmpty(k).blocks = <<>> THEN Panic(k, "memory")
  ELSE TakeOne(PopEmpty(k))

AllocatePage(k) == IF k.up THEN PmmAllocatePage(k) ELSE BootstrapAllocate(k)

AllocateContinuous(k, n) ==
  LET k1 == PopEmpty(k)
      fits == {i \in 1..Len(k1.blocks) : k1.blocks[i].num >= n}
  IN  IF fits = {} THEN Panic(k, "memory")
      ELSE TakeFrom(k1, CHOOSE i \in fits : \A j \in fits : i <= j, n)

\* AllocateAndZeroPage, n times, for page tables of the kernel.
AllocateTables(k, n) ==
  LET Keep(k1) == [k1 EXCEPT !.tables = @ \cup {k1.ret}]
  IN  FoldLeft(LAMBDA acc, i : Keep(AllocatePage(acc)), k, [i \in 1..n |-> i])

\* EnsureResident for one page of a kernel region: AllocatePageIfNecessary
\* allocates the page before MapPage allocates the tables it misses.
EnsureResident(k, region) ==
  LET Enter(k1) ==
        [(IF k[region] = {} THEN AllocateTables(k1, TablesNeeded[region]) ELSE k1)
         EXCEPT ![region] = @ \cup {k1.ret}]
  IN  Enter(AllocatePage(k))

AcquireSlabHeapRegion(k) == EnsureResident(k, "slab")

\* operator new: an element of a slab of class c, of a new slab if all are full.
New(k, c) ==
  IF k.slots[c] > 0 THEN [k EXCEPT !.slots[c] = @ - 1]
  ELSE [AcquireSlabHeapRegion(k) EXCEPT !.slots[c] = @ + SlotsPerSlab[c] - 1]

\* PushFront allocates the item before it reads front_.
AddMemoryRegion(k, base, num) ==
  [New(k, BlockItem) EXCEPT !.blocks = <<[base |-> base, num |-> num]>> \o @]

\* Mutant: front_ is read before the item is allocated.
FreePageStaleFront(k, page) ==
  [New(k, PageItem) EXCEPT !.singles = <<page>> \o k.singles]

FreePage(k, page) == [New(k, PageItem) EXCEPT !.singles = <<page>> \o @]

FreePages(k, page, num) == AddMemoryRegion(k, page, num)

\* AllocateKernelStack: k.ret is the number of the stack.
AllocateKernelStack(k) ==
  LET Grow(k1, i) == EnsureResident(k1, "stack")
      grown == FoldLeft(Grow, k, [i \in 1..kKernelStackPages |-> i])
  IN  IF k.freeStacks # <<>>
      THEN [k EXCEPT !.ret = Head(k.freeStacks), !.freeStacks = Tail(@),
                     !.slots[PageItem] = @ + 1]
      ELSE [grown EXCEPT !.stacks = @ + 1, !.ret = k.stacks + 1]

FreeKernelStack(k, stack) ==
  [New(k, PageItem) EXCEPT !.freeStacks = <<stack>> \o @]

\* The constructor of KernelVmm: the stack manager and the interrupt stack.
KernelVmm(k) == AllocateKernelStack(New(k, StackManagerSize))

\* One entry of the memory map: of the bootstrap region, what is left.
TakeRegion(k, entry) ==
  LET used == IF entry.base = InitPage THEN k.next - InitPage ELSE 0
  IN  AddMemoryRegion(k, entry.base + used, entry.num - used)

\* gPmm is set when the constructor has returned.
InitPhysicalMemoryManager(k) ==
  [FoldLeft(TakeRegion, New(k, PmmSize), MemMap) EXCEPT !.up = TRUE]

----------------------------------------------------------------------------
PagesOf(base, num) == base..base + num - 1

\* The pages that the lists and the kernel hold, entry by entry.
FreeBlocks(k) == {<<"block", i>> : i \in 1..Len(k.blocks)}
FreeSingles(k) == {<<"single", i>> : i \in 1..Len(k.singles)}

KernelHolds(k, h) ==
  CASE h[1] = "block" -> PagesOf(k.blocks[h[2]].base, k.blocks[h[2]].num)
    [] h[1] = "single" -> {k.singles[h[2]]}
    [] h[1] = "slab" -> k.slab
    [] h[1] = "stack" -> k.stack
    [] h[1] = "tables" -> k.tables

KernelHolders(k) ==
  FreeBlocks(k) \cup FreeSingles(k) \cup {<<"slab">>, <<"stack">>, <<"tables">>}
=============================================================================
