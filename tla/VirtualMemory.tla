---------------------------- MODULE VirtualMemory ----------------------------
(***************************************************************************)
(* kernel/vm.c: four-level page tables in pages of PageAllocator.          *)
(*                                                                         *)
(* `mem` is the contents of the frames, as table entries: NONE (an entry   *)
(* without PTE_VALID) or the frame it points to; in the last level, the    *)
(* physical page.  Mapping a page is one step per table it has to add, so  *)
(* other callers of page_alloc come in between.  vm_init maps the kernel's *)
(* pages this way first.                                                   *)
(*                                                                         *)
(* A kmalloc object is written by whoever asked for it, when he likes; the *)
(* model follows a behaviour until a frame is both in a kmalloc object and *)
(* handed out by page_alloc.                                               *)
(***************************************************************************)
EXTENDS PageAllocator, Sequences

CONSTANTS
    Vm,              \* the client of the page allocator that vm.c is
    EntriesPerTable, \* ENTRIES_PER_TABLE
    VAs,             \* virtual pages used, each a path of four table indices
    PAs,             \* physical pages mappings point to; NONE: flags without PTE_VALID
    KernelMap,       \* what vm_init maps: [va, pa, must], must: it panics on failure
    Junk             \* an entry of memory nobody cleared

NONE == -1
Indices == 0 .. EntriesPerTable - 1

ASSUME VmAssumption ==
    /\ Vm \in Clients
    /\ EntriesPerTable \in Nat \ {0}
    /\ VAs \subseteq [1 .. 4 -> Indices]
    /\ PAs \subseteq Int
    /\ KernelMap \in Seq([va : VAs, pa : PAs, must : BOOLEAN])
    /\ Junk \in Nat

VARIABLES
    mem,        \* the entries in each frame
    pgd,        \* the frame of the top table, NONE before vm_init
    op,         \* the mapping being made: [va, pa, must], or NoOp
    boot        \* entries of KernelMap done; Panicked after a panic

vars == <<mmVars, mem, pgd, op, boot>>

NoOp == <<>>
Panicked == -1
Booting == boot \in 0 .. Len(KernelMap) - 1
Running == boot = Len(KernelMap)

JunkTable == [x \in Indices |-> Junk]
EmptyTable == [x \in Indices |-> NONE]

Init ==
    /\ MMInit
    /\ mem = [f \in Frames |-> JunkTable]
    /\ pgd = NONE
    /\ op = NoOp
    /\ boot = 0

\* The frames that words from .. to - 1 of the heap lie in.
HeapSpan(from, to) ==
    {BitmapPages + HeapPages + (w \div PageWords) : w \in from .. to - 1}
Trampled == HeapSpan(0, heapPtr) \cap HeldFrames # {}

-----------------------------------------------------------------------------
(* The walk: the table reached from pgd along the first n indices of va.    *)
Entry(f, x) == IF f \in Frames THEN mem[f][x] ELSE NONE
TableAt(va, n) ==
    LET t[k \in 0 .. n] == IF k = 0 THEN pgd ELSE Entry(t[k - 1], va[k])
    IN  t[n]

(* vm_va2pa, NONE for its 0.                                                *)
Va2Pa(va) == TableAt(va, 4)

Complete(va) == \A n \in 0 .. 3 : TableAt(va, n) # NONE
(* The first of the three inner levels whose table is missing.              *)
Missing(va, n) == n \in 1 .. 3 /\ TableAt(va, n) = NONE /\ TableAt(va, n - 1) # NONE

(* alloc_table: the next page f, cleared.                                   *)
(* Mutant of Cleared: no memset.                                            *)
NotCleared(f) == mem
Cleared(f) == [mem EXCEPT ![f] = EmptyTable]
AllocTable(f) == PageAlloc(Vm) /\ \E i \in Bits : FirstClear(i) /\ f = Frame(i)

StartVm ==
    /\ ~Trampled /\ pgd = NONE /\ boot = 0
    /\ \E f \in Frames : AllocTable(f) /\ pgd' = f /\ mem' = Cleared(f)
    /\ UNCHANGED <<op, boot>>

StartVmPanics ==
    /\ ~Trampled /\ pgd = NONE /\ boot = 0 /\ NoFreePage
    /\ boot' = Panicked
    /\ UNCHANGED <<mmVars, mem, pgd, op>>

(* map_region goes on to its next page; vm_user_map is called.              *)
BeginBootMap ==
    /\ ~Trampled /\ pgd # NONE /\ Booting /\ op = NoOp
    /\ op' = KernelMap[boot + 1]
    /\ UNCHANGED <<mmVars, mem, pgd, boot>>

BeginUserMap ==
    /\ ~Trampled /\ pgd # NONE /\ Running /\ op = NoOp
    /\ \E va \in VAs, pa \in PAs : op' = [va |-> va, pa |-> pa, must |-> FALSE]
    /\ UNCHANGED <<mmVars, mem, pgd, boot>>

AddTable ==
    /\ ~Trampled /\ op # NoOp
    /\ \E n \in 1 .. 3 :
         /\ Missing(op.va, n)
         /\ \E f \in Frames :
              /\ AllocTable(f)
              /\ mem' = [Cleared(f) EXCEPT ![TableAt(op.va, n - 1)][op.va[n]] = f]
    /\ UNCHANGED <<pgd, op, boot>>

Finished == boot' = IF Booting THEN boot + 1 ELSE boot

\* -1 is returned and the tables added so far stay linked; vm_init panics,
\* except for the GIC region.
MapFails ==
    /\ ~Trampled /\ op # NoOp /\ NoFreePage
    /\ \E n \in 1 .. 3 : Missing(op.va, n)
    /\ op' = NoOp
    /\ IF op.must THEN boot' = Panicked ELSE Finished
    /\ UNCHANGED <<mmVars, mem, pgd>>

SetEntry ==
    /\ ~Trampled /\ op # NoOp /\ Complete(op.va)
    /\ mem' = [mem EXCEPT ![TableAt(op.va, 3)][op.va[4]] = op.pa]
    /\ op' = NoOp
    /\ Finished
    /\ UNCHANGED <<mmVars, pgd>>

UserUnmap ==
    /\ ~Trampled /\ pgd # NONE /\ Running /\ op = NoOp
    /\ \E va \in VAs :
         /\ Complete(va)
         /\ mem' = [mem EXCEPT ![TableAt(va, 3)][va[4]] = NONE]
    /\ UNCHANGED <<mmVars, pgd, op, boot>>

-----------------------------------------------------------------------------
(* The other users of memory, none of which runs before vm_init returns.    *)
OtherAlloc ==
    /\ ~Trampled /\ Running
    /\ \E c \in Clients \ {Vm} : PageAlloc(c)
    /\ UNCHANGED <<mem, pgd, op, boot>>

OtherFree ==
    /\ ~Trampled /\ Running
    /\ \E c \in Clients \ {Vm} : PageFree(c)
    /\ UNCHANGED <<mem, pgd, op, boot>>

HeapObject(words) ==
    /\ ~Trampled /\ Running
    /\ Kmalloc(words)
    /\ mem' = [f \in Frames |-> IF f \in HeapSpan(heapPtr, heapPtr') THEN JunkTable ELSE mem[f]]
    /\ UNCHANGED <<pgd, op, boot>>

Next ==
    \/ StartVm \/ StartVmPanics \/ BeginBootMap \/ BeginUserMap
    \/ AddTable \/ MapFails \/ SetEntry \/ UserUnmap
    \/ OtherAlloc \/ OtherFree
    \/ \E words \in 1 .. HeapWords : HeapObject(words)

Spec == Init /\ [][Next]_vars

-----------------------------------------------------------------------------
TypeOK ==
    /\ MMTypeOK
    /\ mem \in [Frames -> [Indices -> Int]]
    /\ pgd \in held[Vm] \cup {NONE}
    /\ op = NoOp \/ op \in [va : VAs, pa : PAs, must : BOOLEAN]
    /\ boot \in Panicked .. Len(KernelMap)

Translation == [va \in VAs |-> Va2Pa(va)]
AS == INSTANCE AddressSpace WITH map <- Translation

(* The page tables, built and walked step by step while others take and free *)
(* pages, translate as a mapping changed one page at a time: a mapping that  *)
(* fails half way, a table that is added, or a page reused as a table, moves *)
(* no address (kernel/vm.c vm_user_map, vm_user_unmap, vm_va2pa).            *)
MapsAsSpecified == AS!Init /\ [][AS!Next \/ Trampled']_Translation
=============================================================================
