-------------------------------- MODULE DmaBuf -------------------------------
(***************************************************************************)
(* kernel/dmabuf.c: reference-counted buffers, used by several CPUs under  *)
(* one Spinlock, with pages and handles from PageAllocator.                *)
(*                                                                         *)
(* A handle is its id; `list` is the order of the handles linked from      *)
(* dmabuf_list, newest first.  A call runs from Begin to the return of     *)
(* spin_unlock; its locked part is one step, taken when the lock is held,  *)
(* because the variables in it are read and written by nobody else; but    *)
(* dmabuf_create calls kmalloc before, as the page allocator has no lock.  *)
(* dmabuf_unref has two locked parts: the second is dmabuf_free.           *)
(*                                                                         *)
(* The callers keep the rules of a counted pointer: who created a buffer   *)
(* or called dmabuf_ref has one reference, gives it back once, and calls   *)
(* dmabuf_ref on a pointer dmabuf_get returned.  dmabuf_get itself takes   *)
(* no reference, so the buffer may be dead by then: `late` records that    *)
(* dmabuf_ref revived a buffer whose count was zero, and the behaviour is  *)
(* followed no further.  Likewise where a page handed out lies in the part *)
(* of the kmalloc heap in use.                                             *)
(***************************************************************************)
EXTENDS Spinlock, PageAllocator, Sequences

CONSTANTS
    Dma, Other,     \* clients of the page allocator: dmabuf.c, everybody else
    HandleWords,    \* words of a dmabuf_handle_t
    MaxBufs,        \* bound on handles created
    RefLimit        \* ref_count is a number below this (2^32)

ASSUME DmaAssumption ==
    /\ Dma \in Clients /\ Other \in Clients /\ Dma # Other
    /\ HandleWords \in Nat \ {0}
    /\ MaxBufs \in Nat
    /\ RefLimit \in Nat \ {0}
    /\ IsFiniteSet(CPUs) /\ Cardinality(CPUs) < RefLimit

VARIABLES
    list,       \* the linked handles
    created,    \* next_dmabuf_id - 1
    refs,       \* ref_count of each handle
    page,       \* vaddr of each handle
    has,        \* the handles each CPU has a reference to
    seen,       \* the handle dmabuf_get last returned to each CPU
    call,       \* what each CPU is doing: [op, h]
    late

bufVars == <<list, created, refs, page>>
userVars == <<has, seen>>
vars == <<lockVars, mmVars, bufVars, userVars, call, late>>

Handles == 1 .. MaxBufs
NULL == 0
Idle == [op |-> "none", h |-> NULL]
Calls == {Idle} \cup [op : {"create", "page"}, h : {NULL}]
         \cup [op : {"get", "ref", "unref", "free"}, h : Handles]

\* dmabuf_init.
Init ==
    /\ LockInit /\ MMInit
    /\ list = <<>>
    /\ created = 0
    /\ refs = [h \in Handles |-> 0]
    /\ page = [h \in Handles |-> NULL]
    /\ has = [c \in CPUs |-> {}]
    /\ seen = [c \in CPUs |-> NULL]
    /\ call = [c \in CPUs |-> Idle]
    /\ late = FALSE

HeapInUse == {BitmapPages + HeapPages + (w \div PageWords) : w \in 0 .. heapPtr - 1}
Followed == ~late /\ HeapInUse \cap HeldFrames = {}

-----------------------------------------------------------------------------
\* What CPU c may ask for.
Askable(c) ==
    {r \in [op : {"create"}, h : {NULL}] : created < MaxBufs}
    \cup [op : {"get"}, h : 1 .. created]
    \cup [op : {"ref"}, h : {seen[c]} \ ({NULL} \cup has[c])]
    \cup [op : {"unref"}, h : has[c]]

Begin(c) ==
    /\ Followed /\ SpinLock(c)
    /\ call[c] = Idle
    /\ \E r \in Askable(c) : call' = [call EXCEPT ![c] = r]
    /\ UNCHANGED <<mmVars, bufVars, userVars, late>>

\* dmabuf_unref found the count at zero and calls dmabuf_free.
BeginFree(c) ==
    /\ Followed /\ SpinLock(c)
    /\ call[c].op = "free"
    /\ UNCHANGED <<mmVars, bufVars, userVars, call, late>>

Returns(c) == call' = [call EXCEPT ![c] = Idle]
Inside(c, op) == Followed /\ call[c].op = op /\ SpinUnlock(c)

Linked == {list[i] : i \in 1 .. Len(list)}

AllocHandle(c) ==
    /\ Followed /\ pc[c] = "critical" /\ call[c].op = "create"
    /\ Kmalloc(HandleWords)
    /\ call' = [call EXCEPT ![c] = [op |-> "page", h |-> NULL]]
    /\ UNCHANGED <<lockVars, bufVars, userVars, late>>

AllocHandleFails(c) ==
    /\ Inside(c, "create")
    /\ heapPtr + HandleWords > HeapWords
    /\ Returns(c)
    /\ UNCHANGED <<mmVars, bufVars, userVars, late>>

Create(c) ==
    /\ Inside(c, "page")
    /\ created < MaxBufs
    /\ PageAlloc(Dma)
    /\ \E i \in Bits : FirstClear(i) /\ page' = [page EXCEPT ![created + 1] = Frame(i)]
    /\ created' = created + 1
    /\ refs' = [refs EXCEPT ![created + 1] = 1]
    /\ list' = <<created + 1>> \o list
    /\ has' = [has EXCEPT ![c] = @ \cup {created + 1}]
    /\ Returns(c)
    /\ UNCHANGED <<seen, late>>

\* kfree gives nothing back.
CreateFails(c) ==
    /\ Inside(c, "page")
    /\ NoFreePage
    /\ Returns(c)
    /\ UNCHANGED <<mmVars, bufVars, userVars, late>>

\* dmabuf_get; a handle not in the list is not found.
Get(c) ==
    /\ Inside(c, "get")
    /\ seen' = [seen EXCEPT ![c] = IF call[c].h \in Linked THEN call[c].h ELSE NULL]
    /\ Returns(c)
    /\ UNCHANGED <<mmVars, bufVars, has, late>>

\* Mutant of Counted: the reference of a looked-up buffer is not counted.
NotCounted(h) == refs

Counted(h) == [refs EXCEPT ![h] = (@ + 1) % RefLimit]

Ref(c) ==
    /\ Inside(c, "ref")
    /\ refs' = Counted(call[c].h)
    /\ late' = (refs[call[c].h] = 0)
    /\ has' = [has EXCEPT ![c] = @ \cup {call[c].h}]
    /\ Returns(c)
    /\ UNCHANGED <<mmVars, list, created, page, seen>>

\* Mutant of ShouldFree: off by one.
ShouldFreeEarly(h) == refs[h] - 1 <= 1

ShouldFree(h) == (refs[h] - 1) % RefLimit = 0

Unref(c) ==
    /\ Inside(c, "unref")
    /\ LET h == call[c].h IN
         /\ refs' = [refs EXCEPT ![h] = (@ - 1) % RefLimit]
         /\ has' = [has EXCEPT ![c] = @ \ {h}]
         /\ call' = [call EXCEPT ![c] = IF ShouldFree(h) THEN [op |-> "free", h |-> h] ELSE Idle]
    /\ UNCHANGED <<mmVars, list, created, page, seen, late>>

\* Mutant of Unlinked: the walk stops at the first handle.
UnlinkedFirst(h) == IF list # <<>> /\ Head(list) = h THEN Tail(list) ELSE list

Unlinked(h) ==
    IF h \in Linked
    THEN LET i == CHOOSE j \in 1 .. Len(list) : list[j] = h
         IN  SubSeq(list, 1, i - 1) \o SubSeq(list, i + 1, Len(list))
    ELSE list

\* kfree leaves the handle's memory as it is.
Free(c) ==
    /\ Inside(c, "free")
    /\ list' = Unlinked(call[c].h)
    /\ ReleaseBits(page[call[c].h])
    /\ held' = [held EXCEPT ![Dma] = @ \ {page[call[c].h]}]
    /\ Returns(c)
    /\ UNCHANGED <<heapPtr, created, refs, page, userVars, late>>

\* The lock's own steps, interrupts, and the page allocator's other callers.
LockWork(c) ==
    /\ Followed
    /\ LockStep(c) \/ Interrupt(c)
    /\ UNCHANGED <<mmVars, bufVars, userVars, call, late>>

OtherPages ==
    /\ Followed
    /\ PageAlloc(Other) \/ PageFree(Other)
    /\ UNCHANGED <<lockVars, bufVars, userVars, call, late>>

Next ==
    \/ \E c \in CPUs :
         \/ Begin(c) \/ BeginFree(c)
         \/ AllocHandle(c) \/ AllocHandleFails(c) \/ Create(c) \/ CreateFails(c)
         \/ Get(c) \/ Ref(c) \/ Unref(c) \/ Free(c)
         \/ LockWork(c)
    \/ OtherPages

Spec == Init /\ [][Next]_vars

-----------------------------------------------------------------------------
Freeing(h) == {c \in CPUs : call[c] = [op |-> "free", h |-> h]}

BufTypes ==
    /\ list \in Seq(Handles)
    /\ created \in 0 .. MaxBufs
    /\ refs \in [Handles -> 0 .. RefLimit - 1]
    /\ page \in [Handles -> Frames \cup {NULL}]
    /\ has \in [CPUs -> SUBSET Handles]
    /\ seen \in [CPUs -> Handles \cup {NULL}]
    /\ call \in [CPUs -> Calls]
    /\ late \in BOOLEAN

BufTypeOK == LockTypeOK /\ MMTypeOK /\ BufTypes

\* ref_count is the number of references callers have not given back, although
\* calls of several CPUs change it and its test in dmabuf_unref is used after the
\* lock was dropped (kernel/dmabuf.c dmabuf_create, dmabuf_ref, dmabuf_unref).
RefsCounted == \A h \in Handles : refs[h] = Cardinality({c \in CPUs : h \in has[c]})

\* However unrefs race, a buffer somebody has a reference to is linked, and a
\* linked one without references is about to be freed, by exactly one CPU; so no
\* buffer leaks and none is freed twice (kernel/dmabuf.c dmabuf_unref,
\* dmabuf_free).  Only up to the first dmabuf_ref of a buffer whose count is zero,
\* which nothing in the code excludes after a dmabuf_get: such a buffer is freed
\* with a reference.
LinkedWhileReferenced ==
    late \/ \A h \in Handles :
              /\ refs[h] > 0 => h \in Linked /\ Freeing(h) = {}
              /\ refs[h] = 0 /\ h \in Linked => \E c \in CPUs : Freeing(h) = {c}
              /\ h \notin Linked => Freeing(h) = {}

\* Every linked buffer has a page of its own, and the subsystem keeps no page of
\* a buffer that is gone, whatever allocation failed and whoever else allocates
\* (kernel/dmabuf.c dmabuf_create, dmabuf_free; kernel/mm.c).
PagesOwned ==
    late \/ /\ held[Dma] = {page[h] : h \in Linked}
            /\ \A g, h \in Linked : page[g] = page[h] => g = h
=============================================================================
