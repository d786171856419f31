---------------------------- MODULE PageAllocator ----------------------------
(***************************************************************************)
(* kernel/mm.c: the bitmap page allocator and the kmalloc heap.            *)
(*                                                                         *)
(* Memory is the page frames from the end of the kernel image: frame f is  *)
(* the page at mem_start + f * PAGE_SIZE (the linker script page-aligns    *)
(* _kernel_end, so page_alloc's _kernel_end and page_free's mem_start are  *)
(* the same address).  Bit i of the bitmap stands for frame i when         *)
(* mm_init marks the reserved pages, and for frame i + bitmap_pages when   *)
(* page_alloc and page_free turn it into an address and back.              *)
(*                                                                         *)
(* The callers are Clients: each holds the frames page_alloc gave it and   *)
(* frees only those.                                                       *)
(***************************************************************************)
EXTENDS Integers, FiniteSets

CONSTANTS
    TotalPages,     \* total_pages
    BitmapPages,    \* bitmap_pages
    HeapPages,      \* HEAP_SIZE / PAGE_SIZE
    BitsPerByte,    \* bits of one bitmap byte (8)
    PageWords,      \* 8-byte words in a page (PAGE_SIZE / 8)
    Clients         \* callers of page_alloc

ASSUME PagesAssumption ==
    /\ TotalPages \in Nat /\ BitmapPages \in Nat \ {0} /\ HeapPages \in Nat \ {0}
    /\ BitmapPages + HeapPages <= TotalPages
    /\ BitsPerByte \in Nat \ {0}
    /\ PageWords \in Nat \ {0}

VARIABLES
    used,        \* the set bits of page_bitmap
    freeCount,   \* free_page_count
    held,        \* the frames each client has
    heapPtr      \* words of the kmalloc heap handed out: heap_ptr - heap_start

mmVars == <<used, freeCount, held, heapPtr>>

Bits == 0 .. TotalPages - 1
ReservedBits == 0 .. BitmapPages + HeapPages - 1
Frame(i) == i + BitmapPages
Frames == {Frame(i) : i \in Bits}

\* heap_start is HEAP_SIZE behind the bitmap, not right behind it.
HeapFrames == BitmapPages + HeapPages .. BitmapPages + 2 * HeapPages - 1
HeapWords == HeapPages * PageWords

\* mm_init clears total_pages / 8 bytes: the bits of a last partial byte keep
\* what the memory held.
UnclearedBits == {i \in Bits : i >= (TotalPages \div BitsPerByte) * BitsPerByte}

InitBitmap(stale) == used = ReservedBits \cup stale

MMInit ==
    /\ \E stale \in SUBSET UnclearedBits : InitBitmap(stale)
    /\ freeCount = TotalPages - BitmapPages - HeapPages
    /\ held = [c \in Clients |-> {}]
    /\ heapPtr = 0

-----------------------------------------------------------------------------
\* The bit page_alloc finds: the first clear one.
FirstClear(i) == i \in Bits \ used /\ \A j \in 0 .. i - 1 : j \in used

NoFreePage == Bits \subseteq used

\* Mutant of TakeBit: the free page is not counted.
TakeBitUncounted(i) == used' = used \cup {i} /\ freeCount' = freeCount

TakeBit(i) ==
    /\ used' = used \cup {i}
    /\ freeCount' = freeCount - 1

PageAlloc(c) ==
    /\ \E i \in Bits :
         /\ FirstClear(i)
         /\ TakeBit(i)
         /\ held' = [held EXCEPT ![c] = @ \cup {Frame(i)}]
    /\ UNCHANGED heapPtr

\* Mutant of FreedBits: the bitmap pages are not subtracted.
FreedBitsNoOffset(f) == {f} \cap Bits

\* The subtraction wraps for an address below the first frame: no bit then.
FreedBits(f) == {f - BitmapPages} \cap Bits

\* Mutant of ReleaseBits: the free page is not counted.
ReleaseBitsUncounted(f) == used' = used \ FreedBits(f) /\ freeCount' = freeCount

ReleaseBits(f) ==
    /\ used' = used \ FreedBits(f)
    /\ freeCount' = freeCount + Cardinality(FreedBits(f))

PageFree(c) ==
    /\ \E f \in held[c] : ReleaseBits(f) /\ held' = [held EXCEPT ![c] = @ \ {f}]
    /\ UNCHANGED heapPtr

\* kmalloc rounds to words and only moves the pointer; kfree does nothing.
Kmalloc(words) ==
    /\ heapPtr + words <= HeapWords
    /\ heapPtr' = heapPtr + words
    /\ UNCHANGED <<used, freeCount, held>>

MMNext ==
    \/ \E c \in Clients : PageAlloc(c) \/ PageFree(c)
    \/ \E words \in 1 .. HeapWords : Kmalloc(words)

MMSpec == MMInit /\ [][MMNext]_mmVars

-----------------------------------------------------------------------------
HeldFrames == UNION {held[c] : c \in Clients}

MMTypeOK ==
    /\ used \in SUBSET Bits
    /\ freeCount \in 0 .. TotalPages
    /\ held \in [Clients -> SUBSET Frames]
    /\ heapPtr \in 0 .. HeapWords

\* No page belongs to two callers, and none that somebody holds, nor a reserved
\* one, is marked free: page_alloc would hand it out again (kernel/mm.c
\* page_alloc, page_free).
FramesExclusive ==
    /\ \A c, d \in Clients : c # d => held[c] \cap held[d] = {}
    /\ \A f \in HeldFrames : f - BitmapPages \in used \ ReservedBits
    /\ ReservedBits \subseteq used

\* free_page_count, which get_free_pages reports, is what mm_init counted less what
\* the callers hold, although page_free finds its bit through another origin than
\* mm_init.  It counts the pages too whose bits mm_init left set at the end of the
\* bitmap: those are never handed out.
CountMatches ==
    freeCount = TotalPages - BitmapPages - HeapPages - Cardinality(HeldFrames)

\* "Mark heap pages as used" (kernel/mm.c:45): page_alloc hands out no page of
\* the kmalloc heap.
HeapSeparate == HeldFrames \cap HeapFrames = {}
=============================================================================
