----------------------------- MODULE KernelHeap -----------------------------
(***************************************************************************)
(* The heap as its clients see it: kmalloc hands out a free block or       *)
(* fails, kfree gives one back.  PageAllocator models how it works.        *)
(***************************************************************************)
VARIABLE heap_free

NoBlock == "NULL"

\* A block kmalloc may return when these are free.
KmallocBlock(blocks) == blocks \cup {NoBlock}
Kfree(blocks)   == heap_free \cup (blocks \ {NoBlock})
=============================================================================
