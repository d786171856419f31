-------------------------- MODULE PageAllocatorProofs -------------------------
(***************************************************************************)
(* The page allocator keeps its books for every number of pages and every  *)
(* set of callers.                                                         *)
(***************************************************************************)
EXTENDS PageAllocator, FiniteSetTheorems, TLAPS

(* What one step needs to know: the types, that no held page is marked free, *)
(* and the count.                                                            *)
MMInv == MMTypeOK /\ FramesExclusive /\ CountMatches

\* A held frame is held by some client.
LEMMA HeldMember ==
    \A f : f \in HeldFrames <=> \E c \in Clients : f \in held[c]
BY DEF HeldFrames

(* The bits of the held frames lie behind the reserved ones, so there are    *)
(* finitely many, at most the pages free_page_count started with.            *)
LEMMA HeldBounded ==
    ASSUME MMTypeOK, FramesExclusive
    PROVE  /\ IsFiniteSet(HeldFrames)
           /\ Cardinality(HeldFrames) \in 0 .. TotalPages - BitmapPages - HeapPages
<1> DEFINE Allocatable == 2 * BitmapPages + HeapPages .. TotalPages + BitmapPages - 1
<1>1. HeldFrames \subseteq Allocatable
  <2> SUFFICES ASSUME NEW f \in HeldFrames PROVE f \in Allocatable
    OBVIOUS
  <2>1. f - BitmapPages \in Bits \ ReservedBits
    BY DEF FramesExclusive, MMTypeOK
  <2>2. f \in Frames
    BY HeldMember DEF MMTypeOK
  <2>3. f \in Int
    BY <2>2, PagesAssumption DEF Frames, Frame, Bits
  <2> QED
    BY <2>1, <2>3, PagesAssumption DEF Bits, ReservedBits
<1>2. /\ IsFiniteSet(Allocatable)
      /\ Cardinality(Allocatable) = TotalPages - BitmapPages - HeapPages
  BY FS_Interval, PagesAssumption, 2 * BitmapPages + HeapPages \in Int,
     TotalPages + BitmapPages - 1 \in Int
<1>3. /\ IsFiniteSet(HeldFrames)
      /\ Cardinality(HeldFrames) <= Cardinality(Allocatable)
  BY <1>1, <1>2, FS_Subset
<1> QED
  BY <1>2, <1>3, FS_CardinalityType, PagesAssumption

\* The allocator starts in its invariant.
LEMMA MMInitInv == MMInit => MMInv
<1> SUFFICES ASSUME MMInit PROVE MMInv
  OBVIOUS
<1>1. HeldFrames = {}
  BY DEF MMInit, HeldFrames
<1>2. MMTypeOK
  BY PagesAssumption
  DEF MMInit, InitBitmap, MMTypeOK, UnclearedBits, ReservedBits, Bits, HeapWords
<1>3. FramesExclusive
  BY <1>1 DEF MMInit, InitBitmap, FramesExclusive
<1>4. CountMatches
  BY <1>1, FS_EmptySet, PagesAssumption DEF MMInit, CountMatches
<1> QED
  BY <1>2, <1>3, <1>4 DEF MMInv

(* The page page_alloc takes is nobody's, because its bit was clear.         *)
LEMMA AllocStep ==
    ASSUME MMInv, NEW c \in Clients, PageAlloc(c)
    PROVE  MMInv'
<1> USE DEF MMInv
<1>1. PICK i \in Bits :
        /\ i \notin used
        /\ used' = used \cup {i}
        /\ freeCount' = freeCount - 1
        /\ held' = [held EXCEPT ![c] = @ \cup {Frame(i)}]
  BY DEF PageAlloc, FirstClear, TakeBit
<1>2. heapPtr' = heapPtr
  BY DEF PageAlloc
<1>3. held \in [Clients -> SUBSET Frames] /\ used \subseteq Bits
  BY DEF MMTypeOK
<1>4. i \in Int /\ Frame(i) \in Frames /\ Frame(i) - BitmapPages = i
  BY PagesAssumption DEF Bits, Frame, Frames
<1>5. Frame(i) \notin HeldFrames
  BY <1>1, <1>4 DEF FramesExclusive
<1>6. HeldFrames' = HeldFrames \cup {Frame(i)}
  <2>1. \A f : (\E d \in Clients : f \in held'[d])
                 <=> (\E d \in Clients : f \in held[d]) \/ f = Frame(i)
    BY <1>1, <1>3
  <2> QED
    BY <2>1 DEF HeldFrames
<1>7. FramesExclusive'
  <2>1. ASSUME NEW d \in Clients, NEW e \in Clients, d # e
        PROVE  held'[d] \cap held'[e] = {}
    <3>1. held[d] \cap held[e] = {} /\ Frame(i) \notin held[d] /\ Frame(i) \notin held[e]
      BY <1>5, <2>1, HeldMember DEF FramesExclusive
    <3> QED
      BY <3>1, <2>1, <1>1, <1>3
  <2>2. \A f \in HeldFrames' : f - BitmapPages \in used' \ ReservedBits
    <3>1. i \notin ReservedBits
      BY <1>1 DEF FramesExclusive
    <3> QED
      BY <3>1, <1>1, <1>4, <1>6 DEF FramesExclusive
  <2>3. ReservedBits \subseteq used'
    BY <1>1 DEF FramesExclusive
  <2> QED
    BY <2>1, <2>2, <2>3 DEF FramesExclusive, ReservedBits
<1>8. CountMatches'
  <2>1. Cardinality(HeldFrames') = Cardinality(HeldFrames) + 1
    BY <1>5, <1>6, HeldBounded, FS_AddElement
  <2>2. Cardinality(HeldFrames) \in Int
    BY HeldBounded
  <2> QED
    BY <2>1, <2>2, <1>1, PagesAssumption DEF CountMatches
<1>9. MMTypeOK'
  <2>1. used' \in SUBSET Bits /\ held' \in [Clients -> SUBSET Frames]
    BY <1>1, <1>3, <1>4
  <2>2. heapPtr' \in 0 .. HeapWords
    BY <1>2 DEF MMTypeOK
  <2>3. freeCount \in 0 .. TotalPages
    BY DEF MMTypeOK
  <2>4. IsFiniteSet(HeldFrames) /\ Cardinality(HeldFrames) \in Int
    BY HeldBounded
  <2>5. Cardinality(HeldFrames') <= TotalPages - BitmapPages - HeapPages
    <3> DEFINE Allocatable == 2 * BitmapPages + HeapPages .. TotalPages + BitmapPages - 1
    <3>1. HeldFrames' \subseteq Allocatable
      <4> SUFFICES ASSUME NEW f \in HeldFrames' PROVE f \in Allocatable
        OBVIOUS
      <4>1. f - BitmapPages \in Bits \ ReservedBits
        BY <1>7, <2>1 DEF FramesExclusive
      <4>2. f \in Frames
        BY <2>1 DEF HeldFrames
      <4>3. f \in Int
        BY <4>2, PagesAssumption DEF Frames, Frame, Bits
      <4> QED
        BY <4>1, <4>3, PagesAssumption DEF Bits, ReservedBits
    <3>2. /\ IsFiniteSet(Allocatable)
          /\ Cardinality(Allocatable) = TotalPages - BitmapPages - HeapPages
      BY FS_Interval, PagesAssumption, 2 * BitmapPages + HeapPages \in Int,
         TotalPages + BitmapPages - 1 \in Int
    <3> QED
      BY <3>1, <3>2, FS_Subset
  <2>6. freeCount' \in 0 .. TotalPages
    <3>1. Cardinality(HeldFrames') = Cardinality(HeldFrames) + 1
      BY <1>5, <1>6, HeldBounded, FS_AddElement
    <3>2. freeCount' = TotalPages - BitmapPages - HeapPages - Cardinality(HeldFrames')
      BY <1>8 DEF CountMatches
    <3> QED
      BY <3>1, <3>2, <2>3, <2>4, <2>5, <1>1, PagesAssumption
  <2> QED
    BY <2>1, <2>2, <2>6 DEF MMTypeOK
<1> QED
  BY <1>7, <1>8, <1>9

(* The freed page was its owner's alone, so exactly its bit is cleared.      *)
LEMMA FreeStep ==
    ASSUME MMInv, NEW c \in Clients, PageFree(c)
    PROVE  MMInv'
<1> USE DEF MMInv
<1>1. PICK f \in held[c] : ReleaseBits(f) /\ held' = [held EXCEPT ![c] = @ \ {f}]
  BY DEF PageFree
<1>2. heapPtr' = heapPtr
  BY DEF PageFree
<1>3. held \in [Clients -> SUBSET Frames] /\ used \subseteq Bits
  BY DEF MMTypeOK
<1>4. f \in HeldFrames /\ f \in Int
  BY <1>1, <1>3, HeldMember, PagesAssumption DEF Frames, Frame, Bits
<1>5. f - BitmapPages \in used \ ReservedBits
  BY <1>4 DEF FramesExclusive
<1>6. FreedBits(f) = {f - BitmapPages}
  BY <1>5, <1>3 DEF FreedBits
<1>7. used' = used \ {f - BitmapPages} /\ freeCount' = freeCount + 1
  BY <1>1, <1>6, FS_Singleton DEF ReleaseBits
<1>8. HeldFrames' = HeldFrames \ {f}
  <2>1. \A d \in Clients : d # c => f \notin held[d]
    BY <1>1 DEF FramesExclusive
  <2>2. \A g : (\E d \in Clients : g \in held'[d])
                 <=> (\E d \in Clients : g \in held[d]) /\ g # f
    BY <1>1, <1>3, <2>1
  <2> QED
    BY <2>2 DEF HeldFrames
<1>9. FramesExclusive'
  <2>1. ASSUME NEW d \in Clients, NEW e \in Clients, d # e
        PROVE  held'[d] \cap held'[e] = {}
    <3>1. held[d] \cap held[e] = {}
      BY <2>1 DEF FramesExclusive
    <3> QED
      BY <3>1, <1>1, <1>3
  <2>2. ASSUME NEW g \in HeldFrames' PROVE g - BitmapPages \in used' \ ReservedBits
    <3>1. g \in HeldFrames /\ g # f
      BY <1>8
    <3>2. g \in Int
      BY <3>1, <1>3, HeldMember, PagesAssumption DEF Frames, Frame, Bits
    <3>3. g - BitmapPages # f - BitmapPages
      BY <3>1, <3>2, <1>4, PagesAssumption
    <3> QED
      BY <3>1, <3>3, <1>7 DEF FramesExclusive
  <2>3. ReservedBits \subseteq used'
    BY <1>5, <1>7 DEF FramesExclusive
  <2> QED
    BY <2>1, <2>2, <2>3 DEF FramesExclusive, ReservedBits
<1>10. Cardinality(HeldFrames') = Cardinality(HeldFrames) - 1
  BY <1>4, <1>8, HeldBounded, FS_RemoveElement
<1>11. CountMatches'
  <2>1. Cardinality(HeldFrames) \in Int
    BY HeldBounded
  <2> QED
    BY <2>1, <1>7, <1>10, PagesAssumption DEF CountMatches
<1>12. MMTypeOK'
  <2>1. used' \in SUBSET Bits /\ held' \in [Clients -> SUBSET Frames]
    BY <1>1, <1>3, <1>7
  <2>2. heapPtr' \in 0 .. HeapWords
    BY <1>2 DEF MMTypeOK
  <2>3. freeCount' \in 0 .. TotalPages
    <3>1. Cardinality(HeldFrames) \in Nat /\ Cardinality(HeldFrames) >= 1
      <4>1. IsFiniteSet(HeldFrames) /\ Cardinality(HeldFrames) \in Nat
        BY HeldBounded, FS_CardinalityType
      <4>2. Cardinality(HeldFrames) # 0
        BY <4>1, <1>4, FS_EmptySet
      <4> QED
        BY <4>1, <4>2
    <3> QED
      BY <3>1, <1>7, HeldBounded, PagesAssumption DEF CountMatches
  <2> QED
    BY <2>1, <2>2, <2>3 DEF MMTypeOK
<1> QED
  BY <1>9, <1>11, <1>12

\* kmalloc preserves the invariant.
LEMMA KmallocStep ==
    ASSUME MMInv, NEW words \in 1 .. HeapWords, Kmalloc(words)
    PROVE  MMInv'
<1>1. UNCHANGED <<used, freeCount, held>> /\ heapPtr' = heapPtr + words
      /\ heapPtr + words <= HeapWords
  BY DEF Kmalloc
<1>2. HeldFrames' = HeldFrames
  BY <1>1 DEF HeldFrames
<1>3. HeapWords \in Nat
  BY PagesAssumption DEF HeapWords
<1>4. MMTypeOK'
  BY <1>1, <1>3 DEF MMInv, MMTypeOK
<1>5. FramesExclusive'
  BY <1>1, <1>2 DEF MMInv, FramesExclusive, ReservedBits
<1>6. CountMatches'
  BY <1>1, <1>2 DEF MMInv, CountMatches
<1> QED
  BY <1>4, <1>5, <1>6 DEF MMInv

\* A step that leaves the allocator alone preserves the invariant.
LEMMA MMStutter == MMInv /\ UNCHANGED mmVars => MMInv'
BY DEF MMInv, mmVars, MMTypeOK, FramesExclusive, CountMatches, HeldFrames, ReservedBits

\* Every step of the allocator preserves its invariant.
LEMMA MMKeeps == MMInv /\ [MMNext]_mmVars => MMInv'
BY AllocStep, FreeStep, KmallocStep, MMStutter DEF MMNext

(* The page allocator alone: nobody is handed a page that is reserved or     *)
(* somebody else's, and the count of free pages is right.                    *)
THEOREM MMInvariance == MMSpec => []MMInv
  BY MMInitInv, MMKeeps, PTL DEF MMSpec
=============================================================================
