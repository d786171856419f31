----------------------------- MODULE MemoryProofs -----------------------------
(***************************************************************************)
(* Virtual memory uses the page allocator as its specification allows, so  *)
(* the allocator's books are right whatever vm.c and the heap do; and      *)
(* torFS accounts for its blocks and names, for any table and disk.        *)
(***************************************************************************)
EXTENDS MCMemory, PageAllocatorProofs, WellFoundedInduction

(* Every step of vm.c, of another caller or of a heap user is a step of the  *)
(* page allocator or leaves it alone.                                        *)
LEMMA StepUsesAllocator == [Next]_vars => [MMNext]_mmVars
<1> SUFFICES ASSUME Next PROVE MMNext \/ UNCHANGED mmVars
  BY DEF vars
<1>1. CASE StartVm \/ AddTable
  BY <1>1, VmAssumption DEF StartVm, AddTable, AllocTable, MMNext
<1>2. CASE OtherAlloc \/ OtherFree
  BY <1>2 DEF OtherAlloc, OtherFree, MMNext
<1>3. CASE \E words \in 1 .. HeapWords : HeapObject(words)
  BY <1>3 DEF HeapObject, MMNext
<1>4. CASE StartVmPanics \/ BeginBootMap \/ BeginUserMap \/ MapFails \/ SetEntry \/ UserUnmap
  BY <1>4 DEF StartVmPanics, BeginBootMap, BeginUserMap, MapFails, SetEntry, UserUnmap
<1> QED
  BY <1>1, <1>2, <1>3, <1>4 DEF Next

(* So virtual memory, its callers and the heap implement the page allocator. *)
THEOREM UsesAllocator == Spec => MMSpec
<1>1. Init => MMInit
  BY DEF Init
<1> QED
  BY <1>1, StepUsesAllocator, PTL DEF Spec, MMSpec

(* No page is handed out twice, or while it is reserved, by any interleaving *)
(* of page table building, other callers and the heap.                       *)
THEOREM FramesExclusiveCorrect == Spec => []FramesExclusive
<1>1. MMInv => FramesExclusive
  BY DEF MMInv
<1> QED
  BY <1>1, MMInvariance, UsesAllocator, PTL

(* free_page_count is what mm_init counted less what the callers hold, among  *)
(* it the pages whose bits were left set and that are never handed out.      *)
THEOREM CountCorrect == Spec => []CountMatches
<1>1. MMInv => CountMatches
  BY DEF MMInv
<1> QED
  BY <1>1, MMInvariance, UsesAllocator, PTL

-----------------------------------------------------------------------------
(* Sets of numbers.                                                        *)

\* TorFS counts as everybody does.
LEMMA SameCardinality == \A S : Files!Cardinality(S) = Cardinality(S)
  BY Zenon DEF Files!Cardinality, Cardinality

\* A set of natural numbers that is not empty has a least element.
LEMMA Least ==
  ASSUME NEW S \in SUBSET Nat, S # {}
  PROVE  \E k \in S : \A j \in S : k <= j
<1>1. PICK k \in S : \A j \in S : ~(<<j, k>> \in OpToRel(<, Nat))
  BY NatLessThanWellFounded, WFMin
<1>2. \A j \in S : k <= j
  <2> TAKE j \in S
  <2>1. j \in Nat /\ k \in Nat /\ <<j, k>> \in Nat \X Nat
    OBVIOUS
  <2>2. ~(j < k)
    BY <1>1, <2>1 DEF OpToRel
  <2> QED BY <2>1, <2>2
<1> QED BY <1>2

\* A set of numbers up to N that is not empty has a greatest.
LEMMA Greatest ==
  ASSUME NEW N \in Nat, NEW s \in SUBSET (0 .. N), s # {}
  PROVE  Files!Max(s) \in s /\ \A y \in s : Files!Max(s) >= y
<1> DEFINE S == {N - y : y \in s}
<1>1. S \in SUBSET Nat /\ S # {}
  <2>1. \A y \in s : N - y \in Nat
    <3> TAKE y \in s
    <3>1. y \in 0 .. N
      OBVIOUS
    <3> QED BY <3>1
  <2> QED BY <2>1
<1>2. PICK k \in S : \A j \in S : k <= j
  BY <1>1, Least
<1>3. PICK x \in s : k = N - x
  BY <1>2
<1>4. \A y \in s : x >= y
  <2> TAKE y \in s
  <2>1. N - y \in S /\ y \in Int /\ x \in Int
    BY <1>3
  <2>2. N - x <= N - y
    BY <1>2, <1>3, <2>1
  <2> QED BY <2>1, <2>2
<1> QED BY <1>4 DEF Files!Max

\* The greater and the less of two.
LEMMA OfTwo ==
  ASSUME NEW a \in Int, NEW b \in Int
  PROVE  /\ Files!Max({a, b}) = IF a >= b THEN a ELSE b
         /\ Files!Min({a, b}) = IF a <= b THEN a ELSE b
<1>1. Files!Max({a, b}) = IF a >= b THEN a ELSE b
  <2>1. \E x \in {a, b} : \A y \in {a, b} : x >= y
    OBVIOUS
  <2>2. Files!Max({a, b}) \in {a, b} /\ \A y \in {a, b} : Files!Max({a, b}) >= y
    BY <2>1 DEF Files!Max
  <2> QED BY <2>2
<1>2. Files!Min({a, b}) = IF a <= b THEN a ELSE b
  <2>1. \E x \in {a, b} : \A y \in {a, b} : x <= y
    OBVIOUS
  <2>2. Files!Min({a, b}) \in {a, b} /\ \A y \in {a, b} : Files!Min({a, b}) <= y
    BY <2>1 DEF Files!Min
  <2> QED BY <2>2
<1> QED BY <1>1, <1>2

\* Ranks grow with the elements ...
LEMMA RankGrows ==
  ASSUME NEW S \in SUBSET Int, IsFiniteSet(S), NEW x \in S, NEW y \in S, x < y
  PROVE  Files!Rank(S, x) < Files!Rank(S, y)
<1> DEFINE X == {z \in S : z <= x}
           Y == {z \in S : z <= y}
<1>1. IsFiniteSet(Y) /\ X \in SUBSET Y /\ Y \in SUBSET S
  <2>1. Y \in SUBSET S
    OBVIOUS
  <2>2. X \in SUBSET Y
    <3> SUFFICES ASSUME NEW z \in S, z <= x PROVE z <= y
      OBVIOUS
    <3>1. z \in Int /\ x \in Int /\ y \in Int
      OBVIOUS
    <3> QED BY <3>1
  <2> QED BY <2>1, <2>2, FS_Subset
<1>0. Files!Rank(S, x) = Cardinality(X) /\ Files!Rank(S, y) = Cardinality(Y)
  BY SameCardinality, Zenon DEF Files!Rank
<1>2. X # Y
  <2>1. y \in Y /\ y \notin X
    OBVIOUS
  <2> QED BY <2>1
<1> HIDE DEF X, Y
<1>3. Cardinality(X) <= Cardinality(Y) /\ Cardinality(X) # Cardinality(Y) /\ IsFiniteSet(X)
  BY <1>1, <1>2, FS_Subset
<1>4. Cardinality(X) \in Nat /\ Cardinality(Y) \in Nat
  BY <1>1, <1>3, FS_CardinalityType
<1> QED BY <1>0, <1>3, <1>4

\* ... so there is one element of every rank.
LEMMA Ranks ==
  ASSUME NEW S \in SUBSET Int, IsFiniteSet(S)
  PROVE  /\ Cardinality(S) \in Nat
         /\ \A x \in S : Files!Rank(S, x) \in 1 .. Cardinality(S)
         /\ \A x, y \in S : Files!Rank(S, x) = Files!Rank(S, y) => x = y
         /\ \A r \in 1 .. Cardinality(S) : \E x \in S : Files!Rank(S, x) = r
<1> DEFINE n == Cardinality(S)
           f == [x \in S |-> Files!Rank(S, x)]
<1>1. n \in Nat
  BY FS_CardinalityType
<1>2. ASSUME NEW x \in S PROVE Files!Rank(S, x) \in 1 .. n
  <2> DEFINE X == {z \in S : z <= x}
  <2>1. X \in SUBSET S /\ x \in X
    OBVIOUS
  <2>0. Files!Rank(S, x) = Cardinality(X)
    BY SameCardinality, Zenon DEF Files!Rank
  <2> HIDE DEF X
  <2>2. IsFiniteSet(X) /\ Cardinality(X) <= n
    BY <2>1, FS_Subset
  <2>3. Cardinality(X) \in Nat /\ Cardinality(X) # 0
    BY <2>1, <2>2, FS_CardinalityType, FS_EmptySet
  <2>4. Cardinality(X) \in 1 .. n
    BY <1>1, <2>2, <2>3
  <2> QED BY <2>0, <2>4
<1>3. ASSUME NEW x \in S, NEW y \in S, Files!Rank(S, x) = Files!Rank(S, y) PROVE x = y
  <2>1. x \in Int /\ y \in Int /\ Files!Rank(S, x) \in Int
    BY <1>2
  <2>2. ~(x < y)
    BY <1>3, <2>1, RankGrows
  <2>3. ~(y < x)
    BY <1>3, <2>1, RankGrows
  <2> QED BY <2>1, <2>2, <2>3
<1>4. f \in Injection(S, 1 .. n)
  BY <1>2, <1>3 DEF Injection, IsInjective
<1>5. IsFiniteSet(1 .. n) /\ Cardinality(1 .. n) = n
  BY <1>1, FS_Interval
<1>6. f \in Surjection(S, 1 .. n)
  <2> HIDE DEF f
  <2> QED BY <1>4, <1>5, FS_Injection
<1>7. \A r \in 1 .. n : \E x \in S : Files!Rank(S, x) = r
  BY <1>6 DEF Surjection
<1> QED BY <1>1, <1>2, <1>3, <1>7

-----------------------------------------------------------------------------
(* torFS.                                                                  *)

\* No block is in two places.
BlocksApart ==
  \A i, j \in Files!Slots : \A k, l \in Files!FileBlocks :
     entries[i].blocks[k] # 0 /\ entries[i].blocks[k] = entries[j].blocks[l] => i = j /\ k = l

\* The bitmap is what the table says.
BitmapRight ==
  \A b \in Files!Blocks : b \in bitmap <=>
     b = 0 \/ \E i \in Files!Slots : \E k \in Files!FileBlocks : entries[i].blocks[k] = b

NamesOnce ==
  \A i, j \in Files!Slots : entries[i].used /\ entries[j].used /\ entries[i].name = entries[j].name => i = j

\* An unused slot holds no block, so that Create, which forgets what it finds there,
\* loses none.
UnusedEmpty == \A i \in Files!Slots : ~entries[i].used => \A k \in Files!FileBlocks : entries[i].blocks[k] = 0

UsedSlots == {i \in Files!Slots : entries[i].used}

FilesInv ==
  /\ entries \in [Files!Slots -> Files!Entry] /\ bitmap \in SUBSET Files!Blocks
  /\ data \in [Files!Blocks -> [0 .. BlockSize - 1 -> Bytes]]
  /\ BlocksApart /\ BitmapRight /\ NamesOnce /\ UnusedEmpty
  /\ freeBlocks = Cardinality(Files!Clear) /\ numFiles = Cardinality(UsedSlots)

\* The numbers torFS is built with.
LEMMA FilesNumbers ==
  /\ MaxFiles \in Nat \ {0} /\ BlocksPerFile \in Nat \ {0} /\ BlockSize \in Nat \ {0}
  /\ TotalBlocks \in Nat \ {0} /\ Wrap \in Nat \ {0} /\ Files!MaxSize \in Nat
  /\ Files!MaxSize = BlockSize * BlocksPerFile /\ Wrap > Files!MaxSize
  /\ ZERO \in Bytes /\ EMPTY \notin Names
  /\ Offsets \subseteq 0 .. Wrap - 1 /\ Sizes \subseteq 0 .. Wrap - 1
<1>1. Files!FSAssumption
  BY FilesAssumption
<1>2. /\ BlocksPerFile \in Nat \ {0} /\ BlockSize \in Nat \ {0}
  BY <1>1 DEF Files!FSAssumption
<1>3. BlockSize * BlocksPerFile \in Nat
  BY <1>2
<1> QED BY <1>1, <1>2, <1>3 DEF Files!FSAssumption, Files!MaxSize

\* The slots and blocks of the disk are finite sets of the sizes the format has.
LEMMA FilesSets ==
  /\ IsFiniteSet(Files!Slots) /\ Cardinality(Files!Slots) = MaxFiles
  /\ IsFiniteSet(Files!Blocks) /\ Cardinality(Files!Blocks) = TotalBlocks
  /\ Files!Blocks \in SUBSET Int /\ Files!Slots \in SUBSET Int /\ 0 \in Files!Blocks
<1>1. MaxFiles \in Nat \ {0} /\ TotalBlocks \in Nat \ {0} /\ 0 \in Int
      /\ MaxFiles - 1 \in Int /\ TotalBlocks - 1 \in Int
  BY FilesNumbers
<1>2. IsFiniteSet(0 .. MaxFiles - 1) /\ Cardinality(0 .. MaxFiles - 1) = MaxFiles
  <2>1. ~(0 > MaxFiles - 1) /\ (MaxFiles - 1) - 0 + 1 = MaxFiles
    BY <1>1
  <2> QED BY <1>1, <2>1, FS_Interval
<1>3. IsFiniteSet(0 .. TotalBlocks - 1) /\ Cardinality(0 .. TotalBlocks - 1) = TotalBlocks
  <2>1. ~(0 > TotalBlocks - 1) /\ (TotalBlocks - 1) - 0 + 1 = TotalBlocks
    BY <1>1
  <2> QED BY <1>1, <2>1, FS_Interval
<1>4. 0 \in 0 .. TotalBlocks - 1 /\ 0 .. TotalBlocks - 1 \in SUBSET Int /\ 0 .. MaxFiles - 1 \in SUBSET Int
  BY <1>1
<1> QED BY <1>2, <1>3, <1>4 DEF Files!Slots, Files!Blocks

\* The clear bits of the block bitmap are a finite set of blocks.
LEMMA ClearFinite ==
  /\ IsFiniteSet(Files!Clear) /\ Cardinality(Files!Clear) \in Nat
  /\ Files!Clear \in SUBSET Files!Blocks /\ Files!Clear \in SUBSET Int
<1>1. Files!Clear \in SUBSET Files!Blocks
  BY DEF Files!Clear
<1> QED BY <1>1, FilesSets, FS_Subset, FS_CardinalityType

\* A formatted disk is in the invariant of the files.
LEMMA FilesInitial == Files!Init => FilesInv
<1> SUFFICES ASSUME Files!Init PROVE FilesInv
  OBVIOUS
<1>0. TotalBlocks \in Nat \ {0} /\ BlocksPerFile \in Nat \ {0} /\ BlockSize \in Nat \ {0} /\ Wrap \in Nat \ {0}
      /\ ZERO \in Bytes
  BY FilesNumbers
<1> DEFINE e == [Files!NewEntry(EMPTY) EXCEPT !.used = FALSE]
<1>1. e \in Files!Entry /\ ~e.used /\ e.blocks = Files!NoBlocks
  <2>1. PICK r : r = Files!NewEntry(EMPTY)
    OBVIOUS
  <2>2. Files!NoBlocks \in [Files!FileBlocks -> Files!Blocks] /\ 0 \in 0 .. Wrap - 1
    BY <1>0, FilesSets DEF Files!NoBlocks
  <2>3. r \in Files!Entry /\ r.blocks = Files!NoBlocks
    BY <2>1, <2>2 DEF Files!NewEntry, Files!Entry
  <2>4. /\ [r EXCEPT !.used = FALSE] \in Files!Entry /\ ~[r EXCEPT !.used = FALSE].used
        /\ [r EXCEPT !.used = FALSE].blocks = Files!NoBlocks
    BY <2>3 DEF Files!Entry
  <2>5. e = [r EXCEPT !.used = FALSE]
    BY <2>1, Zenon
  <2> HIDE DEF e
  <2> QED BY <2>4, <2>5
<1>2. /\ entries = [i \in Files!Slots |-> e] /\ bitmap = {0} /\ freeBlocks = TotalBlocks - 1 /\ numFiles = 0
      /\ data = [b \in Files!Blocks |-> [x \in 0 .. BlockSize - 1 |-> ZERO]]
  BY DEF Files!Init
<1> HIDE DEF e
<1>3. Files!NoBlocks \in [Files!FileBlocks -> Files!Blocks] /\ \A k \in Files!FileBlocks : Files!NoBlocks[k] = 0
  BY FilesSets DEF Files!NoBlocks
<1>5. \A i \in Files!Slots : entries[i] = e /\ ~entries[i].used /\ entries[i].blocks = Files!NoBlocks
  BY <1>1, <1>2
<1>6. BlocksApart /\ BitmapRight /\ NamesOnce /\ UnusedEmpty
  BY <1>2, <1>3, <1>5 DEF BlocksApart, BitmapRight, NamesOnce, UnusedEmpty
<1>7. Cardinality(Files!Clear) = TotalBlocks - 1
  <2>1. Files!Clear = Files!Blocks \ {0}
    BY <1>2 DEF Files!Clear
  <2> QED BY <2>1, FilesSets, FS_RemoveElement
<1>8. Cardinality(UsedSlots) = 0
  <2>1. UsedSlots = {}
    BY <1>5 DEF UsedSlots
  <2> QED BY <2>1, FS_EmptySet
<1> QED BY <1>0, <1>1, <1>2, <1>6, <1>7, <1>8, FilesSets DEF FilesInv

\* What the properties of torFS need.
LEMMA FilesFacts == FilesInv => Files!TypeOK /\ Files!BlocksAccounted /\ Files!NamesFound
<1> SUFFICES ASSUME FilesInv PROVE Files!TypeOK /\ Files!BlocksAccounted /\ Files!NamesFound
  OBVIOUS
<1>0. MaxFiles \in Nat \ {0} /\ TotalBlocks \in Nat \ {0}
  BY FilesNumbers
<1>1. entries \in [Files!Slots -> Files!Entry] /\ \A i \in Files!Slots : entries[i].blocks \in [Files!FileBlocks -> Files!Blocks]
  BY DEF FilesInv, Files!Entry
<1>2. numFiles \in 0 .. MaxFiles
  <2>1. UsedSlots \in SUBSET Files!Slots
    BY DEF UsedSlots
  <2>2. Cardinality(UsedSlots) <= MaxFiles /\ Cardinality(UsedSlots) \in Nat
    BY <2>1, FilesSets, FS_Subset, FS_CardinalityType
  <2> QED BY <1>0, <2>2 DEF FilesInv
<1>3. freeBlocks \in 0 .. TotalBlocks - 1
  <2>1. Files!Clear \in SUBSET (Files!Blocks \ {0})
    BY FilesSets DEF Files!Clear, FilesInv, BitmapRight
  <2>2. IsFiniteSet(Files!Blocks \ {0}) /\ Cardinality(Files!Blocks \ {0}) = TotalBlocks - 1
    BY FilesSets, FS_RemoveElement
  <2>3. Cardinality(Files!Clear) <= TotalBlocks - 1
    BY <2>1, <2>2, FS_Subset
  <2> QED BY <1>0, <2>3, ClearFinite DEF FilesInv
<1>4. Files!TypeOK
  BY <1>2, <1>3 DEF FilesInv, Files!TypeOK
<1>5. bitmap = {0} \cup UNION {Files!BlocksOf(i) : i \in Files!Slots}
  <2>1. \A b : b \in UNION {Files!BlocksOf(i) : i \in Files!Slots} <=>
           b # 0 /\ \E i \in Files!Slots : \E k \in Files!FileBlocks : entries[i].blocks[k] = b
    BY DEF Files!BlocksOf
  <2>2. \A b \in bitmap : b \in Files!Blocks
    BY DEF FilesInv
  <2>3. BitmapRight
    BY DEF FilesInv
  <2>4. \A b \in bitmap : b \in {0} \cup UNION {Files!BlocksOf(i) : i \in Files!Slots}
    <3> TAKE b \in bitmap
    <3>1. b = 0 \/ \E i \in Files!Slots : \E k \in Files!FileBlocks : entries[i].blocks[k] = b
      BY <2>2, <2>3 DEF BitmapRight
    <3> QED BY <2>1, <3>1
  <2>5. \A b \in {0} \cup UNION {Files!BlocksOf(i) : i \in Files!Slots} : b \in bitmap
    <3> TAKE b \in {0} \cup UNION {Files!BlocksOf(i) : i \in Files!Slots}
    <3>1. b = 0 \/ \E i \in Files!Slots : \E k \in Files!FileBlocks : entries[i].blocks[k] = b
      BY <2>1
    <3>2. b \in Files!Blocks
      BY <1>1, <3>1, FilesSets
    <3> QED BY <2>3, <3>1, <3>2 DEF BitmapRight
  <2> QED BY <2>4, <2>5
<1>6. Files!BlocksAccounted
  <2>1. freeBlocks = Files!Cardinality(Files!Clear)
    BY SameCardinality DEF FilesInv
  <2>2. \A i, j \in Files!Slots : \A k, l \in Files!FileBlocks :
         (<<i, k>> # <<j, l>> /\ entries[i].blocks[k] # 0)
           => entries[i].blocks[k] # entries[j].blocks[l]
    BY DEF FilesInv, BlocksApart
  <2> QED BY <1>5, <2>1, <2>2 DEF Files!BlocksAccounted
<1>7. Files!NamesFound
  <2>1. ASSUME NEW n \in Names PROVE Files!Cardinality(Files!Find(n)) <= 1
    <3>1. \A i, j \in Files!Find(n) : i = j
      BY DEF Files!Find, FilesInv, NamesOnce
    <3>2. CASE Files!Find(n) = {}
      <4>1. Cardinality({}) = 0
        BY FS_EmptySet
      <4> QED BY <3>2, <4>1, SameCardinality
    <3>3. CASE Files!Find(n) # {}
      <4>1. PICK i \in Files!Find(n) : TRUE
        BY <3>3
      <4>2. Files!Find(n) = {i}
        BY <3>1, <4>1
      <4>3. Cardinality({i}) = 1
        BY FS_Singleton
      <4> QED BY <4>2, <4>3, SameCardinality
    <3> QED BY <3>2, <3>3
  <2>2. Files!Slots \ Files!Unused = UsedSlots
    BY DEF Files!Unused, UsedSlots
  <2>3. numFiles = Files!Cardinality(Files!Slots \ Files!Unused)
    BY <2>2, SameCardinality DEF FilesInv
  <2> QED BY <2>1, <2>3 DEF Files!NamesFound
<1> QED BY <1>4, <1>6, <1>7


\* The entries of the table are records of their type.
LEMMA EntryFacts ==
  ASSUME FilesInv
  PROVE  /\ DOMAIN entries = Files!Slots
         /\ \A j \in Files!Slots : /\ entries[j] \in Files!Entry /\ entries[j].used \in BOOLEAN
                                   /\ entries[j].blocks \in [Files!FileBlocks -> Files!Blocks]
                                   /\ \A k \in Files!FileBlocks : entries[j].blocks[k] \in Files!Blocks
BY DEF FilesInv, Files!Entry

\* tfs_create takes a slot that holds no block.
LEMMA CreateKeeps ==
  ASSUME FilesInv, NEW n \in Names, Files!Create(n)
  PROVE  FilesInv'
<1>1. PICK i \in Files!Slots : Files!FreeEntry(i) /\ entries' = [entries EXCEPT ![i] = Files!NewEntry(n)]
  BY DEF Files!Create
<1>2. Files!Find(n) = {} /\ numFiles' = numFiles + 1 /\ UNCHANGED <<bitmap, freeBlocks, data>>
  BY DEF Files!Create
<1>3. PICK e : e = Files!NewEntry(n)
  OBVIOUS
<1>4. /\ e.used = TRUE /\ e.name = n /\ e \in Files!Entry
      /\ \A k \in Files!FileBlocks : e.blocks[k] = 0
  <2>1. Files!NoBlocks \in [Files!FileBlocks -> Files!Blocks] /\ \A k \in Files!FileBlocks : Files!NoBlocks[k] = 0
    BY FilesSets DEF Files!NoBlocks
  <2>2. 0 \in 0 .. Wrap - 1
    BY FilesNumbers
  <2> QED BY <1>3, <2>1, <2>2 DEF Files!NewEntry, Files!Entry
<1>5. entries' \in [Files!Slots -> Files!Entry] /\ entries'[i] = e
      /\ \A j \in Files!Slots : j # i => entries'[j] = entries[j]
  BY <1>1, <1>3, <1>4 DEF FilesInv
<1>6. ~entries[i].used /\ \A k \in Files!FileBlocks : entries[i].blocks[k] = 0
  BY <1>1 DEF Files!FreeEntry, Files!Unused, FilesInv, UnusedEmpty
<1>7. \A j \in Files!Slots : \A k \in Files!FileBlocks : entries'[j].blocks[k] = entries[j].blocks[k]
  BY <1>4, <1>5, <1>6
<1>8. BlocksApart' /\ BitmapRight'
  BY <1>2, <1>7 DEF FilesInv, BlocksApart, BitmapRight
<1>9. \A j \in Files!Slots : entries[j].used => entries[j].name # n
  BY <1>2 DEF Files!Find
<1>10. NamesOnce' /\ UnusedEmpty'
  BY <1>4, <1>5, <1>9 DEF FilesInv, NamesOnce, UnusedEmpty
<1>11. numFiles' = Cardinality(UsedSlots')
  <2>1. UsedSlots' = UsedSlots \cup {i} /\ i \notin UsedSlots
    BY <1>1, <1>4, <1>5, <1>6 DEF UsedSlots
  <2>2. IsFiniteSet(UsedSlots)
    <3>1. UsedSlots \in SUBSET Files!Slots
      BY DEF UsedSlots
    <3> QED BY <3>1, FilesSets, FS_Subset
  <2>3. Cardinality(UsedSlots \cup {i}) = Cardinality(UsedSlots) + 1
    BY <2>1, <2>2, FS_AddElement
  <2> QED BY <1>2, <2>1, <2>3 DEF FilesInv
<1>12. freeBlocks' = Cardinality(Files!Clear')
  BY <1>2 DEF FilesInv, Files!Clear
<1> QED BY <1>2, <1>5, <1>8, <1>10, <1>11, <1>12 DEF FilesInv

\* tfs_delete gives back the blocks of its file and of no other.
LEMMA DeleteKeeps ==
  ASSUME FilesInv, NEW n \in Names, Files!Delete(n)
  PROVE  FilesInv'
<1>1. PICK i \in Files!Find(n) : /\ entries' = Files!Emptied(i) /\ bitmap' = Files!Released(i)
                                 /\ freeBlocks' = freeBlocks + Files!Cardinality(Files!BlocksOf(i))
  BY DEF Files!Delete
<1>2. numFiles' = numFiles - 1 /\ UNCHANGED data
  BY DEF Files!Delete
<1>3. i \in Files!Slots /\ entries[i].used
  BY <1>1 DEF Files!Find
<1>4. Files!NoBlocks \in [Files!FileBlocks -> Files!Blocks] /\ \A k \in Files!FileBlocks : Files!NoBlocks[k] = 0
  BY FilesSets DEF Files!NoBlocks
<1>5. /\ entries' \in [Files!Slots -> Files!Entry] /\ ~entries'[i].used
      /\ \A k \in Files!FileBlocks : entries'[i].blocks[k] = 0
      /\ \A j \in Files!Slots : j # i => entries'[j] = entries[j]
  <2>1. entries' = [entries EXCEPT ![i].used = FALSE, ![i].name = EMPTY, ![i].blocks = Files!NoBlocks]
    BY <1>1 DEF Files!Emptied
  <2>2. entries \in [Files!Slots -> Files!Entry]
    BY DEF FilesInv
  <2> QED BY <1>3, <1>4, <2>1, <2>2 DEF Files!Entry
<1>6. \A b : b \in Files!BlocksOf(i) <=> b # 0 /\ \E k \in Files!FileBlocks : entries[i].blocks[k] = b
  BY DEF Files!BlocksOf
<1>7. BlocksApart' /\ NamesOnce' /\ UnusedEmpty'
  BY <1>5 DEF FilesInv, BlocksApart, NamesOnce, UnusedEmpty
<1>8. bitmap' = bitmap \ Files!BlocksOf(i) /\ bitmap' \in SUBSET Files!Blocks
  BY <1>1 DEF FilesInv, Files!Released
<1>9. BitmapRight'
  <2>1. ASSUME NEW b \in Files!Blocks
        PROVE  b \in bitmap' <=> b = 0 \/ \E j \in Files!Slots : \E k \in Files!FileBlocks : entries'[j].blocks[k] = b
    <3>1. b \in bitmap <=> b = 0 \/ \E j \in Files!Slots : \E k \in Files!FileBlocks : entries[j].blocks[k] = b
      BY DEF FilesInv, BitmapRight
    <3>2. CASE b = 0
      BY <1>6, <1>8, <3>1, <3>2
    <3>3. CASE b # 0 /\ b \in Files!BlocksOf(i)
      <4>1. PICK k \in Files!FileBlocks : entries[i].blocks[k] = b
        BY <1>6, <3>3
      <4>2. \A j \in Files!Slots : \A l \in Files!FileBlocks : entries[j].blocks[l] = b => j = i
        BY <1>3, <3>3, <4>1 DEF FilesInv, BlocksApart
      <4> QED BY <1>5, <1>8, <3>3, <4>2
    <3>4. CASE b # 0 /\ b \notin Files!BlocksOf(i)
      <4>1. \A k \in Files!FileBlocks : entries[i].blocks[k] # b
        BY <1>6, <3>4
      <4> QED BY <1>3, <1>5, <1>8, <3>1, <3>4, <4>1
    <3> QED BY <3>2, <3>3, <3>4
  <2> QED BY <2>1 DEF BitmapRight
<1>10. freeBlocks' = Cardinality(Files!Clear')
  <2>1. Files!BlocksOf(i) \in SUBSET bitmap /\ Files!BlocksOf(i) \in SUBSET Files!Blocks
    <3> SUFFICES ASSUME NEW b \in Files!BlocksOf(i) PROVE b \in bitmap /\ b \in Files!Blocks
      OBVIOUS
    <3>1. PICK k \in Files!FileBlocks : entries[i].blocks[k] = b
      BY <1>6
    <3>2. b \in Files!Blocks
      BY <1>3, <3>1, EntryFacts
    <3> QED BY <1>3, <3>1, <3>2 DEF FilesInv, BitmapRight
  <2>2. Files!Clear' = Files!Clear \cup Files!BlocksOf(i) /\ Files!Clear \cap Files!BlocksOf(i) = {}
    BY <1>8, <2>1 DEF Files!Clear
  <2>3. IsFiniteSet(Files!BlocksOf(i)) /\ Cardinality(Files!BlocksOf(i)) \in Nat
    BY <2>1, FilesSets, FS_Subset, FS_CardinalityType
  <2>4. PICK c, d : c = Files!Clear /\ d = Files!BlocksOf(i)
    OBVIOUS
  <2>5. Cardinality(c \cup d) = Cardinality(c) + Cardinality(d) - Cardinality(c \cap d)
    BY <2>3, <2>4, ClearFinite, FS_Union
  <2>6. Cardinality(c \cap d) = 0
    BY <2>2, <2>4, FS_EmptySet
  <2>7. freeBlocks' = Cardinality(c) + Cardinality(d)
    BY <1>1, <2>4, SameCardinality DEF FilesInv
  <2>8. Cardinality(c) \in Nat /\ Cardinality(d) \in Nat
    BY <2>3, <2>4, ClearFinite
  <2>9. Files!Clear' = c \cup d
    BY <2>2, <2>4
  <2> QED BY <2>5, <2>6, <2>7, <2>8, <2>9
<1>11. numFiles' = Cardinality(UsedSlots')
  <2>1. UsedSlots' = UsedSlots \ {i} /\ i \in UsedSlots
    BY <1>3, <1>5 DEF UsedSlots
  <2>2. IsFiniteSet(UsedSlots)
    <3>1. UsedSlots \in SUBSET Files!Slots
      BY DEF UsedSlots
    <3> QED BY <3>1, FilesSets, FS_Subset
  <2>3. Cardinality(UsedSlots \ {i}) = Cardinality(UsedSlots) - 1
    BY <2>1, <2>2, FS_RemoveElement
  <2> QED BY <1>2, <2>1, <2>3 DEF FilesInv
<1> QED BY <1>2, <1>5, <1>7, <1>8, <1>9, <1>10, <1>11 DEF FilesInv


\* A plan gives free blocks to the positions that have none, a different one each,
\* keeps the others, and ends inside a file.
PlanOK(i, plan) ==
  /\ plan.missing \in SUBSET Files!FileBlocks /\ IsFiniteSet(plan.missing)
  /\ plan.blocks \in [Files!FileBlocks -> Files!Blocks]
  /\ \A k \in plan.missing : entries[i].blocks[k] = 0 /\ plan.blocks[k] \in Files!Clear
  /\ \A k \in Files!FileBlocks : k \notin plan.missing => plan.blocks[k] = entries[i].blocks[k]
  /\ \A k, l \in plan.missing : plan.blocks[k] = plan.blocks[l] => k = l
  /\ plan.end \in 0 .. Wrap - 1

\* A product grows with its first factor.
LEMMA ProductGrows ==
  ASSUME NEW a \in Nat, NEW b \in Nat, NEW c \in Nat, a <= b
  PROVE  a * c <= b * c /\ a * c \in Nat /\ b * c \in Nat
<1>1. PICK d \in Nat : b = a + d
  <2>1. b - a \in Nat /\ b = a + (b - a)
    OBVIOUS
  <2> QED BY <2>1
<1>2. (a + d) * c = a * c + d * c /\ a * c \in Nat /\ d * c \in Nat
  OBVIOUS
<1>3. \A u, v \in Nat : u <= u + v
  OBVIOUS
<1>4. a * c <= a * c + d * c
  BY <1>2, <1>3
<1> QED BY <1>1, <1>2, <1>4

\* Where a write that reached the blocks in done stops: at the end of the last of them,
\* or of what was to be written.
EndsAt(end, done, offset, size) ==
  \/ done = {} /\ end = offset
  \/ \E k \in done : /\ \A j \in done : j <= k
                     /\ offset < end /\ end <= offset + size /\ end <= (k + 1) * BlockSize /\ end <= Files!MaxSize
                     /\ end \in Nat

\* A write that stops early ends where the last block it reached ends.
LEMMA EndReached ==
  ASSUME NEW offset \in 0 .. Wrap - 1, NEW size \in Int, NEW done \in SUBSET Files!Span(offset, size)
  PROVE  EndsAt(IF done = {} THEN offset
                ELSE Files!Min({offset + size, (Files!Max(done) + 1) * BlockSize}), done, offset, size)
<1>1. CASE done = {}
  BY <1>1 DEF EndsAt
<1>2. CASE done # {}
  <2>0. /\ BlocksPerFile \in Nat \ {0} /\ BlockSize \in Nat \ {0}
        /\ Files!MaxSize = BlockSize * BlocksPerFile /\ Files!MaxSize \in Nat
    BY FilesNumbers
  <2>1. done \in SUBSET (0 .. BlocksPerFile - 1)
    BY DEF Files!Span, Files!FileBlocks
  <2>2. Files!Max(done) \in done /\ \A j \in done : Files!Max(done) >= j
    <3>1. PICK m \in Nat : m = BlocksPerFile - 1
      BY <2>0
    <3> QED BY <1>2, <2>1, <3>1, Greatest
  <2>3. PICK k \in done : k = Files!Max(done) /\ \A j \in done : k >= j
    BY <2>2
  <2>4. k \in 0 .. BlocksPerFile - 1 /\ size > 0 /\ (k + 1) * BlockSize > offset
    BY <2>1 DEF Files!Span
  <2>5. PICK a \in Int : a = offset + size
    OBVIOUS
  <2>6. PICK b \in Nat : b = (k + 1) * BlockSize /\ b <= Files!MaxSize
    <3>1. k + 1 \in Nat /\ k + 1 <= BlocksPerFile /\ BlocksPerFile \in Nat /\ BlockSize \in Nat
      BY <2>0, <2>4
    <3>2. (k + 1) * BlockSize <= BlocksPerFile * BlockSize /\ (k + 1) * BlockSize \in Nat
      BY <3>1, ProductGrows
    <3>3. BlocksPerFile * BlockSize = BlockSize * BlocksPerFile
      BY <2>0
    <3> QED BY <2>0, <3>2, <3>3
  <2>7. Files!Min({a, b}) = IF a <= b THEN a ELSE b
    BY <2>5, <2>6, OfTwo
  <2>8. PICK end : end = Files!Min({a, b})
    OBVIOUS
  <2>9. offset < end /\ end <= a /\ end <= b /\ end <= Files!MaxSize /\ end \in Nat
    BY <2>0, <2>4, <2>5, <2>6, <2>7, <2>8
  <2>10. \A j \in done : j <= k
    BY <2>1, <2>3
  <2>11. EndsAt(end, done, offset, size)
    BY <2>5, <2>6, <2>9, <2>10 DEF EndsAt
  <2> QED BY <1>2, <2>3, <2>5, <2>6, <2>8, <2>11, Zenon
<1> QED BY <1>1, <1>2

\* The position a write that reached the blocks in done stops at.
LEMMA EndInFile ==
  ASSUME NEW offset \in 0 .. Wrap - 1, NEW size \in Int, NEW done \in SUBSET Files!Span(offset, size)
  PROVE  (IF done = {} THEN offset
          ELSE Files!Min({offset + size, (Files!Max(done) + 1) * BlockSize})) \in 0 .. Wrap - 1
<1>1. PICK end : end = IF done = {} THEN offset
                       ELSE Files!Min({offset + size, (Files!Max(done) + 1) * BlockSize})
  OBVIOUS
<1>2. EndsAt(end, done, offset, size)
  BY <1>1, EndReached, Zenon
<1>3. Wrap \in Nat \ {0} /\ Files!MaxSize \in Nat /\ Wrap > Files!MaxSize
  BY FilesNumbers
<1>4. end \in 0 .. Wrap - 1
  BY <1>2, <1>3 DEF EndsAt
<1> QED BY <1>1, <1>4

\* Among the free blocks there is one of every rank, so ClearAt finds it.
LEMMA ClearAtRank ==
  ASSUME NEW r \in 1 .. Cardinality(Files!Clear)
  PROVE  Files!ClearAt(r) \in Files!Clear /\ Files!Rank(Files!Clear, Files!ClearAt(r)) = r
<1>1. \E b \in Files!Clear : Files!Rank(Files!Clear, b) = r
  <2>1. PICK c : c = Files!Clear
    OBVIOUS
  <2>2. \E b \in c : Files!Rank(c, b) = r
    BY <2>1, ClearFinite, Ranks
  <2> QED BY <2>1, <2>2, Zenon
<1> QED BY <1>1, Zenon DEF Files!ClearAt

\* What a write does to the blocks of its file.
LEMMA PlanFacts ==
  ASSUME FilesInv, NEW i \in Files!Slots, NEW offset \in 0 .. Wrap - 1, NEW size \in Int,
         NEW plan, plan = Files!Plan(i, offset, size)
  PROVE  PlanOK(i, plan)
<1>1. PICK span : span = Files!Span(offset, size)
  OBVIOUS
<1>2. PICK lacking : lacking = {k \in span : entries[i].blocks[k] = 0}
  OBVIOUS
<1>3. PICK n : n = Cardinality(Files!Clear)
  OBVIOUS
<1>4. PICK done : done = {k \in span : Files!Rank(lacking, k) <= n}
  OBVIOUS
<1>5. PICK ends : ends = IF done = {} THEN offset
                         ELSE Files!Min({offset + size, (Files!Max(done) + 1) * BlockSize})
  OBVIOUS
<1>6. plan = [missing |-> lacking \cap done, done |-> done,
              blocks  |-> [k \in Files!FileBlocks |-> IF k \in lacking \cap done
                                                        THEN Files!ClearAt(Files!Rank(lacking, k))
                                                        ELSE entries[i].blocks[k]],
              end |-> ends]
  BY <1>1, <1>2, <1>3, <1>4, <1>5, SameCardinality, Zenon DEF Files!Plan
<1>7. /\ plan.missing = lacking \cap done /\ plan.end = ends
      /\ plan.blocks = [k \in Files!FileBlocks |-> IF k \in lacking \cap done
                                                     THEN Files!ClearAt(Files!Rank(lacking, k))
                                                     ELSE entries[i].blocks[k]]
  BY <1>6
<1>8. span \in SUBSET Files!FileBlocks /\ lacking \in SUBSET Files!FileBlocks
      /\ Files!FileBlocks \in SUBSET Int /\ IsFiniteSet(Files!FileBlocks)
  <2>1. BlocksPerFile \in Nat \ {0} /\ BlocksPerFile - 1 \in Int /\ 0 \in Int
    BY FilesNumbers
  <2> QED BY <1>1, <1>2, <2>1, FS_Interval DEF Files!Span, Files!FileBlocks
<1>9. IsFiniteSet(lacking) /\ lacking \in SUBSET Int
  BY <1>8, FS_Subset
<1>10. \A k \in plan.missing : k \in lacking /\ Files!Rank(lacking, k) \in 1 .. n
  <2> TAKE k \in plan.missing
  <2>1. k \in lacking /\ Files!Rank(lacking, k) <= n
    BY <1>4, <1>7
  <2>2. Files!Rank(lacking, k) \in 1 .. Cardinality(lacking) /\ Cardinality(lacking) \in Nat
    BY <1>9, <2>1, Ranks
  <2>3. n \in Nat
    BY <1>3, ClearFinite
  <2> QED BY <2>1, <2>2, <2>3
<1>11. \A k \in plan.missing : /\ entries[i].blocks[k] = 0 /\ plan.blocks[k] \in Files!Clear
                               /\ Files!Rank(Files!Clear, plan.blocks[k]) = Files!Rank(lacking, k)
  <2> TAKE k \in plan.missing
  <2>1. PICK r \in 1 .. n : r = Files!Rank(lacking, k)
    BY <1>10
  <2>2. plan.blocks[k] = Files!ClearAt(r)
    BY <1>7, <1>8, <1>10, <2>1
  <2>3. Files!ClearAt(r) \in Files!Clear /\ Files!Rank(Files!Clear, Files!ClearAt(r)) = r
    BY <1>3, <2>1, ClearAtRank
  <2>4. entries[i].blocks[k] = 0
    BY <1>2, <1>10
  <2> QED BY <2>1, <2>2, <2>3, <2>4, Zenon
<1>12. \A k, l \in plan.missing : plan.blocks[k] = plan.blocks[l] => k = l
  <2> SUFFICES ASSUME NEW k \in plan.missing, NEW l \in plan.missing, plan.blocks[k] = plan.blocks[l]
               PROVE  k = l
    OBVIOUS
  <2>1. Files!Rank(lacking, k) = Files!Rank(lacking, l)
    BY <1>11, Zenon
  <2>2. k \in lacking /\ l \in lacking
    BY <1>10
  <2>3. \A x, y \in lacking : Files!Rank(lacking, x) = Files!Rank(lacking, y) => x = y
    BY <1>9, Ranks
  <2> QED BY <2>1, <2>2, <2>3, Zenon
<1>13. plan.blocks \in [Files!FileBlocks -> Files!Blocks]
  <2>1. \A k \in Files!FileBlocks : entries[i].blocks[k] \in Files!Blocks
    BY EntryFacts
  <2>2. \A k \in Files!FileBlocks : plan.blocks[k] \in Files!Blocks
    <3> TAKE k \in Files!FileBlocks
    <3>1. CASE k \in plan.missing
      BY <1>11, <3>1, ClearFinite
    <3>2. CASE k \notin plan.missing
      BY <1>7, <2>1, <3>2
    <3> QED BY <3>1, <3>2
  <2> QED BY <1>7, <2>2
<1>14. plan.end \in 0 .. Wrap - 1
  <2>1. done \in SUBSET Files!Span(offset, size)
    BY <1>1, <1>4
  <2> QED BY <1>5, <1>7, <2>1, EndInFile, Zenon
<1>15. \A k \in Files!FileBlocks : k \notin plan.missing => plan.blocks[k] = entries[i].blocks[k]
  BY <1>7
<1>16. plan.missing \in SUBSET Files!FileBlocks /\ IsFiniteSet(plan.missing)
  BY <1>7, <1>8, <1>9, FS_Subset
<1> QED BY <1>11, <1>12, <1>13, <1>14, <1>15, <1>16 DEF PlanOK


\* tfs_write marks and counts the blocks it gives to its file, and takes no other file's.
LEMMA WriteKeeps ==
  ASSUME FilesInv, NEW n \in Names, NEW byte \in Bytes, NEW size \in Sizes, NEW offset \in Offsets,
         Files!Write(n, byte, size, offset)
  PROVE  FilesInv'
<1>0. offset \in 0 .. Wrap - 1 /\ Files!Clamped(offset, size) \in Int
  <2>1. offset \in 0 .. Wrap - 1 /\ size \in 0 .. Wrap - 1 /\ Wrap \in Nat \ {0}
    BY FilesNumbers
  <2>2. PICK top \in Nat : top = Files!MaxSize
    BY FilesNumbers
  <2>3. (top - offset) % Wrap \in Int
    BY <2>1, <2>2
  <2> QED BY <2>1, <2>2, <2>3 DEF Files!Clamped
<1>1. PICK i \in Files!Find(n) :
        \E plan \in {Files!Plan(i, offset, Files!Clamped(offset, size))} :
          /\ entries' = [entries EXCEPT ![i].blocks = plan.blocks, ![i].size = Files!Max({@, plan.end})]
          /\ bitmap' = Files!Taken(plan)
          /\ freeBlocks' = freeBlocks - Files!Cardinality(plan.missing)
          /\ data' = Files!Stored(plan, offset, byte)
          /\ UNCHANGED numFiles
  BY Zenon DEF Files!Write
<1>2. PICK plan : /\ plan = Files!Plan(i, offset, Files!Clamped(offset, size))
                  /\ entries' = [entries EXCEPT ![i].blocks = plan.blocks, ![i].size = Files!Max({@, plan.end})]
                  /\ bitmap' = Files!Taken(plan)
                  /\ freeBlocks' = freeBlocks - Files!Cardinality(plan.missing)
                  /\ data' = Files!Stored(plan, offset, byte)
                  /\ UNCHANGED numFiles
  BY <1>1, Zenon
<1>3. i \in Files!Slots /\ entries[i].used
  BY <1>1 DEF Files!Find
<1>4. PlanOK(i, plan)
  BY <1>0, <1>2, <1>3, PlanFacts
<1>5. entries[i] \in Files!Entry /\ entries[i].size \in 0 .. Wrap - 1
  BY <1>3 DEF FilesInv, Files!Entry
<1>6. PICK s : s = Files!Max({entries[i].size, plan.end})
  OBVIOUS
<1>7. s \in 0 .. Wrap - 1
  <2>1. PICK a \in 0 .. Wrap - 1 : a = entries[i].size
    BY <1>5
  <2>2. PICK b \in 0 .. Wrap - 1 : b = plan.end
    BY <1>4 DEF PlanOK
  <2>3. Files!Max({a, b}) = IF a >= b THEN a ELSE b
    BY OfTwo
  <2>4. Files!Max({a, b}) \in 0 .. Wrap - 1
    BY <2>3
  <2> QED BY <1>6, <2>1, <2>2, <2>4, Zenon
<1>8. entries' = [entries EXCEPT ![i].blocks = plan.blocks, ![i].size = s]
  BY <1>2, <1>6, Zenon
<1>9. /\ entries' \in [Files!Slots -> Files!Entry]
      /\ entries'[i].used = entries[i].used /\ entries'[i].name = entries[i].name
      /\ entries'[i].blocks = plan.blocks
      /\ \A j \in Files!Slots : j # i => entries'[j] = entries[j]
  <2>1. entries \in [Files!Slots -> Files!Entry] /\ plan.blocks \in [Files!FileBlocks -> Files!Blocks]
    BY <1>4 DEF FilesInv, PlanOK
  <2>2. PICK bl \in [Files!FileBlocks -> Files!Blocks] : bl = plan.blocks
    BY <2>1
  <2>3. entries' = [entries EXCEPT ![i].blocks = bl, ![i].size = s]
    BY <1>8, <2>2
  <2> QED BY <1>3, <1>7, <2>1, <2>2, <2>3 DEF Files!Entry
<1>10. /\ \A k \in plan.missing : entries'[i].blocks[k] \in Files!Clear /\ entries[i].blocks[k] = 0
       /\ \A k \in Files!FileBlocks : k \notin plan.missing => entries'[i].blocks[k] = entries[i].blocks[k]
       /\ \A k, l \in plan.missing : entries'[i].blocks[k] = entries'[i].blocks[l] => k = l
       /\ plan.missing \in SUBSET Files!FileBlocks
  BY <1>4, <1>9 DEF PlanOK
<1>11. \A j \in Files!Slots : \A k \in Files!FileBlocks : entries[j].blocks[k] \notin Files!Clear
  <2> TAKE j \in Files!Slots
  <2> TAKE k \in Files!FileBlocks
  <2>1. entries[j].blocks[k] \in Files!Blocks
    BY EntryFacts
  <2>2. entries[j].blocks[k] \in bitmap
    BY <2>1 DEF FilesInv, BitmapRight
  <2> QED BY <2>2 DEF Files!Clear
<1>12. BlocksApart'
  <2> SUFFICES ASSUME NEW j \in Files!Slots, NEW h \in Files!Slots,
                      NEW k \in Files!FileBlocks, NEW l \in Files!FileBlocks,
                      entries'[j].blocks[k] # 0, entries'[j].blocks[k] = entries'[h].blocks[l]
               PROVE  j = h /\ k = l
    BY DEF BlocksApart
  <2>1. \/ j = i /\ k \in plan.missing /\ entries'[j].blocks[k] \in Files!Clear
        \/ ~(j = i /\ k \in plan.missing) /\ entries'[j].blocks[k] = entries[j].blocks[k]
    BY <1>9, <1>10
  <2>2. \/ h = i /\ l \in plan.missing /\ entries'[h].blocks[l] \in Files!Clear
        \/ ~(h = i /\ l \in plan.missing) /\ entries'[h].blocks[l] = entries[h].blocks[l]
    BY <1>9, <1>10
  <2>3. CASE j = i /\ k \in plan.missing
    <3>1. h = i /\ l \in plan.missing
      BY <1>10, <1>11, <2>2, <2>3
    <3> QED BY <1>10, <2>3, <3>1
  <2>4. CASE ~(j = i /\ k \in plan.missing)
    <3>1. entries'[h].blocks[l] = entries[h].blocks[l]
      BY <1>11, <2>1, <2>2, <2>4
    <3> QED BY <2>1, <2>4, <3>1 DEF FilesInv, BlocksApart
  <2> QED BY <2>3, <2>4
<1>13. PICK given : given = {plan.blocks[k] : k \in plan.missing}
  OBVIOUS
<1>14. /\ given \in SUBSET Files!Clear
       /\ \A b : b \in given <=> \E k \in plan.missing : entries'[i].blocks[k] = b
       /\ bitmap' = bitmap \cup given
  <2>1. bitmap' = bitmap \cup given
    BY <1>2, <1>13 DEF Files!Taken
  <2>2. \A b : b \in given <=> \E k \in plan.missing : entries'[i].blocks[k] = b
    BY <1>9, <1>13
  <2> QED BY <1>10, <2>1, <2>2
<1>15. bitmap' \in SUBSET Files!Blocks
  BY <1>14, ClearFinite DEF FilesInv
<1>16. BitmapRight'
  <2>1. ASSUME NEW b \in Files!Blocks
        PROVE  b \in bitmap' <=> b = 0 \/ \E j \in Files!Slots : \E k \in Files!FileBlocks : entries'[j].blocks[k] = b
    <3>1. b \in bitmap <=> b = 0 \/ \E j \in Files!Slots : \E k \in Files!FileBlocks : entries[j].blocks[k] = b
      BY DEF FilesInv, BitmapRight
    <3>2. CASE b = 0
      BY <1>14, <3>1, <3>2
    <3>3. CASE b \in given
      BY <1>3, <1>10, <1>14, <3>3
    <3>4. CASE b # 0 /\ b \notin given
      <4>1. \A k \in plan.missing : entries'[i].blocks[k] # b /\ entries[i].blocks[k] # b
        BY <1>10, <1>14, <3>4
      <4>2. \A j \in Files!Slots : \A k \in Files!FileBlocks : entries'[j].blocks[k] = b <=> entries[j].blocks[k] = b
        <5> TAKE j \in Files!Slots
        <5> TAKE k \in Files!FileBlocks
        <5>1. CASE j = i /\ k \in plan.missing
          BY <4>1, <5>1
        <5>2. CASE ~(j = i /\ k \in plan.missing)
          <6>1. entries'[j].blocks[k] = entries[j].blocks[k]
            BY <1>9, <1>10, <5>2
          <6> QED BY <6>1
        <5> QED BY <5>1, <5>2
      <4> QED BY <1>14, <3>1, <3>4, <4>2
    <3> QED BY <3>2, <3>3, <3>4
  <2> QED BY <2>1 DEF BitmapRight
<1>17. NamesOnce' /\ UnusedEmpty'
  <2>1. \A j \in Files!Slots : entries'[j].used = entries[j].used /\ entries'[j].name = entries[j].name
    BY <1>9
  <2>2. NamesOnce'
    BY <2>1 DEF FilesInv, NamesOnce
  <2>3. UnusedEmpty'
    <3> SUFFICES ASSUME NEW j \in Files!Slots, ~entries'[j].used, NEW k \in Files!FileBlocks
                 PROVE  entries'[j].blocks[k] = 0
      BY DEF UnusedEmpty
    <3>1. j # i /\ ~entries[j].used
      BY <1>3, <2>1
    <3> QED BY <1>9, <3>1 DEF FilesInv, UnusedEmpty
  <2> QED BY <2>2, <2>3
<1>18. UsedSlots' = UsedSlots
  BY <1>9 DEF UsedSlots
<1>19. data' \in [Files!Blocks -> [0 .. BlockSize - 1 -> Bytes]]
  <2>1. \A b \in Files!Blocks : \A x \in 0 .. BlockSize - 1 : data[b][x] \in Bytes
    BY DEF FilesInv
  <2> QED BY <1>2, <2>1 DEF Files!Stored
<1>20. freeBlocks' = Cardinality(Files!Clear')
  <2>1. PICK c : c = Files!Clear
    OBVIOUS
  <2>2. PICK m : m = plan.missing
    OBVIOUS
  <2>3. IsFiniteSet(m) /\ IsFiniteSet(c) /\ given \in SUBSET c
    BY <1>4, <1>14, <2>1, <2>2, ClearFinite DEF PlanOK
  <2>4. Cardinality(given) = Cardinality(m)
    <3>1. PICK f : f = [k \in m |-> entries'[i].blocks[k]]
      OBVIOUS
    <3>2. f \in Bijection(m, given)
      <4>1. f \in [m -> given] /\ \A k \in m : f[k] = entries'[i].blocks[k]
        BY <1>14, <2>2, <3>1
      <4>2. f \in Injection(m, given)
        BY <1>10, <2>2, <4>1 DEF Injection, IsInjective
      <4>3. f \in Surjection(m, given)
        BY <1>14, <2>2, <4>1 DEF Surjection
      <4> QED BY <4>2, <4>3 DEF Bijection
    <3> QED BY <2>3, <3>2, FS_Bijection DEF ExistsBijection
  <2>5. Cardinality(c \ given) = Cardinality(c) - Cardinality(c \cap given)
    BY <2>3, FS_Difference
  <2>6. c \cap given = given
    BY <2>3
  <2>7. Files!Clear' = c \ given
    BY <1>14, <2>1 DEF Files!Clear
  <2>8. freeBlocks' = Cardinality(c) - Cardinality(m)
    <3>1. freeBlocks' = freeBlocks - Cardinality(m)
      BY <1>2, <2>2, SameCardinality, Zenon
    <3>2. freeBlocks = Cardinality(c)
      BY <2>1 DEF FilesInv
    <3> QED BY <3>1, <3>2
  <2> QED BY <2>4, <2>5, <2>6, <2>7, <2>8
<1> QED BY <1>2, <1>9, <1>12, <1>15, <1>16, <1>17, <1>18, <1>19, <1>20 DEF FilesInv

\* Every step of torFS preserves the invariant of the files.
LEMMA FilesKeep == FilesInv /\ [Files!Next]_fileVars => FilesInv'
<1> SUFFICES ASSUME FilesInv, [Files!Next]_fileVars PROVE FilesInv'
  OBVIOUS
<1>1. CASE Files!Next
  BY <1>1, CreateKeeps, DeleteKeeps, WriteKeeps DEF Files!Next
<1>2. CASE UNCHANGED fileVars
  BY <1>2 DEF fileVars, FilesInv, BlocksApart, BitmapRight, NamesOnce, UnusedEmpty, UsedSlots, Files!Clear
<1> QED BY <1>1, <1>2


-----------------------------------------------------------------------------
(* The page tables.                                                        *)

Mappings == [va : VAs, pa : PAs, must : BOOLEAN]

\* The page tables start with their types.
LEMMA TablesInitial == Init => TypeOK
<1> SUFFICES ASSUME Init PROVE TypeOK
  OBVIOUS
<1>1. MMTypeOK
  BY MMInitInv DEF Init, MMInv
<1>2. mem \in [Frames -> [Indices -> Int]]
  BY VmAssumption DEF Init, JunkTable
<1>3. boot \in Panicked .. Len(KernelMap)
  <2>1. Len(KernelMap) \in Nat
    BY VmAssumption
  <2> QED BY <2>1 DEF Init, Panicked
<1> QED BY <1>1, <1>2, <1>3 DEF Init, TypeOK

\* The table alloc_table cleared is vm.c's page.
LEMMA TableTaken ==
  ASSUME MMTypeOK, NEW f \in Frames, AllocTable(f)
  PROVE  f \in held'[Vm] /\ held[Vm] \in SUBSET held'[Vm] /\ f \in Int
<1>1. PICK i \in Bits : FirstClear(i) /\ f = Frame(i)
  BY DEF AllocTable
<1>2. PICK j \in Bits : FirstClear(j) /\ held' = [held EXCEPT ![Vm] = @ \cup {Frame(j)}]
  BY DEF AllocTable, PageAlloc
<1>3. i \in Nat /\ j \in Nat
  BY PagesAssumption DEF Bits
<1>4. i = j
  <2>1. ~(i < j) /\ ~(j < i)
    BY <1>1, <1>2, <1>3 DEF FirstClear
  <2> QED BY <1>3, <2>1
<1>5. held'[Vm] = held[Vm] \cup {f}
  BY <1>1, <1>2, <1>4, VmAssumption DEF MMTypeOK
<1>6. f \in Int
  BY <1>1, <1>3, PagesAssumption DEF Frame
<1> QED BY <1>5, <1>6

\* An entry of a frame, or of no frame, changes.
LEMMA EntryWritten ==
  ASSUME NEW m \in [Frames -> [Indices -> Int]], NEW t, NEW x, NEW v \in Int
  PROVE  [m EXCEPT ![t][x] = v] \in [Frames -> [Indices -> Int]]
OBVIOUS

\* Every step of the page tables preserves their types.
LEMMA TablesKeep == TypeOK /\ MMInv /\ [Next]_vars => TypeOK'
<1> SUFFICES ASSUME TypeOK, MMInv, [Next]_vars PROVE TypeOK'
  OBVIOUS
<1>0. MMInv' /\ MMTypeOK'
  BY StepUsesAllocator, MMKeeps DEF MMInv
<1>1. /\ mem \in [Frames -> [Indices -> Int]] /\ pgd \in held[Vm] \cup {NONE}
      /\ op = NoOp \/ op \in Mappings
      /\ boot \in Panicked .. Len(KernelMap) /\ Len(KernelMap) \in Nat /\ MMTypeOK
  BY VmAssumption DEF TypeOK, Mappings
<1>2. \A f \in Frames : Cleared(f) \in [Frames -> [Indices -> Int]]
  BY <1>1 DEF Cleared, EmptyTable, NONE
<1>3. Finished => boot' \in Panicked .. Len(KernelMap)
  BY <1>1 DEF Finished, Booting, Panicked
<1>4. \A p \in Mappings : p.va \in VAs /\ p.pa \in Int
  BY VmAssumption DEF Mappings
<1>5. TypeOK' <=> /\ mem' \in [Frames -> [Indices -> Int]] /\ pgd' \in held'[Vm] \cup {NONE}
                  /\ op' = NoOp \/ op' \in Mappings
                  /\ boot' \in Panicked .. Len(KernelMap)
  BY <1>0 DEF TypeOK, Mappings
<1>6. CASE StartVm
  <2>1. PICK f \in Frames : AllocTable(f) /\ pgd' = f /\ mem' = Cleared(f)
    BY <1>6 DEF StartVm
  <2>2. f \in held'[Vm]
    BY <1>1, <2>1, TableTaken
  <2>3. UNCHANGED <<op, boot>>
    BY <1>6 DEF StartVm
  <2> QED BY <1>1, <1>2, <1>5, <2>1, <2>2, <2>3
<1>7. CASE StartVmPanics
  <2>1. boot' = Panicked /\ UNCHANGED <<held, mem, pgd, op>>
    BY <1>7 DEF StartVmPanics, mmVars
  <2> QED BY <1>1, <1>5, <2>1 DEF Panicked
<1>8. CASE BeginBootMap
  <2>1. boot \in 0 .. Len(KernelMap) - 1 /\ op' = KernelMap[boot + 1] /\ UNCHANGED <<held, mem, pgd, boot>>
    BY <1>8 DEF BeginBootMap, mmVars, Booting
  <2>2. PICK k \in 1 .. Len(KernelMap) : k = boot + 1
    BY <1>1, <2>1
  <2>3. KernelMap[k] \in Mappings
    <3>1. PICK M : M = Mappings
      OBVIOUS
    <3>2. KernelMap \in Seq(M)
      BY <3>1, VmAssumption, Zenon DEF Mappings
    <3>3. KernelMap[k] \in M
      BY <2>2, <3>2
    <3> QED BY <3>1, <3>3
  <2>4. op' = KernelMap[k]
    BY <2>1, <2>2, Zenon
  <2> QED BY <1>1, <1>5, <2>1, <2>3, <2>4
<1>9. CASE BeginUserMap
  <2>1. PICK va \in VAs, pa \in PAs : op' = [va |-> va, pa |-> pa, must |-> FALSE]
    BY <1>9 DEF BeginUserMap
  <2>2. op' \in Mappings
    BY <2>1 DEF Mappings
  <2>3. UNCHANGED <<held, mem, pgd, boot>>
    BY <1>9 DEF BeginUserMap, mmVars
  <2> QED BY <1>1, <1>5, <2>2, <2>3
<1>10. CASE AddTable
  <2>1. PICK n \in 1 .. 3, f \in Frames :
           AllocTable(f) /\ mem' = [Cleared(f) EXCEPT ![TableAt(op.va, n - 1)][op.va[n]] = f]
    BY <1>10 DEF AddTable
  <2>2. f \in Int /\ held[Vm] \in SUBSET held'[Vm]
    BY <1>1, <2>1, TableTaken
  <2>3. PICK m \in [Frames -> [Indices -> Int]] : m = Cleared(f)
    BY <1>2
  <2>4. PICK t, x : t = TableAt(op.va, n - 1) /\ x = op.va[n]
    OBVIOUS
  <2>5. mem' = [m EXCEPT ![t][x] = f]
    BY <2>1, <2>3, <2>4, Zenon
  <2>6. mem' \in [Frames -> [Indices -> Int]]
    BY <2>2, <2>5, EntryWritten
  <2>7. UNCHANGED <<pgd, op, boot>>
    BY <1>10 DEF AddTable
  <2> QED BY <1>1, <1>5, <2>2, <2>6, <2>7
<1>11. CASE MapFails
  <2>1. op' = NoOp /\ (boot' = Panicked \/ Finished) /\ UNCHANGED <<held, mem, pgd>>
    BY <1>11 DEF MapFails, mmVars
  <2>2. boot' \in Panicked .. Len(KernelMap)
    BY <1>1, <1>3, <2>1 DEF Panicked
  <2> QED BY <1>1, <1>5, <2>1, <2>2
<1>12. CASE SetEntry
  <2>1. /\ op # NoOp /\ mem' = [mem EXCEPT ![TableAt(op.va, 3)][op.va[4]] = op.pa]
        /\ op' = NoOp /\ Finished /\ UNCHANGED <<held, pgd>>
    BY <1>12 DEF SetEntry, mmVars
  <2>2. PICK m \in [Frames -> [Indices -> Int]] : m = mem
    BY <1>1
  <2>3. PICK v \in Int : v = op.pa
    BY <1>1, <1>4, <2>1
  <2>4. PICK t, x : t = TableAt(op.va, 3) /\ x = op.va[4]
    OBVIOUS
  <2>5. mem' = [m EXCEPT ![t][x] = v]
    BY <2>1, <2>2, <2>3, <2>4, Zenon
  <2>6. mem' \in [Frames -> [Indices -> Int]]
    BY <2>5, EntryWritten
  <2> QED BY <1>1, <1>3, <1>5, <2>1, <2>6
<1>13. CASE UserUnmap
  <2>1. PICK va \in VAs : mem' = [mem EXCEPT ![TableAt(va, 3)][va[4]] = NONE]
    BY <1>13 DEF UserUnmap
  <2>2. PICK m \in [Frames -> [Indices -> Int]] : m = mem
    BY <1>1
  <2>3. PICK t, x : t = TableAt(va, 3) /\ x = va[4]
    OBVIOUS
  <2>4. mem' = [m EXCEPT ![t][x] = NONE] /\ NONE \in Int
    BY <2>1, <2>2, <2>3 DEF NONE
  <2>5. mem' \in [Frames -> [Indices -> Int]]
    BY <2>4, EntryWritten
  <2>6. UNCHANGED <<held, pgd, op, boot>>
    BY <1>13 DEF UserUnmap, mmVars
  <2> QED BY <1>1, <1>5, <2>5, <2>6
<1>14. CASE OtherAlloc \/ OtherFree
  <2>1. UNCHANGED <<mem, pgd, op, boot>>
    BY <1>14 DEF OtherAlloc, OtherFree
  <2>2. \E c \in Clients \ {Vm} : PageAlloc(c) \/ PageFree(c)
    BY <1>14 DEF OtherAlloc, OtherFree
  <2>3. held'[Vm] = held[Vm]
    BY <1>1, <2>2, VmAssumption DEF PageAlloc, PageFree, MMTypeOK
  <2> QED BY <1>1, <1>5, <2>1, <2>3
<1>15. CASE \E words \in 1 .. HeapWords : HeapObject(words)
  <2>1. /\ mem' = [f \in Frames |-> IF f \in HeapSpan(heapPtr, heapPtr') THEN JunkTable ELSE mem[f]]
        /\ UNCHANGED <<pgd, op, boot>> /\ held' = held
    BY <1>15 DEF HeapObject, Kmalloc
  <2>2. mem' \in [Frames -> [Indices -> Int]]
    BY <1>1, <2>1, VmAssumption DEF JunkTable
  <2> QED BY <1>1, <1>5, <2>1, <2>2
<1>16. CASE UNCHANGED vars
  BY <1>1, <1>5, <1>16 DEF vars, mmVars
<1> QED
  BY <1>6, <1>7, <1>8, <1>9, <1>10, <1>11, <1>12, <1>13, <1>14, <1>15, <1>16 DEF Next

-----------------------------------------------------------------------------
(* The pages and torFS, each of which leaves the other alone.              *)

MemoryInv == MMInv /\ TypeOK /\ FilesInv

\* The invariants of frames, tables and files hold in every reachable state.
LEMMA MemoryInvariance == MemorySpec => []MemoryInv
<1>1. MemoryInit => MemoryInv
  BY MMInitInv, TablesInitial, FilesInitial DEF MemoryInit, MemoryInv, Init
<1>2. MemoryInv /\ [MemoryNext]_<<vars, fileVars, part>> => MemoryInv'
  <2> SUFFICES ASSUME MemoryInv, [MemoryNext]_<<vars, fileVars, part>> PROVE MemoryInv'
    OBVIOUS
  <2>1. [Next]_vars /\ [Files!Next]_fileVars
    BY DEF MemoryNext
  <2>2. MMInv' /\ TypeOK'
    BY <2>1, StepUsesAllocator, MMKeeps, TablesKeep DEF MemoryInv
  <2>3. FilesInv'
    BY <2>1, FilesKeep DEF MemoryInv
  <2> QED BY <2>2, <2>3 DEF MemoryInv
<1> QED BY <1>1, <1>2, PTL DEF MemorySpec

\* Whatever was created, grown by short writes and deleted, no block of torFS is
\* in two places, all are accounted for and counted, a name is in the table once,
\* and the tables of vm.c hold entries (kernel/fs.c, kernel/vm.c).
THEOREM BlocksAccountedCorrect == MemorySpec => []BlocksAccounted
<1>1. MemoryInv => BlocksAccounted
  BY FilesFacts DEF MemoryInv, BlocksAccounted
<1> QED BY <1>1, MemoryInvariance, PTL

-----------------------------------------------------------------------------
(* What the page tables translate to.                                      *)

\* The table that the tables m lead to from g along the first n indices of va.
Look(m, f, x) == IF f \in Frames THEN m[f][x] ELSE NONE
AlongIs(m, g, va, t, n) == t = [k \in 0 .. n |-> IF k = 0 THEN g ELSE Look(m, t[k - 1], va[k])]
Along(m, g, va, n) ==
  LET t[k \in 0 .. n] == IF k = 0 THEN g ELSE Look(m, t[k - 1], va[k])
  IN  t[n]

\* The table a walk reaches is a function of memory and root alone.
LEMMA TableAlong ==
  \A va, n : TableAt(va, n) = Along(mem, pgd, va, n) /\ TableAt(va, n)' = Along(mem', pgd', va, n)
BY Zenon DEF TableAt, Entry, Along, Look

\* No frame is the number that stands for none.
LEMMA NoFrame == NONE \notin Frames /\ Frames \in SUBSET Int
BY PagesAssumption DEF NONE, Frames, Frame, Bits

\* Level after level.
LEMMA AlongSteps ==
  ASSUME NEW m, NEW g, NEW va
  PROVE  Along(m, g, va, 0) = g /\ \A k \in 0 .. 3 : Along(m, g, va, k + 1) = Look(m, Along(m, g, va, k), va[k + 1])
<1>1. \A n : Along(m, g, va, n) = (CHOOSE t : AlongIs(m, g, va, t, n))[n]
  BY Zenon DEF Along, AlongIs
<1>2. PICK a0, a1, a2, a3, a4 :
        /\ a0 = g /\ a1 = Look(m, a0, va[1]) /\ a2 = Look(m, a1, va[2])
        /\ a3 = Look(m, a2, va[3]) /\ a4 = Look(m, a3, va[4])
  <2>1. PICK b0 : b0 = g
    OBVIOUS
  <2>2. PICK b1 : b1 = Look(m, b0, va[1])
    OBVIOUS
  <2>3. PICK b2 : b2 = Look(m, b1, va[2])
    OBVIOUS
  <2>4. PICK b3 : b3 = Look(m, b2, va[3])
    OBVIOUS
  <2>5. PICK b4 : b4 = Look(m, b3, va[4])
    OBVIOUS
  <2> QED BY <2>1, <2>2, <2>3, <2>4, <2>5, Zenon
<1>3. PICK s : s = [k \in 0 .. 4 |-> CASE k = 0 -> a0 [] k = 1 -> a1 [] k = 2 -> a2 [] k = 3 -> a3 [] OTHER -> a4]
  OBVIOUS
<1>4. s[0] = a0 /\ s[1] = a1 /\ s[2] = a2 /\ s[3] = a3 /\ s[4] = a4
  BY <1>3
<1>5. \A k \in 1 .. 4 : s[k] = Look(m, s[k - 1], va[k])
  <2> TAKE k \in 1 .. 4
  <2>1. k = 1 \/ k = 2 \/ k = 3 \/ k = 4
    OBVIOUS
  <2> QED BY <1>2, <1>4, <2>1
<1>6. ASSUME NEW n \in 0 .. 4 PROVE Along(m, g, va, n) = s[n]
  <2>1. PICK r : r = [k \in 0 .. n |-> s[k]]
    OBVIOUS
  <2>2. AlongIs(m, g, va, r, n)
    <3>1. \A k \in 0 .. n : r[k] = IF k = 0 THEN g ELSE Look(m, r[k - 1], va[k])
      <4> TAKE k \in 0 .. n
      <4>1. k = 0 \/ (k \in 1 .. 4 /\ k - 1 \in 0 .. n /\ k # 0)
        OBVIOUS
      <4>2. CASE k = 0
        BY <1>2, <1>4, <2>1, <4>2
      <4>3. CASE k \in 1 .. 4 /\ k - 1 \in 0 .. n /\ k # 0
        BY <1>5, <2>1, <4>3
      <4> QED BY <4>1, <4>2, <4>3
    <3>2. r = [k \in 0 .. n |-> r[k]]
      BY <2>1
    <3> QED BY <3>1, <3>2 DEF AlongIs
  <2>3. PICK t : t = CHOOSE u : AlongIs(m, g, va, u, n)
    OBVIOUS
  <2>4. AlongIs(m, g, va, t, n)
    BY <2>2, <2>3, Zenon
  <2>5. ASSUME NEW k \in 0 .. n, t[k] # s[k] PROVE FALSE
    <3> DEFINE S == {j \in 0 .. n : t[j] # s[j]}
    <3>1. S \in SUBSET Nat /\ S # {}
      BY <2>5
    <3>2. PICK j \in S : \A i \in S : j <= i
      BY <3>1, Least
    <3>3. j \in 0 .. n /\ t[j] # s[j]
      BY <3>2
    <3>4. t[j] = IF j = 0 THEN g ELSE Look(m, t[j - 1], va[j])
      BY <2>4, <3>3 DEF AlongIs
    <3>5. j # 0
      BY <1>2, <1>4, <3>3, <3>4
    <3>6. j - 1 \in 0 .. n /\ ~(j <= j - 1) /\ j \in 1 .. 4
      BY <3>3, <3>5
    <3>7. t[j - 1] = s[j - 1]
      BY <3>2, <3>6
    <3> QED BY <1>5, <3>3, <3>4, <3>5, <3>6, <3>7
  <2>6. n \in 0 .. n
    OBVIOUS
  <2> QED BY <1>1, <2>3, <2>5, <2>6
<1>7. \A k \in 0 .. 3 : Along(m, g, va, k + 1) = Look(m, Along(m, g, va, k), va[k + 1])
  <2> TAKE k \in 0 .. 3
  <2>1. k \in 0 .. 4 /\ k + 1 \in 0 .. 4 /\ k + 1 \in 1 .. 4 /\ (k + 1) - 1 = k
    OBVIOUS
  <2> QED BY <1>5, <1>6, <2>1
<1> QED BY <1>2, <1>4, <1>6, <1>7

\* Nothing is behind a missing table.
LEMMA AlongNone ==
  ASSUME NEW m, NEW g, NEW va, NEW j \in 0 .. 4, Along(m, g, va, j) = NONE
  PROVE  \A k \in j .. 4 : Along(m, g, va, k) = NONE
<1>1. \A k \in 0 .. 3 : Along(m, g, va, k) = NONE => Along(m, g, va, k + 1) = NONE
  BY AlongSteps, NoFrame DEF Look
<1>2. PICK f : f = [k \in 0 .. 4 |-> Along(m, g, va, k)]
  OBVIOUS
<1>3. (f[0] = NONE => f[1] = NONE) /\ (f[1] = NONE => f[2] = NONE) /\ (f[2] = NONE => f[3] = NONE)
      /\ (f[3] = NONE => f[4] = NONE)
  <2>1. \A k \in 0 .. 3 : f[k] = NONE => f[k + 1] = NONE
    BY <1>1, <1>2
  <2>2. 0 \in 0 .. 3 /\ 1 \in 0 .. 3 /\ 2 \in 0 .. 3 /\ 3 \in 0 .. 3 /\ 0 + 1 = 1 /\ 1 + 1 = 2 /\ 2 + 1 = 3 /\ 3 + 1 = 4
    OBVIOUS
  <2> HIDE DEF NONE
  <2> QED BY <2>1, <2>2
<1>4. f[j] = NONE
  BY <1>2
<1>5. \A k \in j .. 4 : f[k] = NONE
  <2> TAKE k \in j .. 4
  <2>1. (j = 0 \/ j = 1 \/ j = 2 \/ j = 3 \/ j = 4) /\ (k = 0 \/ k = 1 \/ k = 2 \/ k = 3 \/ k = 4) /\ j <= k
    OBVIOUS
  <2> QED BY <1>3, <1>4, <2>1
<1> QED BY <1>2, <1>5

\* Tables that hold the same where va leads lead to the same.
LEMMA AlongSame ==
  ASSUME NEW m, NEW g, NEW va, NEW N \in 0 .. 4, NEW w, NEW vb,
         \A k \in 0 .. N - 1 : Look(w, Along(m, g, va, k), vb[k + 1]) = Look(m, Along(m, g, va, k), va[k + 1])
  PROVE  \A k \in 0 .. N : Along(w, g, vb, k) = Along(m, g, va, k)
<1> SUFFICES ASSUME NEW k \in 0 .. N, Along(w, g, vb, k) # Along(m, g, va, k) PROVE FALSE
  OBVIOUS
<1> DEFINE S == {j \in 0 .. N : Along(w, g, vb, j) # Along(m, g, va, j)}
<1>1. S \in SUBSET Nat /\ S # {}
  OBVIOUS
<1>2. PICK j \in S : \A i \in S : j <= i
  BY <1>1, Least
<1>3. j \in 0 .. N /\ Along(w, g, vb, j) # Along(m, g, va, j)
  BY <1>2
<1>4. j # 0
  BY <1>3, AlongSteps
<1>5. PICK i \in 0 .. 3 : i = j - 1
  BY <1>3, <1>4
<1>6. i + 1 = j /\ i \in 0 .. N - 1 /\ i \in 0 .. N /\ ~(j <= i)
  BY <1>3, <1>4, <1>5
<1>7. Along(w, g, vb, i) = Along(m, g, va, i)
  BY <1>2, <1>6
<1>8. Along(w, g, vb, i + 1) = Look(w, Along(w, g, vb, i), vb[i + 1])
      /\ Along(m, g, va, i + 1) = Look(m, Along(m, g, va, i), va[i + 1])
  BY AlongSteps
<1>9. Look(w, Along(m, g, va, i), vb[i + 1]) = Look(m, Along(m, g, va, i), va[i + 1])
  BY <1>6
<1> QED BY <1>3, <1>6, <1>7, <1>8, <1>9, Zenon

\* The tables m from g on are pages of h, and no page is the table of two paths or
\* of two levels.
Agree(va, vb, n) == \A i \in 1 .. n : vb[i] = va[i]
TreesApart(m, g, h) ==
  /\ \A va \in VAs, n \in 0 .. 3 : Along(m, g, va, n) # NONE => Along(m, g, va, n) \in h
  /\ \A va, vb \in VAs, n, k \in 0 .. 3 :
       Along(m, g, va, n) # NONE /\ Along(m, g, va, n) = Along(m, g, vb, k) => n = k /\ Agree(va, vb, n)

\* Paths that agree so far have led to the same table.
LEMMA AlongAgree ==
  ASSUME NEW m, NEW g, NEW va, NEW vb, NEW n \in 0 .. 4, Agree(va, vb, n)
  PROVE  \A k \in 0 .. n : Along(m, g, vb, k) = Along(m, g, va, k)
<1>1. \A k \in 0 .. n - 1 : Look(m, Along(m, g, va, k), vb[k + 1]) = Look(m, Along(m, g, va, k), va[k + 1])
  <2> TAKE k \in 0 .. n - 1
  <2>1. vb[k + 1] = va[k + 1]
    BY DEF Agree
  <2> QED BY <2>1, Zenon
<1> QED BY <1>1, AlongSame

\* An entry of the last level is written: that page is mapped, no other.
LastWritten(m, g, h, va, v, p, x, w) ==
  /\ m \in [Frames -> [Indices -> Int]] /\ h \in SUBSET Frames /\ TreesApart(m, g, h)
  /\ va \in VAs /\ v \in Int /\ p = Along(m, g, va, 3) /\ p # NONE /\ x = va[4]
  /\ w = [m EXCEPT ![p][x] = v]
MovesOnly(m, g, w, va, v) ==
  \A vb \in VAs : Along(w, g, vb, 4) = IF vb = va THEN v ELSE Along(m, g, vb, 4)

\* Writing a last-level entry keeps the trees apart and maps only its page anew.
LEMMA LastEntrySet ==
  ASSUME NEW m, NEW g, NEW h, NEW va, NEW v, NEW p, NEW x, NEW w, LastWritten(m, g, h, va, v, p, x, w)
  PROVE  TreesApart(w, g, h) /\ MovesOnly(m, g, w, va, v)
<1> SUFFICES ASSUME m \in [Frames -> [Indices -> Int]], h \in SUBSET Frames, TreesApart(m, g, h),
                    va \in VAs, v \in Int, p = Along(m, g, va, 3), p # NONE, x = va[4],
                    w = [m EXCEPT ![p][x] = v]
             PROVE  TreesApart(w, g, h) /\ MovesOnly(m, g, w, va, v)
  BY Zenon DEF LastWritten
<1>0. p \in h /\ p \in Frames /\ x \in Indices /\ VAs \in SUBSET [1 .. 4 -> Indices]
  BY VmAssumption DEF TreesApart
<1>1. \A f \in Frames, y \in Indices : w[f][y] = IF f = p /\ y = x THEN v ELSE m[f][y]
  BY <1>0
<1>2. ASSUME NEW vb \in VAs
      PROVE  \A k \in 0 .. 3 : Along(w, g, vb, k) = Along(m, g, vb, k)
  <2>1. \A k \in 0 .. 2 : Look(w, Along(m, g, vb, k), vb[k + 1]) = Look(m, Along(m, g, vb, k), vb[k + 1])
    <3> TAKE k \in 0 .. 2
    <3>1. PICK q, y : q = Along(m, g, vb, k) /\ y = vb[k + 1]
      OBVIOUS
    <3>2. y \in Indices
      BY <1>0, <3>1
    <3>3. q # p
      <4>1. k \in 0 .. 3 /\ 3 \in 0 .. 3 /\ k # 3
        OBVIOUS
      <4> QED BY <3>1, <4>1 DEF TreesApart
    <3>4. Look(w, q, y) = Look(m, q, y)
      BY <1>1, <3>2, <3>3 DEF Look
    <3> QED BY <3>1, <3>4, Zenon
  <2>2. 3 - 1 = 2
    OBVIOUS
  <2> QED BY <2>1, <2>2, AlongSame
<1>3. TreesApart(w, g, h)
  <2>1. \A vb \in VAs, n \in 0 .. 3 : Along(w, g, vb, n) = Along(m, g, vb, n)
    BY <1>2
  <2>2. ASSUME NEW vb \in VAs, NEW n \in 0 .. 3, Along(w, g, vb, n) # NONE PROVE Along(w, g, vb, n) \in h
    <3>1. Along(w, g, vb, n) = Along(m, g, vb, n)
      BY <2>1
    <3>2. Along(m, g, vb, n) # NONE
      BY <2>2, <3>1
    <3>3. Along(m, g, vb, n) \in h
      BY <3>2 DEF TreesApart
    <3> QED BY <3>1, <3>3
  <2>3. ASSUME NEW vb \in VAs, NEW vc \in VAs, NEW n \in 0 .. 3, NEW k \in 0 .. 3,
               Along(w, g, vb, n) # NONE, Along(w, g, vb, n) = Along(w, g, vc, k)
        PROVE  n = k /\ Agree(vb, vc, n)
    <3>1. Along(m, g, vb, n) # NONE /\ Along(m, g, vb, n) = Along(m, g, vc, k)
      BY <2>1, <2>3
    <3> QED BY <3>1 DEF TreesApart
  <2> QED BY <2>2, <2>3 DEF TreesApart
<1>4. ASSUME NEW vb \in VAs PROVE Along(w, g, vb, 4) = IF vb = va THEN v ELSE Along(m, g, vb, 4)
  <2>1. PICK q, y : q = Along(m, g, vb, 3) /\ y = vb[4]
    OBVIOUS
  <2>2. Along(w, g, vb, 4) = Look(w, q, y) /\ Along(m, g, vb, 4) = Look(m, q, y)
    <3>1. 3 \in 0 .. 3 /\ 3 + 1 = 4
      OBVIOUS
    <3>2. Along(w, g, vb, 3 + 1) = Look(w, Along(w, g, vb, 3), vb[3 + 1])
          /\ Along(m, g, vb, 3 + 1) = Look(m, Along(m, g, vb, 3), vb[3 + 1])
      BY <3>1, AlongSteps
    <3>3. Along(w, g, vb, 3) = Along(m, g, vb, 3)
      BY <1>2, <3>1
    <3> QED BY <2>1, <3>1, <3>2, <3>3
  <2>3. y \in Indices
    BY <1>0, <2>1
  <2>4. CASE vb = va
    <3>1. q = p /\ y = x
      BY <2>1, <2>4
    <3> QED BY <1>0, <1>1, <2>2, <2>4, <3>1 DEF Look
  <2>5. CASE vb # va
    <3>1. ~(q = p /\ y = x)
      <4> SUFFICES ASSUME q = p, y = x PROVE vb = va
        BY <2>5
      <4>1. Agree(va, vb, 3)
        <5>1. 3 \in 0 .. 3
          OBVIOUS
        <5> QED BY <2>1, <5>1 DEF TreesApart
      <4>2. \A i \in 1 .. 4 : vb[i] = va[i]
        <5> TAKE i \in 1 .. 4
        <5>1. i = 4 \/ i \in 1 .. 3
          OBVIOUS
        <5> QED BY <2>1, <4>1, <5>1 DEF Agree
      <4> QED BY <1>0, <4>2
    <3>2. Look(w, q, y) = Look(m, q, y)
      BY <1>1, <2>3, <3>1 DEF Look
    <3> QED BY <2>2, <2>5, <3>2
  <2> QED BY <2>4, <2>5
<1> QED BY <1>3, <1>4 DEF MovesOnly

\* Frames that are no tables are written: nothing moves.
LEMMA OthersWritten ==
  ASSUME NEW m, NEW g, NEW h \in SUBSET Frames, TreesApart(m, g, h), NEW w, \A f \in h : w[f] = m[f]
  PROVE  TreesApart(w, g, h) /\ \A vb \in VAs : Along(w, g, vb, 4) = Along(m, g, vb, 4)
<1>1. ASSUME NEW vb \in VAs
      PROVE  \A k \in 0 .. 4 : Along(w, g, vb, k) = Along(m, g, vb, k)
  <2>1. \A k \in 0 .. 3 : Look(w, Along(m, g, vb, k), vb[k + 1]) = Look(m, Along(m, g, vb, k), vb[k + 1])
    <3> TAKE k \in 0 .. 3
    <3>1. Along(m, g, vb, k) = NONE \/ Along(m, g, vb, k) \in h
      BY DEF TreesApart
    <3> QED BY <3>1, NoFrame DEF Look
  <2>2. 4 - 1 = 3 /\ 4 \in 0 .. 4
    OBVIOUS
  <2> QED BY <2>1, <2>2, AlongSame
<1>2. \A k \in 0 .. 3 : k \in 0 .. 4
  OBVIOUS
<1>3. 4 \in 0 .. 4
  OBVIOUS
<1>4. TreesApart(w, g, h)
  BY <1>1, <1>2 DEF TreesApart
<1> QED BY <1>1, <1>3, <1>4

\* More pages are held, the tables are where they were.
LEMMA MoreHeld ==
  ASSUME NEW m, NEW g, NEW h, TreesApart(m, g, h), NEW j, h \in SUBSET j
  PROVE  TreesApart(m, g, j)
BY DEF TreesApart

\* A cleared page f becomes the table of va's missing level n: nothing moves.
LinkWritten(m, g, h, va, n, f, p, x, c, w) ==
  /\ m \in [Frames -> [Indices -> Int]] /\ h \in SUBSET Frames /\ TreesApart(m, g, h)
  /\ va \in VAs /\ n \in 1 .. 3 /\ p = Along(m, g, va, n - 1) /\ p # NONE
  /\ Along(m, g, va, n) = NONE /\ x = va[n] /\ f \in Frames /\ f \notin h
  /\ c = [m EXCEPT ![f] = EmptyTable] /\ w = [c EXCEPT ![p][x] = f]
MovesNothing(m, g, w) == \A vb \in VAs : Along(w, g, vb, 4) = Along(m, g, vb, 4)

\* Linking a fresh table keeps the trees apart and moves no address.
LEMMA TableLinked ==
  ASSUME NEW m, NEW g, NEW h, NEW va, NEW n, NEW f, NEW p, NEW x, NEW c, NEW w,
         LinkWritten(m, g, h, va, n, f, p, x, c, w)
  PROVE  TreesApart(w, g, h \cup {f}) /\ MovesNothing(m, g, w)
<1> SUFFICES ASSUME m \in [Frames -> [Indices -> Int]], h \in SUBSET Frames, TreesApart(m, g, h),
                    va \in VAs, n \in 1 .. 3, p = Along(m, g, va, n - 1), p # NONE,
                    Along(m, g, va, n) = NONE, x = va[n], f \in Frames, f \notin h
             PROVE  TreesApart(w, g, h \cup {f}) /\ MovesNothing(m, g, w)
  BY Zenon DEF LinkWritten
<1>w. c = [m EXCEPT ![f] = EmptyTable] /\ w = [c EXCEPT ![p][x] = f]
  BY Zenon DEF LinkWritten
<1>0. /\ VAs \in SUBSET [1 .. 4 -> Indices] /\ NONE \notin Frames /\ f # NONE /\ f \in Int /\ n - 1 \in 0 .. 3
      /\ n - 1 \in 0 .. 4 /\ n \in 0 .. 4 /\ n \in 0 .. 3 /\ n \in 1 .. 4 /\ (n - 1) + 1 = n
  BY VmAssumption, NoFrame
<1>1. p \in h /\ p \in Frames /\ x \in Indices /\ p # f
  <2>1. PICK j \in 0 .. 3 : j = n - 1
    BY <1>0
  <2>2. p \in h
    BY <2>1 DEF TreesApart
  <2>3. x \in Indices
    BY <1>0
  <2> QED BY <2>2, <2>3
<1>2. /\ \A y \in Indices : w[f][y] = NONE
      /\ w[p][x] = f
      /\ \A q \in Frames, y \in Indices : q # f /\ ~(q = p /\ y = x) => w[q][y] = m[q][y]
  <2>1. \A y \in Indices : c[f][y] = NONE
    BY <1>w DEF EmptyTable
  <2>2. \A q \in Frames : q # f => c[q] = m[q]
    BY <1>w
  <2>3. c \in [Frames -> [Indices -> Int]]
    BY <1>w DEF EmptyTable, NONE
  <2>4. \A q \in Frames, y \in Indices : w[q][y] = IF q = p /\ y = x THEN f ELSE c[q][y]
    BY <1>1, <1>w, <2>3
  <2> QED BY <1>1, <2>1, <2>2, <2>4
\* A path through the missing level.
<1>3. ASSUME NEW vb \in VAs, Agree(va, vb, n)
      PROVE  /\ \A k \in 0 .. n - 1 : Along(w, g, vb, k) = Along(m, g, vb, k)
             /\ Along(w, g, vb, n) = f
             /\ \A k \in n + 1 .. 4 : Along(w, g, vb, k) = NONE
             /\ \A k \in n .. 4 : Along(m, g, vb, k) = NONE
  <2>1. \A k \in 0 .. n : Along(m, g, vb, k) = Along(m, g, va, k)
    <3>1. n \in 0 .. 4 /\ Agree(va, vb, n)
      BY <1>0, <1>3
    <3> QED BY <3>1, AlongAgree
  <2>2. Along(m, g, vb, n) = NONE /\ Along(m, g, vb, n - 1) = p
    <3>1. n \in 0 .. n /\ n - 1 \in 0 .. n
      OBVIOUS
    <3> QED BY <2>1, <3>1
  <2>3. \A k \in n .. 4 : Along(m, g, vb, k) = NONE
    BY <1>0, <2>2, AlongNone
  <2>4. \A k \in 0 .. n - 1 : Along(w, g, vb, k) = Along(m, g, vb, k)
    <3>1. \A k \in 0 .. (n - 1) - 1 : Look(w, Along(m, g, vb, k), vb[k + 1]) = Look(m, Along(m, g, vb, k), vb[k + 1])
      <4> TAKE k \in 0 .. (n - 1) - 1
      <4>1. k \in 0 .. 3 /\ k # n - 1 /\ k + 1 \in 1 .. 4
        OBVIOUS
      <4>2. PICK q, y : q = Along(m, g, vb, k) /\ y = vb[k + 1]
        OBVIOUS
      <4>3. y \in Indices
        BY <1>0, <4>1, <4>2
      <4>4. q # p
        <5>1. PICK j \in 0 .. 3 : j = n - 1
          BY <1>0
        <5>2. Along(m, g, va, j) = p /\ p # NONE /\ j # k
          BY <4>1, <5>1
        <5>3. Along(m, g, va, j) # Along(m, g, vb, k)
          BY <4>1, <5>2 DEF TreesApart
        <5> QED BY <4>2, <5>2, <5>3
      <4>5. q = NONE \/ q \in h
        BY <4>1, <4>2 DEF TreesApart
      <4>6. Look(w, q, y) = Look(m, q, y)
        <5>1. CASE q = NONE
          BY <1>0, <5>1 DEF Look
        <5>2. CASE q \in h
          <6>1. q \in Frames /\ q # f
            BY <5>2
          <6>2. w[q][y] = m[q][y]
            BY <1>2, <4>3, <4>4, <6>1
          <6> QED BY <6>1, <6>2 DEF Look
        <5> QED BY <4>5, <5>1, <5>2
      <4> QED BY <4>2, <4>6, Zenon
    <3> QED BY <1>0, <3>1, AlongSame
  <2>5. Along(w, g, vb, n) = f
    <3>1. PICK j \in 0 .. 3 : j = n - 1 /\ j + 1 = n
      BY <1>0
    <3>2. Along(w, g, vb, j) = p
      <4>1. j \in 0 .. n - 1
        BY <3>1
      <4> QED BY <2>2, <2>4, <3>1, <4>1
    <3>3. Along(w, g, vb, j + 1) = Look(w, Along(w, g, vb, j), vb[j + 1])
      BY AlongSteps
    <3>4. vb[n] = x
      <4>1. n \in 1 .. n
        OBVIOUS
      <4> QED BY <1>3, <4>1 DEF Agree
    <3>5. Along(w, g, vb, n) = Look(w, p, x)
      BY <3>1, <3>2, <3>3, <3>4
    <3> QED BY <1>1, <1>2, <3>5 DEF Look
  <2>6. Along(w, g, vb, n + 1) = NONE
    <3>1. Along(w, g, vb, n + 1) = Look(w, Along(w, g, vb, n), vb[n + 1])
      BY <1>0, AlongSteps
    <3>2. vb[n + 1] \in Indices
      <4>1. n + 1 \in 1 .. 4
        OBVIOUS
      <4> QED BY <1>0, <4>1
    <3> QED BY <1>2, <2>5, <3>1, <3>2 DEF Look
  <2>7. \A k \in n + 1 .. 4 : Along(w, g, vb, k) = NONE
    <3>1. n + 1 \in 0 .. 4
      OBVIOUS
    <3> QED BY <2>6, <3>1, AlongNone
  <2> QED BY <2>3, <2>4, <2>5, <2>7
\* Any other path.
<1>4. ASSUME NEW vb \in VAs, ~Agree(va, vb, n)
      PROVE  \A k \in 0 .. 4 : Along(w, g, vb, k) = Along(m, g, vb, k)
  <2>1. \A k \in 0 .. 3 : Look(w, Along(m, g, vb, k), vb[k + 1]) = Look(m, Along(m, g, vb, k), vb[k + 1])
    <3> TAKE k \in 0 .. 3
    <3>1. PICK q, y : q = Along(m, g, vb, k) /\ y = vb[k + 1]
      OBVIOUS
    <3>2. y \in Indices
      <4>1. k + 1 \in 1 .. 4
        OBVIOUS
      <4> QED BY <1>0, <3>1, <4>1
    <3>3. ~(q = p /\ y = x)
      <4> SUFFICES ASSUME q = p, y = x PROVE FALSE
        OBVIOUS
      <4>1. Along(m, g, va, n - 1) = p /\ p # NONE /\ Along(m, g, vb, k) = p
        BY <3>1
      <4>2. n - 1 = k /\ Agree(va, vb, n - 1)
        BY <1>0, <4>1 DEF TreesApart
      <4>3. \A i \in 1 .. n : i = n \/ i \in 1 .. n - 1
        OBVIOUS
      <4>4. vb[n] = va[n]
        BY <1>0, <3>1, <4>2
      <4> QED BY <1>4, <4>2, <4>3, <4>4 DEF Agree
    <3>4. q = NONE \/ q \in h
      BY <3>1 DEF TreesApart
    <3>5. Look(w, q, y) = Look(m, q, y)
      <4>1. CASE q = NONE
        BY <1>0, <4>1 DEF Look
      <4>2. CASE q \in h
        <5>1. q \in Frames /\ q # f
          BY <4>2
        <5>2. w[q][y] = m[q][y]
          BY <1>2, <3>2, <3>3, <5>1
        <5> QED BY <5>1, <5>2 DEF Look
      <4> QED BY <3>4, <4>1, <4>2
    <3> QED BY <3>1, <3>5, Zenon
  <2>2. 4 - 1 = 3 /\ 4 \in 0 .. 4
    OBVIOUS
  <2> QED BY <2>1, <2>2, AlongSame
<1>5. ASSUME NEW vb \in VAs, NEW k \in 0 .. 4
      PROVE  Along(w, g, vb, k) = IF Agree(va, vb, n) /\ k = n THEN f ELSE Along(m, g, vb, k)
  <2>1. CASE ~Agree(va, vb, n)
    BY <1>4, <2>1
  <2>2. CASE Agree(va, vb, n)
    <3>1. k \in 0 .. n - 1 \/ k = n \/ (k \in n + 1 .. 4 /\ k \in n .. 4)
      OBVIOUS
    <3>2. CASE k \in 0 .. n - 1
      <4>1. k # n
        BY <3>2
      <4> QED BY <1>3, <2>2, <3>2, <4>1
    <3>3. CASE k = n
      BY <1>3, <2>2, <3>3
    <3>4. CASE k \in n + 1 .. 4 /\ k \in n .. 4
      <4>1. k # n
        BY <3>4
      <4> QED BY <1>3, <2>2, <3>4, <4>1
    <3> QED BY <3>1, <3>2, <3>3, <3>4
  <2> QED BY <2>1, <2>2
<1>6. \A vb \in VAs : Along(w, g, vb, 4) = Along(m, g, vb, 4)
  <2>1. 4 \in 0 .. 4 /\ 4 # n
    OBVIOUS
  <2> QED BY <1>5, <2>1
<1>7. ASSUME NEW vb \in VAs, NEW k \in 0 .. 3, Along(w, g, vb, k) # NONE
      PROVE  Along(w, g, vb, k) \in h \cup {f}
  <2>1. k \in 0 .. 4
    OBVIOUS
  <2>2. Along(w, g, vb, k) = f \/ Along(w, g, vb, k) = Along(m, g, vb, k)
    BY <1>5, <2>1
  <2>3. CASE Along(w, g, vb, k) = Along(m, g, vb, k)
    <3>1. Along(m, g, vb, k) # NONE
      BY <1>7, <2>3
    <3>2. Along(m, g, vb, k) \in h
      BY <3>1 DEF TreesApart
    <3> QED BY <2>3, <3>2
  <2> QED BY <2>2, <2>3
<1>8. ASSUME NEW vb \in VAs, NEW vc \in VAs, NEW j \in 0 .. 3, NEW k \in 0 .. 3,
             Along(w, g, vb, j) # NONE, Along(w, g, vb, j) = Along(w, g, vc, k)
      PROVE  j = k /\ Agree(vb, vc, j)
  <2>1. j \in 0 .. 4 /\ k \in 0 .. 4
    OBVIOUS
  <2>2. PICK a, b : a = Along(m, g, vb, j) /\ b = Along(m, g, vc, k)
    OBVIOUS
  <2>3. (a = NONE \/ a \in h) /\ (b = NONE \/ b \in h)
    BY <2>2 DEF TreesApart
  <2>4. a # f /\ b # f
    BY <1>0, <2>3
  <2>5. /\ Along(w, g, vb, j) = IF Agree(va, vb, n) /\ j = n THEN f ELSE a
        /\ Along(w, g, vc, k) = IF Agree(va, vc, n) /\ k = n THEN f ELSE b
    BY <1>5, <2>1, <2>2
  <2>6. CASE Agree(va, vb, n) /\ j = n
    <3>1. Agree(va, vc, n) /\ k = n
      BY <1>8, <2>4, <2>5, <2>6
    <3> QED BY <2>6, <3>1 DEF Agree
  <2>7. CASE ~(Agree(va, vb, n) /\ j = n)
    <3>1. a # NONE /\ a = b
      BY <1>8, <2>4, <2>5, <2>7
    <3> QED BY <2>2, <3>1 DEF TreesApart
  <2> QED BY <2>6, <2>7
<1>9. TreesApart(w, g, h \cup {f})
  BY <1>7, <1>8 DEF TreesApart
<1> QED BY <1>6, <1>9 DEF MovesNothing

\* The tables are right until a frame is in the heap and held.
TablesInv == ~Trampled => TreesApart(mem, pgd, held[Vm])

\* The frames a kmalloc writes are not tables while no frame is trampled.
LEMMA SpanGrows ==
  ASSUME NEW a \in Nat, NEW b \in Nat
  PROVE  HeapSpan(a, b) \in SUBSET HeapSpan(0, b)
<1>1. \A x \in a .. b - 1 : x \in 0 .. b - 1
  OBVIOUS
<1> QED BY <1>1 DEF HeapSpan

\* The page alloc_table takes was nobody's.
LEMMA TableFresh ==
  ASSUME MMInv, NEW f \in Frames, AllocTable(f)
  PROVE  f \notin held[Vm] /\ f \in held'[Vm] /\ held[Vm] \cup {f} \in SUBSET held'[Vm]
<1>1. PICK i \in Bits : FirstClear(i) /\ f = Frame(i)
  BY DEF AllocTable
<1>2. i \notin used /\ i \in Int /\ f - BitmapPages = i
  BY <1>1, PagesAssumption DEF FirstClear, Bits, Frame
<1>3. f \notin HeldFrames
  BY <1>2 DEF MMInv, FramesExclusive
<1>4. f \notin held[Vm]
  BY <1>3, VmAssumption, HeldMember
<1> QED BY <1>4, TableTaken DEF MMInv

\* Every step moves at most the page that is mapped or unmapped.
LEMMA TranslationStep ==
  ASSUME TypeOK, MMInv, TablesInv, [Next]_vars
  PROVE  TablesInv' /\ (AS!Next \/ Trampled' \/ Translation' = Translation)
<1>1. /\ mem \in [Frames -> [Indices -> Int]] /\ held[Vm] \in SUBSET Frames
      /\ \A va \in VAs : Translation[va] = Along(mem, pgd, va, 4)
  BY VmAssumption, TableAlong DEF TypeOK, MMTypeOK, Translation, Va2Pa
<1>2. ASSUME \A va \in VAs : Along(mem', pgd', va, 4) = Along(mem, pgd, va, 4)
      PROVE  Translation' = Translation
  <2>1. \A va \in VAs : Va2Pa(va)' = Along(mem', pgd', va, 4) /\ Va2Pa(va) = Along(mem, pgd, va, 4)
    BY TableAlong, Zenon DEF Va2Pa
  <2> QED BY <1>2, <2>1 DEF Translation
<1>3. ASSUME NEW va \in VAs, NEW v,
             \A vb \in VAs : Along(mem', pgd', vb, 4) = IF vb = va THEN v ELSE Along(mem, pgd, vb, 4)
      PROVE  Translation' = [Translation EXCEPT ![va] = v]
  <2>1. \A vb \in VAs : Va2Pa(vb)' = Along(mem', pgd', vb, 4) /\ Va2Pa(vb) = Along(mem, pgd, vb, 4)
    BY TableAlong, Zenon DEF Va2Pa
  <2> QED BY <1>3, <2>1 DEF Translation
<1>4. CASE UNCHANGED vars
  <2>1. Trampled' = Trampled /\ UNCHANGED <<mem, pgd, held>>
    BY <1>4 DEF vars, mmVars, Trampled, HeldFrames
  <2> QED BY <1>2, <2>1 DEF TablesInv
<1>5. Next => ~Trampled
  BY DEF Next, StartVm, StartVmPanics, BeginBootMap, BeginUserMap, AddTable, MapFails, SetEntry, UserUnmap,
         OtherAlloc, OtherFree, HeapObject
<1> SUFFICES ASSUME Next, ~Trampled, TreesApart(mem, pgd, held[Vm])
             PROVE  TablesInv' /\ (AS!Next \/ Trampled' \/ Translation' = Translation)
  BY <1>4, <1>5 DEF TablesInv
<1>6. CASE StartVm
  <2>1. PICK f \in Frames : AllocTable(f) /\ pgd' = f /\ mem' = [mem EXCEPT ![f] = EmptyTable] /\ pgd = NONE
    BY <1>6 DEF StartVm, Cleared
  <2>2. f \in held'[Vm] /\ f # NONE /\ NONE \notin Frames
    BY <2>1, TableFresh, NoFrame
  <2>3. ASSUME NEW va \in VAs
        PROVE  Along(mem', f, va, 0) = f /\ \A k \in 1 .. 4 : Along(mem', f, va, k) = NONE
    <3>1. Along(mem', f, va, 0) = f /\ Along(mem', f, va, 1) = Look(mem', Along(mem', f, va, 0), va[1])
      <4>1. 0 \in 0 .. 3 /\ 0 + 1 = 1
        OBVIOUS
      <4> QED BY <4>1, AlongSteps
    <3>2. mem'[f][va[1]] = NONE
      BY <1>1, <2>1, VmAssumption DEF EmptyTable
    <3>3. Along(mem', f, va, 1) = NONE
      BY <3>1, <3>2 DEF Look
    <3> QED BY <3>1, <3>3, AlongNone
  <2>4. ASSUME NEW va \in VAs PROVE \A k \in 0 .. 4 : Along(mem, NONE, va, k) = NONE
    <3>1. Along(mem, NONE, va, 0) = NONE
      BY AlongSteps
    <3> QED BY <3>1, AlongNone
  <2>5. \A va \in VAs : Along(mem', pgd', va, 4) = Along(mem, pgd, va, 4)
    <3>1. 4 \in 1 .. 4 /\ 4 \in 0 .. 4
      OBVIOUS
    <3> QED BY <2>1, <2>3, <2>4, <3>1
  <2>6. TreesApart(mem', f, held'[Vm])
    <3>1. \A k \in 0 .. 3 : k = 0 \/ k \in 1 .. 4
      OBVIOUS
    <3>2. \A va \in VAs, k \in 0 .. 3 : Along(mem', f, va, k) = IF k = 0 THEN f ELSE NONE
      BY <2>3, <3>1
    <3>3. \A va, vb \in VAs : Agree(va, vb, 0)
      BY DEF Agree
    <3> QED BY <2>2, <3>2, <3>3 DEF TreesApart
  <2> QED BY <1>2, <2>1, <2>5, <2>6 DEF TablesInv
<1>7. CASE StartVmPanics \/ BeginBootMap \/ BeginUserMap \/ MapFails
  <2>1. UNCHANGED <<mem, pgd, held>>
    BY <1>7 DEF StartVmPanics, BeginBootMap, BeginUserMap, MapFails, mmVars
  <2> QED BY <1>2, <2>1 DEF TablesInv
<1>8. CASE AddTable
  <2>1. op \in Mappings /\ UNCHANGED <<pgd, op, boot>>
    BY <1>8 DEF AddTable, TypeOK, Mappings
  <2>2. PICK va \in VAs : va = op.va
    BY <2>1 DEF Mappings
  <2>3. PICK n \in 1 .. 3, f \in Frames :
          Missing(va, n) /\ AllocTable(f) /\ mem' = [Cleared(f) EXCEPT ![TableAt(va, n - 1)][va[n]] = f]
    BY <1>8, <2>2 DEF AddTable
  <2>4. PICK p, x, c : p = Along(mem, pgd, va, n - 1) /\ x = va[n] /\ c = [mem EXCEPT ![f] = EmptyTable]
    OBVIOUS
  <2>5. p # NONE /\ Along(mem, pgd, va, n) = NONE /\ TableAt(va, n - 1) = p
    BY <2>3, <2>4, TableAlong DEF Missing
  <2>6. mem' = [c EXCEPT ![p][x] = f]
    BY <2>3, <2>4, <2>5, Zenon DEF Cleared
  <2>7. f \notin held[Vm] /\ held[Vm] \cup {f} \in SUBSET held'[Vm]
    BY <2>3, TableFresh
  <2>8. PICK m, g, h, w : m = mem /\ g = pgd /\ h = held[Vm] /\ w = mem'
    OBVIOUS
  <2>9. TreesApart(w, g, h \cup {f}) /\ \A vb \in VAs : Along(w, g, vb, 4) = Along(m, g, vb, 4)
    <3>1. /\ m \in [Frames -> [Indices -> Int]] /\ h \in SUBSET Frames /\ TreesApart(m, g, h)
          /\ p = Along(m, g, va, n - 1) /\ p # NONE /\ Along(m, g, va, n) = NONE /\ x = va[n] /\ f \notin h
          /\ c = [m EXCEPT ![f] = EmptyTable] /\ w = [c EXCEPT ![p][x] = f]
      BY <1>1, <2>4, <2>5, <2>6, <2>7, <2>8
    <3>2. LinkWritten(m, g, h, va, n, f, p, x, c, w)
      BY <3>1, Zenon DEF LinkWritten
    <3>3. TreesApart(w, g, h \cup {f}) /\ MovesNothing(m, g, w)
      BY <3>2, TableLinked
    <3> QED BY <3>3 DEF MovesNothing
  <2>10. TreesApart(mem', pgd', held'[Vm])
    BY <2>1, <2>7, <2>8, <2>9, MoreHeld
  <2>11. Translation' = Translation
    BY <1>2, <2>1, <2>8, <2>9
  <2> QED BY <2>10, <2>11 DEF TablesInv
<1>9. ASSUME NEW va \in VAs, NEW v \in Int, Complete(va), UNCHANGED <<pgd, held>>,
             mem' = [mem EXCEPT ![TableAt(va, 3)][va[4]] = v]
      PROVE  TablesInv' /\ Translation' = [Translation EXCEPT ![va] = v]
  <2>1. PICK p, x : p = Along(mem, pgd, va, 3) /\ x = va[4]
    OBVIOUS
  <2>2. TableAt(va, 3) = p /\ p # NONE
    <3>1. 3 \in 0 .. 3
      OBVIOUS
    <3> QED BY <1>9, <2>1, <3>1, TableAlong DEF Complete
  <2>3. mem' = [mem EXCEPT ![p][x] = v]
    BY <1>9, <2>1, <2>2, Zenon
  <2>4. PICK m, g, h, w : m = mem /\ g = pgd /\ h = held[Vm] /\ w = mem'
    OBVIOUS
  <2>5. TreesApart(w, g, h) /\ \A vb \in VAs : Along(w, g, vb, 4) = IF vb = va THEN v ELSE Along(m, g, vb, 4)
    <3>1. /\ m \in [Frames -> [Indices -> Int]] /\ h \in SUBSET Frames /\ TreesApart(m, g, h)
          /\ p = Along(m, g, va, 3) /\ p # NONE /\ x = va[4] /\ w = [m EXCEPT ![p][x] = v]
      BY <1>1, <2>1, <2>2, <2>3, <2>4
    <3>2. LastWritten(m, g, h, va, v, p, x, w)
      BY <1>9, <3>1, Zenon DEF LastWritten
    <3>3. TreesApart(w, g, h) /\ MovesOnly(m, g, w, va, v)
      BY <3>2, LastEntrySet
    <3> QED BY <3>3 DEF MovesOnly
  <2>6. TreesApart(mem', pgd', held'[Vm])
    BY <1>9, <2>4, <2>5
  <2>7. Translation' = [Translation EXCEPT ![va] = v]
    BY <1>3, <1>9, <2>4, <2>5
  <2> QED BY <2>6, <2>7 DEF TablesInv
<1>10. CASE SetEntry
  <2>1. op \in Mappings
    BY <1>10 DEF SetEntry, TypeOK, Mappings
  <2>2. PICK va \in VAs, v \in PAs : va = op.va /\ v = op.pa
    BY <2>1 DEF Mappings
  <2>3. v \in Int
    BY VmAssumption
  <2>4. Complete(va) /\ UNCHANGED <<pgd, held>> /\ mem' = [mem EXCEPT ![TableAt(va, 3)][va[4]] = v]
    BY <1>10, <2>2 DEF SetEntry, mmVars
  <2>5. TablesInv' /\ Translation' = [Translation EXCEPT ![va] = v]
    BY <1>9, <2>3, <2>4
  <2> QED BY <2>5 DEF AS!Next, AS!Map
<1>11. CASE UserUnmap
  <2>1. PICK va \in VAs : Complete(va) /\ mem' = [mem EXCEPT ![TableAt(va, 3)][va[4]] = NONE]
    BY <1>11 DEF UserUnmap
  <2>2. UNCHANGED <<pgd, held>> /\ NONE \in Int
    BY <1>11 DEF UserUnmap, mmVars, NONE
  <2>3. TablesInv' /\ Translation' = [Translation EXCEPT ![va] = NONE]
    BY <1>9, <2>1, <2>2
  <2> QED BY <2>3 DEF AS!Next, AS!Unmap
<1>12. CASE OtherAlloc \/ OtherFree
  <2>1. UNCHANGED <<mem, pgd>>
    BY <1>12 DEF OtherAlloc, OtherFree
  <2>2. \E c \in Clients \ {Vm} : PageAlloc(c) \/ PageFree(c)
    BY <1>12 DEF OtherAlloc, OtherFree
  <2>3. held'[Vm] = held[Vm]
    BY <2>2, VmAssumption DEF PageAlloc, PageFree, TypeOK, MMTypeOK
  <2> QED BY <1>2, <2>1, <2>3 DEF TablesInv
<1>13. CASE \E words \in 1 .. HeapWords : HeapObject(words)
  <2>1. PICK words \in 1 .. HeapWords : heapPtr' = heapPtr + words
    BY <1>13 DEF HeapObject, Kmalloc
  <2>2. /\ mem' = [f \in Frames |-> IF f \in HeapSpan(heapPtr, heapPtr') THEN JunkTable ELSE mem[f]]
        /\ UNCHANGED <<pgd, op, boot>> /\ held' = held
    BY <1>13 DEF HeapObject, Kmalloc
  <2>3. CASE Trampled'
    BY <2>3 DEF TablesInv
  <2>4. CASE ~Trampled'
    <3>1. heapPtr \in Nat /\ heapPtr' \in Nat
      <4>1. heapPtr \in Nat /\ words \in Nat
        BY DEF TypeOK, MMTypeOK
      <4> QED BY <2>1, <4>1
    <3>2. HeapSpan(heapPtr, heapPtr') \in SUBSET HeapSpan(0, heapPtr')
      BY <3>1, SpanGrows
    <3>3. HeapSpan(0, heapPtr') \cap HeldFrames = {}
      BY <2>2, <2>4 DEF Trampled, HeldFrames
    <3>4. held[Vm] \in SUBSET HeldFrames
      BY VmAssumption, HeldMember
    <3>5. \A f \in held[Vm] : mem'[f] = mem[f]
      BY <1>1, <2>2, <3>2, <3>3, <3>4
    <3>6. PICK m, g, h, w : m = mem /\ g = pgd /\ h = held[Vm] /\ w = mem'
      OBVIOUS
    <3>7. TreesApart(w, g, h) /\ \A vb \in VAs : Along(w, g, vb, 4) = Along(m, g, vb, 4)
      <4>1. h \in SUBSET Frames /\ TreesApart(m, g, h) /\ \A f \in h : w[f] = m[f]
        BY <1>1, <3>5, <3>6
      <4> QED BY <4>1, OthersWritten
    <3> QED BY <1>2, <2>2, <3>6, <3>7 DEF TablesInv
  <2> QED BY <2>3, <2>4
<1> QED BY <1>6, <1>7, <1>8, <1>10, <1>11, <1>12, <1>13 DEF Next

\* Whatever is mapped, unmapped, half mapped, allocated and freed in between, a
\* step moves no address but the one named, as long as no page is in the heap and
\* handed out (kernel/vm.c vm_user_map, vm_user_unmap, vm_va2pa).
THEOREM MapsAsSpecifiedCorrect == MemorySpec => MapsAsSpecified
<1>1. MemoryInit => TablesInv /\ AS!Init
  <2> SUFFICES ASSUME Init PROVE TablesInv /\ AS!Init
    BY DEF MemoryInit
  <2>1. pgd = NONE
    BY DEF Init
  <2>2. ASSUME NEW va \in VAs PROVE \A k \in 0 .. 4 : Along(mem, pgd, va, k) = NONE
    <3>1. Along(mem, pgd, va, 0) = NONE
      BY <2>1, AlongSteps
    <3> QED BY <3>1, AlongNone
  <2>3. TablesInv
    <3>1. \A k \in 0 .. 3 : k \in 0 .. 4
      OBVIOUS
    <3>2. TreesApart(mem, pgd, held[Vm])
      BY <2>2, <3>1 DEF TreesApart
    <3> QED BY <3>2 DEF TablesInv
  <2>4. \A va \in VAs : Va2Pa(va) = NONE
    <3>1. 4 \in 0 .. 4
      OBVIOUS
    <3>2. \A va \in VAs : Va2Pa(va) = Along(mem, pgd, va, 4)
      BY TableAlong, Zenon DEF Va2Pa
    <3> QED BY <2>2, <3>1, <3>2
  <2>5. AS!Init
    BY <2>4 DEF AS!Init, Translation
  <2> QED BY <2>3, <2>5
<1>2. MemoryInv /\ TablesInv /\ [MemoryNext]_<<vars, fileVars, part>> =>
        TablesInv' /\ [AS!Next \/ Trampled']_Translation
  <2>1. [MemoryNext]_<<vars, fileVars, part>> => [Next]_vars
    BY DEF MemoryNext
  <2> QED BY <2>1, TranslationStep DEF MemoryInv
<1> QED BY <1>1, <1>2, MemoryInvariance, PTL DEF MemorySpec, MapsAsSpecified

-----------------------------------------------------------------------------
(* What torFS stores.                                                    *)

\* Position p lies in the block p \div c, at p % c.
LEMMA InBlock ==
  ASSUME NEW p \in Nat, NEW c \in Nat \ {0}
  PROVE  /\ p \div c \in Nat /\ p % c \in 0 .. c - 1
         /\ ((p \div c) * c) + (p % c) = p
         /\ (p \div c) * c <= p /\ p < (p \div c + 1) * c
<1>1. p \div c \in Nat /\ p % c \in 0 .. c - 1 /\ p = (c * (p \div c)) + (p % c)
  BY SMTT(30)
<1>2. PICK q \in Nat, r \in 0 .. c - 1 : q = p \div c /\ r = p % c
  BY <1>1
<1>3. c * q = q * c /\ (q + 1) * c = q * c + c /\ q * c \in Nat
  OBVIOUS
<1>4. PICK z \in Nat : z = q * c
  BY <1>3
<1>5. p = z + r /\ (q + 1) * c = z + c
  BY <1>1, <1>2, <1>3, <1>4
<1>6. z <= p /\ p < z + c
  BY <1>5
<1> QED BY <1>1, <1>2, <1>4, <1>5, <1>6

\* ... and in no other block.
LEMMA OneBlock ==
  ASSUME NEW p \in Nat, NEW c \in Nat \ {0}, NEW k \in Nat, k * c <= p, p < (k + 1) * c
  PROVE  p \div c = k
<1>1. PICK q \in Nat : q = p \div c /\ q * c <= p /\ p < (q + 1) * c
  BY InBlock
<1>2. ASSUME q < k PROVE FALSE
  <2>1. q + 1 \in Nat /\ q + 1 <= k /\ c \in Nat
    BY <1>2
  <2>2. (q + 1) * c <= k * c /\ (q + 1) * c \in Nat /\ k * c \in Nat
    BY <2>1, ProductGrows
  <2> QED BY <1>1, <2>2
<1>3. ASSUME k < q PROVE FALSE
  <2>1. k + 1 \in Nat /\ k + 1 <= q /\ c \in Nat
    BY <1>3
  <2>2. (k + 1) * c <= q * c /\ (k + 1) * c \in Nat /\ q * c \in Nat
    BY <2>1, ProductGrows
  <2> QED BY <1>1, <2>2
<1> QED BY <1>1, <1>2, <1>3

\* The table e and the blocks d as files by name.
Cell(e, d, i, p) ==
  IF e[i].blocks[p \div BlockSize] = 0
    THEN HOLE ELSE d[e[i].blocks[p \div BlockSize]][p % BlockSize]
FileAt(e, d, i) == [size |-> e[i].size, at |-> [p \in 0 .. Files!MaxSize - 1 |-> Cell(e, d, i, p)]]
SlotsOf(e, n) == {i \in Files!Slots : e[i].used /\ e[i].name = n}
StoredFiles(e, d) ==
  [n \in {e[i].name : i \in Files!Slots \ {i \in Files!Slots : ~e[i].used}} |->
     LET i == CHOOSE i \in SlotsOf(e, n) : TRUE
     IN  [size |-> e[i].size, at |-> [p \in 0 .. Files!MaxSize - 1 |-> Cell(e, d, i, p)]]]
OneSlot(e) == \A i, j \in Files!Slots : e[i].used /\ e[j].used /\ e[i].name = e[j].name => i = j

\* The contents of the disk, as a function of the file table and the blocks.
LEMMA ContentsStored == Files!Contents = StoredFiles(entries, data) /\ Files!Contents' = StoredFiles(entries', data')
BY Zenon DEF Files!Contents, StoredFiles, SlotsOf, Cell, Files!Unused, Files!Find, Files!ByteAt

\* Its files are those of the used slots.
FilesAre(f, e, d) ==
  /\ \A n : n \in DOMAIN f <=> \E i \in Files!Slots : e[i].used /\ e[i].name = n
  /\ \A i \in Files!Slots : e[i].used => f[e[i].name] = FileAt(e, d, i)
  /\ f = [n \in DOMAIN f |-> f[n]]

\* The stored files are those with a slot, each with its cells.
LEMMA StoredAre ==
  ASSUME NEW e, NEW d, OneSlot(e)
  PROVE  FilesAre(StoredFiles(e, d), e, d)
<1>1. PICK f : f = StoredFiles(e, d)
  OBVIOUS
<1>2. PICK D : D = {e[i].name : i \in Files!Slots \ {i \in Files!Slots : ~e[i].used}}
  OBVIOUS
<1>3. f = [n \in D |-> FileAt(e, d, CHOOSE i \in SlotsOf(e, n) : TRUE)]
  BY <1>1, <1>2, Zenon DEF StoredFiles, FileAt
<1>4. DOMAIN f = D /\ f = [n \in DOMAIN f |-> f[n]]
  BY <1>3
<1>5. \A n : n \in D <=> \E i \in Files!Slots : e[i].used /\ e[i].name = n
  BY <1>2
<1>6. ASSUME NEW i \in Files!Slots, e[i].used
      PROVE  f[e[i].name] = FileAt(e, d, i)
  <2>1. PICK n : n = e[i].name
    OBVIOUS
  <2>2. n \in D
    BY <1>5, <1>6, <2>1
  <2>3. PICK j : j = CHOOSE h \in SlotsOf(e, n) : TRUE
    OBVIOUS
  <2>4. i \in SlotsOf(e, n)
    BY <1>6, <2>1 DEF SlotsOf
  <2>5. j \in SlotsOf(e, n)
    BY <2>3, <2>4, Zenon
  <2>6. j = i
    BY <1>6, <2>1, <2>5 DEF OneSlot, SlotsOf
  <2>7. f[n] = FileAt(e, d, j)
    BY <1>3, <2>2, <2>3, Zenon
  <2> QED BY <2>1, <2>6, <2>7
<1> QED BY <1>1, <1>4, <1>5, <1>6, Zenon DEF FilesAre

\* A write reaches the blocks of its positions, all of which have storage.
Reaches(plan, offset) ==
  /\ plan.done \in SUBSET Files!FileBlocks
  /\ \A k \in plan.done : plan.blocks[k] # 0
  /\ plan.end = offset \/ plan.end \in offset + 1 .. Files!MaxSize
  /\ \A p \in offset .. plan.end - 1 : p \in 0 .. Files!MaxSize - 1 /\ p \div BlockSize \in plan.done

\* The blocks a write has reached hold every position up to its end.
LEMMA PlanReaches ==
  ASSUME FilesInv, NEW i \in Files!Slots, NEW offset \in 0 .. Wrap - 1, NEW size \in Int,
         NEW plan, plan = Files!Plan(i, offset, size)
  PROVE  Reaches(plan, offset)
<1>1. PICK span : span = Files!Span(offset, size)
  OBVIOUS
<1>2. PICK lacking : lacking = {k \in span : entries[i].blocks[k] = 0}
  OBVIOUS
<1>3. PICK n : n = Cardinality(Files!Clear)
  OBVIOUS
<1>4. PICK done : done = {k \in span : Files!Rank(lacking, k) <= n}
  OBVIOUS
<1>5. PICK ends : ends = IF done = {} THEN offset
                         ELSE Files!Min({offset + size, (Files!Max(done) + 1) * BlockSize})
  OBVIOUS
<1>6. plan = [missing |-> lacking \cap done, done |-> done,
              blocks  |-> [k \in Files!FileBlocks |-> IF k \in lacking \cap done
                                                        THEN Files!ClearAt(Files!Rank(lacking, k))
                                                        ELSE entries[i].blocks[k]],
              end |-> ends]
  BY <1>1, <1>2, <1>3, <1>4, <1>5, SameCardinality, Zenon DEF Files!Plan
<1>7. plan.missing = lacking \cap done /\ plan.end = ends /\ plan.done = done
  BY <1>6
<1>8. PlanOK(i, plan)
  BY PlanFacts
<1>9. /\ span \in SUBSET Files!FileBlocks /\ lacking \in SUBSET Files!FileBlocks /\ lacking \in SUBSET span
      /\ done \in SUBSET span /\ Files!FileBlocks \in SUBSET Int /\ IsFiniteSet(Files!FileBlocks)
  <2>1. BlocksPerFile \in Nat \ {0} /\ BlocksPerFile - 1 \in Int /\ 0 \in Int
    BY FilesNumbers
  <2> QED BY <1>1, <1>2, <1>4, <2>1, FS_Interval DEF Files!Span, Files!FileBlocks
<1>10. IsFiniteSet(lacking) /\ lacking \in SUBSET Int
  BY <1>9, FS_Subset
<1>11. \A k \in done : plan.blocks[k] # 0
  <2> TAKE k \in done
  <2>1. k \in Files!FileBlocks
    BY <1>9
  <2>2. CASE k \in lacking
    <3>1. plan.blocks[k] \in Files!Clear
      BY <1>7, <1>8, <2>2 DEF PlanOK
    <3>2. 0 \in bitmap
      BY FilesSets DEF FilesInv, BitmapRight
    <3> QED BY <3>1, <3>2 DEF Files!Clear
  <2>3. CASE k \notin lacking
    <3>1. plan.blocks[k] = entries[i].blocks[k]
      BY <1>7, <1>8, <2>1, <2>3 DEF PlanOK
    <3> QED BY <1>2, <1>9, <2>3, <3>1
  <2> QED BY <2>2, <2>3
<1>12. EndsAt(ends, done, offset, size)
  <2>1. done \in SUBSET Files!Span(offset, size)
    BY <1>1, <1>9
  <2> QED BY <1>5, <2>1, EndReached, Zenon
<1>13. ends = offset \/ ends \in offset + 1 .. Files!MaxSize
  <2>1. Files!MaxSize \in Nat
    BY FilesNumbers
  <2> QED BY <1>12, <2>1 DEF EndsAt
\* A block before one that was reached was reached: its rank is no greater.
<1>14. ASSUME NEW k \in span, NEW j \in done, k <= j PROVE k \in done
  <2>0. k \in Int /\ j \in Int /\ j \in span /\ n \in Nat
    BY <1>3, <1>9, ClearFinite
  <2>1. PICK X, Y : X = {y \in lacking : y <= k} /\ Y = {y \in lacking : y <= j}
    OBVIOUS
  <2>2. X \in SUBSET Y /\ Y \in SUBSET lacking
    <3>1. Y \in SUBSET lacking
      BY <2>1
    <3>2. \A y \in lacking : y <= k => y <= j
      BY <1>10, <1>14, <2>0
    <3> QED BY <2>1, <3>1, <3>2
  <2>3. IsFiniteSet(Y) /\ IsFiniteSet(X) /\ Cardinality(X) <= Cardinality(Y)
    BY <1>10, <2>2, FS_Subset
  <2>4. Files!Rank(lacking, k) = Cardinality(X) /\ Files!Rank(lacking, j) = Cardinality(Y)
    BY <2>1, SameCardinality, Zenon DEF Files!Rank
  <2>5. Cardinality(X) \in Nat /\ Cardinality(Y) \in Nat
    BY <2>3, FS_CardinalityType
  <2>6. Cardinality(Y) <= n
    BY <1>4, <2>4
  <2>7. Files!Rank(lacking, k) <= n
    BY <2>0, <2>3, <2>4, <2>5, <2>6
  <2> QED BY <1>4, <2>7
<1>15. ASSUME NEW p \in offset .. ends - 1
       PROVE  p \in 0 .. Files!MaxSize - 1 /\ p \div BlockSize \in done
  <2>0. /\ BlocksPerFile \in Nat \ {0} /\ BlockSize \in Nat \ {0} /\ Wrap \in Nat
        /\ Files!MaxSize = BlockSize * BlocksPerFile /\ Files!MaxSize \in Nat
    BY FilesNumbers
  <2>1. ends # offset /\ p \in Nat /\ p >= offset
    BY <2>0
  <2>2. PICK j \in done : /\ ends <= offset + size /\ ends <= (j + 1) * BlockSize /\ ends <= Files!MaxSize
                          /\ ends \in Nat
    BY <1>12, <2>1 DEF EndsAt
  <2>3. PICK k \in Nat : k = p \div BlockSize /\ k * BlockSize <= p /\ p < (k + 1) * BlockSize
    BY <2>0, <2>1, InBlock
  <2>4. j \in 0 .. BlocksPerFile - 1
    BY <1>9 DEF Files!FileBlocks
  <2>5. k <= j
    <3> SUFFICES ASSUME j + 1 <= k PROVE FALSE
      BY <2>3, <2>4
    <3>1. j + 1 \in Nat /\ BlockSize \in Nat
      BY <2>0, <2>4
    <3>2. (j + 1) * BlockSize <= k * BlockSize /\ (j + 1) * BlockSize \in Nat /\ k * BlockSize \in Nat
      BY <2>3, <3>1, ProductGrows
    <3>3. PICK u, v \in Nat : u = (j + 1) * BlockSize /\ v = k * BlockSize
      BY <3>2
    <3> QED BY <2>1, <2>2, <2>3, <3>2, <3>3
  <2>6. k \in 0 .. BlocksPerFile - 1
    BY <2>0, <2>3, <2>4, <2>5
  <2>7. k \in span
    <3>1. PICK u, v \in Nat : u = (k + 1) * BlockSize /\ v = k * BlockSize
      BY <2>0, <2>3
    <3>2. u > offset /\ size > 0 /\ v < offset + size
      BY <2>1, <2>2, <2>3, <3>1
    <3> QED BY <1>1, <2>6, <3>1, <3>2 DEF Files!Span, Files!FileBlocks
  <2>8. k \in done
    BY <1>14, <2>5, <2>7
  <2>9. p \in 0 .. Files!MaxSize - 1
    BY <2>0, <2>1, <2>2
  <2> QED BY <2>3, <2>8, <2>9
<1> QED BY <1>7, <1>9, <1>11, <1>13, <1>15 DEF Reaches

\* The positions of a file lie in its blocks.
LEMMA PlaceInFile ==
  ASSUME NEW p \in 0 .. Files!MaxSize - 1
  PROVE  p \div BlockSize \in Files!FileBlocks /\ p % BlockSize \in 0 .. BlockSize - 1
<1>0. /\ BlocksPerFile \in Nat \ {0} /\ BlockSize \in Nat \ {0}
      /\ Files!MaxSize = BlockSize * BlocksPerFile /\ Files!MaxSize \in Nat
  BY FilesNumbers
<1>1. p \in Nat
  BY <1>0
<1>2. PICK k \in Nat : k = p \div BlockSize /\ k * BlockSize <= p /\ p % BlockSize \in 0 .. BlockSize - 1
  BY <1>0, <1>1, InBlock
<1>3. k < BlocksPerFile
  <2> SUFFICES ASSUME BlocksPerFile <= k PROVE FALSE
    BY <1>0, <1>2
  <2>1. BlocksPerFile \in Nat /\ BlockSize \in Nat
    BY <1>0
  <2>2. BlocksPerFile * BlockSize <= k * BlockSize /\ BlocksPerFile * BlockSize \in Nat /\ k * BlockSize \in Nat
    BY <1>2, <2>1, ProductGrows
  <2>3. BlocksPerFile * BlockSize = BlockSize * BlocksPerFile
    BY <1>0
  <2>4. PICK u, v \in Nat : u = Files!MaxSize /\ v = k * BlockSize
    BY <1>0, <2>2
  <2> QED BY <1>0, <1>1, <1>2, <2>2, <2>3, <2>4
<1> QED BY <1>0, <1>2, <1>3 DEF Files!FileBlocks

\* A file keeps its contents with its entry and its blocks.
LEMMA SameFile ==
  ASSUME NEW e, NEW d, NEW c, NEW b, NEW j, c[j] = e[j],
         \A k \in Files!FileBlocks : e[j].blocks[k] # 0 => b[e[j].blocks[k]] = d[e[j].blocks[k]]
  PROVE  FileAt(c, b, j) = FileAt(e, d, j)
<1>1. \A p \in 0 .. Files!MaxSize - 1 : Cell(c, b, j, p) = Cell(e, d, j, p)
  <2> TAKE p \in 0 .. Files!MaxSize - 1
  <2>1. PICK k \in Files!FileBlocks : k = p \div BlockSize
    BY PlaceInFile
  <2>2. CASE e[j].blocks[k] = 0
    BY <2>1, <2>2, Zenon DEF Cell
  <2>3. CASE e[j].blocks[k] # 0
    <3>1. b[e[j].blocks[k]] = d[e[j].blocks[k]]
      BY <2>3
    <3> QED BY <2>1, <3>1, Zenon DEF Cell
  <2> QED BY <2>2, <2>3
<1>2. [p \in 0 .. Files!MaxSize - 1 |-> Cell(c, b, j, p)] = [p \in 0 .. Files!MaxSize - 1 |-> Cell(e, d, j, p)]
  BY <1>1
<1> QED BY <1>2, Zenon DEF FileAt

\* The files of two states of the table, one after the other.
TwoStates(f, e, d, g, c, b) ==
  /\ f = Files!Contents /\ e = entries /\ d = data /\ g = Files!Contents' /\ c = entries' /\ b = data'
  /\ FilesAre(f, e, d) /\ FilesAre(g, c, b)

\* The two states of a step, named.
LEMMA BothStored ==
  ASSUME FilesInv, FilesInv'
  PROVE  \E f, e, d, g, c, b : TwoStates(f, e, d, g, c, b)
<1>1. PICK f, e, d, g, c, b : /\ f = Files!Contents /\ e = entries /\ d = data
                              /\ g = Files!Contents' /\ c = entries' /\ b = data'
  <2>1. PICK f : f = Files!Contents OBVIOUS
  <2>2. PICK e : e = entries OBVIOUS
  <2>3. PICK d : d = data OBVIOUS
  <2>4. PICK g : g = Files!Contents' OBVIOUS
  <2>5. PICK c : c = entries' OBVIOUS
  <2>6. PICK b : b = data' OBVIOUS
  <2> QED BY <2>1, <2>2, <2>3, <2>4, <2>5, <2>6, Zenon
<1>2. OneSlot(e) /\ OneSlot(c)
  BY <1>1 DEF FilesInv, NamesOnce, OneSlot
<1>3. f = StoredFiles(e, d) /\ g = StoredFiles(c, b)
  BY <1>1, ContentsStored, Zenon
<1>4. FilesAre(f, e, d) /\ FilesAre(g, c, b)
  BY <1>2, <1>3, StoredAre
<1> QED BY <1>1, <1>4, Zenon DEF TwoStates

\* tfs_create: one more file, which is empty.
LEMMA CreateStores ==
  ASSUME FilesInv, FilesInv', NEW n \in Names, Files!Create(n)
  PROVE  Files!Store!Create(n)
<1>1. PICK f, e, d, g, c, b : TwoStates(f, e, d, g, c, b)
  BY BothStored
<1>2. PICK i \in Files!Slots : Files!FreeEntry(i) /\ entries' = [entries EXCEPT ![i] = Files!NewEntry(n)]
  BY DEF Files!Create
<1>3. /\ ~e[i].used /\ c[i] = Files!NewEntry(n) /\ b = d
      /\ \A j \in Files!Slots : j # i => c[j] = e[j]
      /\ \A j \in Files!Slots : e[j].used => e[j].name # n
  <2>1. e = entries /\ c = entries' /\ b = data' /\ d = data
    BY <1>1 DEF TwoStates
  <2>2. ~entries[i].used
    BY <1>2 DEF Files!FreeEntry, Files!Unused
  <2>3. entries'[i] = Files!NewEntry(n) /\ \A j \in Files!Slots : j # i => entries'[j] = entries[j]
    BY <1>2, EntryFacts
  <2>4. \A j \in Files!Slots : entries[j].used => entries[j].name # n
    BY DEF Files!Create, Files!Find
  <2>5. data' = data
    BY DEF Files!Create
  <2> QED BY <2>1, <2>2, <2>3, <2>4, <2>5
<1>4. FilesAre(f, e, d) /\ FilesAre(g, c, d)
  BY <1>1, <1>3 DEF TwoStates
<1>5. c[i].used /\ c[i].name = n /\ c[i].size = 0 /\ \A k \in Files!FileBlocks : c[i].blocks[k] = 0
  BY <1>3 DEF Files!NewEntry, Files!NoBlocks
<1>6. \A m : m \in DOMAIN g <=> m \in DOMAIN f \cup {n}
  BY <1>3, <1>4, <1>5 DEF FilesAre
<1>7. n \notin DOMAIN f
  BY <1>3, <1>4 DEF FilesAre
<1>8. ASSUME NEW m \in DOMAIN f PROVE g[m] = f[m]
  <2>1. PICK j \in Files!Slots : e[j].used /\ e[j].name = m
    BY <1>4, <1>8 DEF FilesAre
  <2>2. c[j] = e[j]
    BY <1>3, <2>1
  <2>3. FileAt(c, d, j) = FileAt(e, d, j)
    BY <2>2, SameFile
  <2>4. f[m] = FileAt(e, d, j)
    BY <1>4, <2>1 DEF FilesAre
  <2>5. g[m] = FileAt(c, d, j)
    BY <1>4, <2>1, <2>2 DEF FilesAre
  <2> QED BY <2>3, <2>4, <2>5
<1>9. g[n] = Files!Store!EmptyFile
  <2>1. g[n] = FileAt(c, d, i)
    BY <1>4, <1>5 DEF FilesAre
  <2>2. \A p \in 0 .. Files!MaxSize - 1 : Cell(c, d, i, p) = HOLE
    <3> TAKE p \in 0 .. Files!MaxSize - 1
    <3>1. PICK k \in Files!FileBlocks : k = p \div BlockSize
      BY PlaceInFile
    <3> QED BY <1>5, <3>1 DEF Cell
  <2>3. [p \in 0 .. Files!MaxSize - 1 |-> Cell(c, d, i, p)] = [p \in 0 .. Files!MaxSize - 1 |-> HOLE]
    BY <2>2
  <2> QED BY <1>5, <2>1, <2>3, Zenon DEF FileAt, Files!Store!EmptyFile, Files!Store!Positions
<1>10. g = [m \in DOMAIN f \cup {n} |-> IF m = n THEN Files!Store!EmptyFile ELSE f[m]]
  <2>1. g = [m \in DOMAIN g |-> g[m]]
    BY <1>4, Zenon DEF FilesAre
  <2> QED BY <1>6, <1>7, <1>8, <1>9, <2>1
<1>11. f = Files!Contents /\ g = Files!Contents'
  BY <1>1 DEF TwoStates
<1> QED BY <1>7, <1>10, <1>11, Zenon DEF Files!Store!Create, Files!Store!Exists

\* tfs_delete: the file is gone, the others are what they were.
LEMMA DeleteStores ==
  ASSUME FilesInv, FilesInv', NEW n \in Names, Files!Delete(n)
  PROVE  Files!Store!Delete(n)
<1>1. PICK f, e, d, g, c, b : TwoStates(f, e, d, g, c, b)
  BY BothStored
<1>2. PICK i \in Files!Find(n) : entries' = Files!Emptied(i)
  BY DEF Files!Delete
<1>3. /\ i \in Files!Slots /\ e[i].used /\ e[i].name = n /\ ~c[i].used /\ b = d
      /\ \A j \in Files!Slots : j # i => c[j] = e[j]
  <2>1. e = entries /\ c = entries' /\ b = data' /\ d = data
    BY <1>1 DEF TwoStates
  <2>2. i \in Files!Slots /\ entries[i].used /\ entries[i].name = n
    BY <1>2 DEF Files!Find
  <2>3. entries' = [entries EXCEPT ![i].used = FALSE, ![i].name = EMPTY, ![i].blocks = Files!NoBlocks]
    BY <1>2 DEF Files!Emptied
  <2>4. entries \in [Files!Slots -> Files!Entry]
    BY DEF FilesInv
  <2>5. ~entries'[i].used /\ \A j \in Files!Slots : j # i => entries'[j] = entries[j]
    BY <2>2, <2>3, <2>4 DEF Files!Entry
  <2>6. data' = data
    BY DEF Files!Delete
  <2> QED BY <2>1, <2>2, <2>5, <2>6
<1>4. FilesAre(f, e, d) /\ FilesAre(g, c, d) /\ OneSlot(e)
  <2>1. OneSlot(e)
    BY <1>1 DEF FilesInv, NamesOnce, OneSlot, TwoStates
  <2> QED BY <1>1, <1>3, <2>1 DEF TwoStates
<1>5. \A j \in Files!Slots : e[j].used /\ e[j].name = n => j = i
  BY <1>3, <1>4 DEF OneSlot
<1>6. \A m : m \in DOMAIN g <=> m \in DOMAIN f \ {n}
  BY <1>3, <1>4, <1>5 DEF FilesAre
<1>7. n \in DOMAIN f
  BY <1>3, <1>4 DEF FilesAre
<1>8. ASSUME NEW m \in DOMAIN f \ {n} PROVE g[m] = f[m]
  <2>1. PICK j \in Files!Slots : e[j].used /\ e[j].name = m
    BY <1>4, <1>8 DEF FilesAre
  <2>2. c[j] = e[j]
    BY <1>3, <1>8, <2>1
  <2>3. FileAt(c, d, j) = FileAt(e, d, j)
    BY <2>2, SameFile
  <2>4. f[m] = FileAt(e, d, j)
    BY <1>4, <2>1 DEF FilesAre
  <2>5. g[m] = FileAt(c, d, j)
    BY <1>4, <2>1, <2>2 DEF FilesAre
  <2> QED BY <2>3, <2>4, <2>5
<1>9. g = [m \in DOMAIN f \ {n} |-> f[m]]
  <2>1. g = [m \in DOMAIN g |-> g[m]]
    BY <1>4, Zenon DEF FilesAre
  <2> QED BY <1>6, <1>8, <2>1
<1>10. f = Files!Contents /\ g = Files!Contents'
  BY <1>1 DEF TwoStates
<1> QED BY <1>7, <1>9, <1>10, Zenon DEF Files!Store!Delete, Files!Store!Exists

\* From the table e and blocks d to c and b, a write of byte to slot i from offset on
\* has reached the blocks in done and ended at end.
Wrote(e, d, c, b, i, done, offset, end, byte) ==
  /\ i \in Files!Slots /\ e[i].used /\ c[i].used /\ c[i].name = e[i].name
  /\ c[i].size = IF e[i].size >= end THEN e[i].size ELSE end
  /\ \A j \in Files!Slots : j # i => c[j] = e[j]
  /\ \A k \in Files!FileBlocks : e[i].blocks[k] # 0 => c[i].blocks[k] = e[i].blocks[k]
  /\ done \in SUBSET Files!FileBlocks /\ \A k \in done : c[i].blocks[k] # 0
  /\ end = offset \/ end \in offset + 1 .. Files!MaxSize
  /\ \A p \in offset .. end - 1 : p \in 0 .. Files!MaxSize - 1 /\ p \div BlockSize \in done
  /\ \A u \in Files!Blocks : \A x \in 0 .. BlockSize - 1 :
       b[u][x] = IF \E k \in done : c[i].blocks[k] = u /\ (k * BlockSize) + x \in offset .. end - 1
                   THEN byte ELSE d[u][x]

\* What torfs_write leaves in the file table and the blocks.
LEMMA WriteWrote ==
  ASSUME FilesInv, NEW n \in Names, NEW byte \in Bytes, NEW size \in Sizes, NEW offset \in Offsets,
         Files!Write(n, byte, size, offset)
  PROVE  \E i \in Files!Find(n) : \E done : \E end \in {Files!WriteEnd(i, offset, size)} :
            Wrote(entries, data, entries', data', i, done, offset, end, byte)
<1>0. offset \in 0 .. Wrap - 1 /\ Files!Clamped(offset, size) \in Int
  <2>1. offset \in 0 .. Wrap - 1 /\ size \in 0 .. Wrap - 1 /\ Wrap \in Nat \ {0}
    BY FilesNumbers
  <2>2. PICK top \in Nat : top = Files!MaxSize
    BY FilesNumbers
  <2>3. (top - offset) % Wrap \in Int
    BY <2>1, <2>2
  <2> QED BY <2>1, <2>2, <2>3 DEF Files!Clamped
<1>1. PICK i \in Files!Find(n) :
        \E plan \in {Files!Plan(i, offset, Files!Clamped(offset, size))} :
          /\ entries' = [entries EXCEPT ![i].blocks = plan.blocks, ![i].size = Files!Max({@, plan.end})]
          /\ bitmap' = Files!Taken(plan)
          /\ freeBlocks' = freeBlocks - Files!Cardinality(plan.missing)
          /\ data' = Files!Stored(plan, offset, byte)
          /\ UNCHANGED numFiles
  BY Zenon DEF Files!Write
<1>2. PICK plan : /\ plan = Files!Plan(i, offset, Files!Clamped(offset, size))
                  /\ entries' = [entries EXCEPT ![i].blocks = plan.blocks, ![i].size = Files!Max({@, plan.end})]
                  /\ data' = Files!Stored(plan, offset, byte)
  BY <1>1, Zenon
<1>3. i \in Files!Slots /\ entries[i].used
  BY <1>1 DEF Files!Find
<1>4. PlanOK(i, plan) /\ Reaches(plan, offset)
  BY <1>0, <1>2, <1>3, PlanFacts, PlanReaches
<1>5. PICK end \in 0 .. Wrap - 1 : end = plan.end
  BY <1>4 DEF PlanOK
<1>6. end = Files!WriteEnd(i, offset, size)
  BY <1>2, <1>5, Zenon DEF Files!WriteEnd
<1>7. PICK a \in 0 .. Wrap - 1 : a = entries[i].size
  BY <1>3 DEF FilesInv, Files!Entry
<1>8. PICK s : s = IF a >= end THEN a ELSE end
  OBVIOUS
<1>9. s = Files!Max({entries[i].size, plan.end})
  <2>1. s = Files!Max({a, end})
    BY <1>8, OfTwo
  <2> QED BY <1>5, <1>7, <2>1, Zenon
<1>10. /\ entries'[i].used /\ entries'[i].name = entries[i].name /\ entries'[i].blocks = plan.blocks
       /\ entries'[i].size = s /\ \A j \in Files!Slots : j # i => entries'[j] = entries[j]
  <2>1. PICK bl \in [Files!FileBlocks -> Files!Blocks] : bl = plan.blocks
    BY <1>4 DEF PlanOK
  <2>2. entries' = [entries EXCEPT ![i].blocks = plan.blocks, ![i].size = s]
    BY <1>2, <1>9, Zenon
  <2>3. entries' = [entries EXCEPT ![i].blocks = bl, ![i].size = s]
    BY <2>1, <2>2
  <2>4. entries \in [Files!Slots -> Files!Entry]
    BY DEF FilesInv
  <2>5. s \in 0 .. Wrap - 1
    BY <1>8
  <2>6. /\ entries'[i].used /\ entries'[i].name = entries[i].name /\ entries'[i].blocks = bl
        /\ entries'[i].size = s /\ \A j \in Files!Slots : j # i => entries'[j] = entries[j]
    BY <1>3, <2>1, <2>3, <2>4, <2>5 DEF Files!Entry
  <2> QED BY <2>1, <2>6
<1>11. PICK done : done = plan.done
  OBVIOUS
<1>12. /\ done \in SUBSET Files!FileBlocks /\ \A k \in done : entries'[i].blocks[k] # 0
       /\ end = offset \/ end \in offset + 1 .. Files!MaxSize
       /\ \A p \in offset .. end - 1 : p \in 0 .. Files!MaxSize - 1 /\ p \div BlockSize \in done
  BY <1>4, <1>5, <1>10, <1>11 DEF Reaches
<1>13. \A k \in Files!FileBlocks : entries[i].blocks[k] # 0 => entries'[i].blocks[k] = entries[i].blocks[k]
  BY <1>4, <1>10 DEF PlanOK
<1>14. PICK bl : bl = entries'[i].blocks
  OBVIOUS
<1>15. data' = [u \in Files!Blocks |-> [x \in 0 .. BlockSize - 1 |->
                  IF \E k \in done : bl[k] = u /\ k * BlockSize + x \in offset .. end - 1
                    THEN byte ELSE data[u][x]]]
  <2>1. bl = plan.blocks
    BY <1>10, <1>14
  <2> QED BY <1>2, <1>5, <1>11, <2>1, Zenon DEF Files!Stored
<1>16. \A u \in Files!Blocks : \A x \in 0 .. BlockSize - 1 :
         data'[u][x] = IF \E k \in done : bl[k] = u /\ k * BlockSize + x \in offset .. end - 1
                         THEN byte ELSE data[u][x]
  BY <1>15, Zenon
<1>17. Wrote(entries, data, entries', data', i, done, offset, end, byte)
  <2>1. \A u \in Files!Blocks : \A x \in 0 .. BlockSize - 1 :
          data'[u][x] = IF \E k \in done : entries'[i].blocks[k] = u /\ k * BlockSize + x \in offset .. end - 1
                          THEN byte ELSE data[u][x]
    BY <1>14, <1>16, Zenon
  <2>2. entries'[i].size = IF entries[i].size >= end THEN entries[i].size ELSE end
    BY <1>7, <1>8, <1>10, Zenon
  <2> QED BY <1>3, <1>10, <1>12, <1>13, <2>1, <2>2, Zenon DEF Wrote
<1> QED BY <1>1, <1>6, <1>17, Zenon

\* What is written and no more: byte at the positions from offset to end - 1, and any
\* other position of any file that had a block holds what it held.
Apart(c) ==
  \A i, j \in Files!Slots : \A k, l \in Files!FileBlocks :
     c[i].blocks[k] # 0 /\ c[i].blocks[k] = c[j].blocks[l] => i = j /\ k = l
InBlocks(c) == \A i \in Files!Slots : \A k \in Files!FileBlocks : c[i].blocks[k] \in Files!Blocks

\* A cell inside the written range has the byte that was written.
LEMMA WroteThere ==
  ASSUME NEW e, NEW d, NEW c, NEW b, NEW i, NEW done, NEW offset \in Nat, NEW end, NEW byte,
         Wrote(e, d, c, b, i, done, offset, end, byte), InBlocks(c),
         NEW p \in offset .. end - 1
  PROVE  p \in 0 .. Files!MaxSize - 1 /\ c[i].blocks[p \div BlockSize] # 0 /\ Cell(c, b, i, p) = byte
<1>0. BlockSize \in Nat \ {0} /\ Files!MaxSize \in Nat /\ p \in Nat
  BY FilesNumbers
<1>1. PICK k \in Nat, x \in 0 .. BlockSize - 1 :
        k = p \div BlockSize /\ x = p % BlockSize /\ (k * BlockSize) + x = p
  BY <1>0, InBlock
<1>2. p \in 0 .. Files!MaxSize - 1 /\ k \in done
  BY <1>1 DEF Wrote
<1>3. k \in Files!FileBlocks /\ c[i].blocks[k] # 0 /\ i \in Files!Slots
  BY <1>2 DEF Wrote
<1>4. PICK u \in Files!Blocks : u = c[i].blocks[k]
  BY <1>3 DEF InBlocks
<1>5. \E h \in done : c[i].blocks[h] = u /\ (h * BlockSize) + x \in offset .. end - 1
  BY <1>1, <1>2, <1>4
<1>6. b[u][x] = byte
  BY <1>5 DEF Wrote
<1> QED BY <1>1, <1>2, <1>3, <1>4, <1>6, Zenon DEF Cell

\* A cell outside the written range is as it was, or was a hole.
LEMMA WroteElsewhere ==
  ASSUME NEW e, NEW d, NEW c, NEW b, NEW i, NEW done, NEW offset \in Nat, NEW end, NEW byte,
         Wrote(e, d, c, b, i, done, offset, end, byte), InBlocks(c), Apart(c),
         NEW j \in Files!Slots, NEW p \in 0 .. Files!MaxSize - 1, ~(j = i /\ p \in offset .. end - 1)
  PROVE  Cell(e, d, j, p) = HOLE \/ Cell(c, b, j, p) = Cell(e, d, j, p)
<1>0. BlockSize \in Nat \ {0} /\ Files!MaxSize \in Nat /\ p \in Nat
  BY FilesNumbers
<1>1. PICK k \in Nat, x \in 0 .. BlockSize - 1 :
        k = p \div BlockSize /\ x = p % BlockSize /\ (k * BlockSize) + x = p
  BY <1>0, InBlock
<1>2. k \in Files!FileBlocks
  BY <1>1, PlaceInFile
<1>3. CASE e[j].blocks[k] = 0
  BY <1>1, <1>3, Zenon DEF Cell
<1>4. CASE e[j].blocks[k] # 0
  <2>1. c[j].blocks[k] = e[j].blocks[k]
    BY <1>2, <1>4 DEF Wrote
  <2>2. PICK u \in Files!Blocks : u = c[j].blocks[k]
    BY <1>2 DEF InBlocks
  <2>3. ASSUME NEW h \in done, c[i].blocks[h] = u PROVE ~((h * BlockSize) + x \in offset .. end - 1)
    <3>1. h \in Files!FileBlocks /\ i \in Files!Slots
      BY DEF Wrote
    <3>2. j = i /\ h = k
      BY <1>2, <1>4, <2>1, <2>2, <2>3, <3>1 DEF Apart
    <3> QED BY <1>1, <3>2
  <2>4. b[u][x] = d[u][x]
    BY <2>3 DEF Wrote
  <2> QED BY <1>1, <1>4, <2>1, <2>2, <2>4, Zenon DEF Cell
<1> QED BY <1>3, <1>4

\* The invariant has every block in one place of one file, before and after a step.
LEMMA TableApart ==
  (FilesInv => Apart(entries) /\ InBlocks(entries)) /\ (FilesInv' => Apart(entries') /\ InBlocks(entries'))
BY DEF FilesInv, BlocksApart, Apart, InBlocks, Files!Entry

\* What a file holds is bytes and holes.
LEMMA FileTyped ==
  ASSUME FilesInv', NEW i \in Files!Slots
  PROVE  FileAt(entries', data', i) \in Files!Store!File
<1>1. ASSUME NEW p \in 0 .. Files!MaxSize - 1 PROVE Cell(entries', data', i, p) \in Bytes \cup {HOLE}
  <2>1. PICK k \in Files!FileBlocks, x \in 0 .. BlockSize - 1 : k = p \div BlockSize /\ x = p % BlockSize
    BY PlaceInFile
  <2>2. PICK u \in Files!Blocks : u = entries'[i].blocks[k]
    BY TableApart DEF InBlocks
  <2>3. data'[u][x] \in Bytes
    BY DEF FilesInv
  <2> QED BY <2>1, <2>2, <2>3, Zenon DEF Cell
<1>2. entries'[i].size \in Nat
  <2>1. Wrap \in Nat \ {0}
    BY FilesNumbers
  <2> QED BY <2>1 DEF FilesInv, Files!Entry
<1>3. [p \in 0 .. Files!MaxSize - 1 |-> Cell(entries', data', i, p)] \in [0 .. Files!MaxSize - 1 -> Bytes \cup {HOLE}]
  BY <1>1
<1> QED BY <1>2, <1>3 DEF FileAt, Files!Store!File, Files!Store!Positions

\* tfs_write: the bytes are where they were asked to be, nothing else moved.
LEMMA WriteStores ==
  ASSUME FilesInv, FilesInv', NEW n \in Names, NEW byte \in Bytes, NEW size \in Sizes, NEW offset \in Offsets,
         Files!Write(n, byte, size, offset)
  PROVE  Files!Store!Next
<1>1. PICK i \in Files!Find(n) : \E done, end : Wrote(entries, data, entries', data', i, done, offset, end, byte)
  BY WriteWrote, Zenon
<1>0. PICK done, end : Wrote(entries, data, entries', data', i, done, offset, end, byte)
  BY <1>1
<1>2. PICK f, e, d, g, c, b : TwoStates(f, e, d, g, c, b)
  BY BothStored
<1>3. /\ f = Files!Contents /\ e = entries /\ d = data /\ g = Files!Contents' /\ c = entries' /\ b = data'
      /\ FilesAre(f, e, d) /\ FilesAre(g, c, b)
  BY <1>2 DEF TwoStates
<1>4. Wrote(e, d, c, b, i, done, offset, end, byte)
  BY <1>0, <1>3
<1>5. Apart(c) /\ InBlocks(c) /\ offset \in Nat
  <2>1. offset \in 0 .. Wrap - 1 /\ Wrap \in Nat \ {0}
    BY FilesNumbers
  <2> QED BY <1>3, <2>1, TableApart
<1>6. /\ i \in Files!Slots /\ e[i].used /\ e[i].name = n /\ c[i].used /\ c[i].name = n
      /\ \A j \in Files!Slots : c[j].used = e[j].used /\ c[j].name = e[j].name
      /\ c[i].size = IF e[i].size >= end THEN e[i].size ELSE end
      /\ \A j \in Files!Slots : j # i => c[j] = e[j]
  <2>1. e[i].name = n
    BY <1>1, <1>3 DEF Files!Find
  <2>2. /\ i \in Files!Slots /\ e[i].used /\ c[i].used /\ c[i].name = e[i].name
        /\ c[i].size = IF e[i].size >= end THEN e[i].size ELSE end
        /\ \A j \in Files!Slots : j # i => c[j] = e[j]
    BY <1>4, Zenon DEF Wrote
  <2>3. \A j \in Files!Slots : c[j].used = e[j].used /\ c[j].name = e[j].name
    <3> TAKE j \in Files!Slots
    <3>1. CASE j = i
      <4>1. e[i].used \in BOOLEAN /\ c[i].used \in BOOLEAN
        BY <1>3, <2>2 DEF FilesInv, Files!Entry
      <4> QED BY <2>2, <3>1, <4>1
    <3>2. CASE j # i
      BY <2>2, <3>2
    <3> QED BY <3>1, <3>2
  <2> QED BY <2>1, <2>2, <2>3, Zenon
<1>7. end = offset \/ end \in offset + 1 .. Files!MaxSize
  BY <1>4 DEF Wrote
<1>8. \A j \in Files!Slots : e[j].used /\ e[j].name = n => j = i
  <2>1. OneSlot(e)
    BY <1>3 DEF FilesInv, NamesOnce, OneSlot
  <2> QED BY <1>6, <2>1 DEF OneSlot
<1>9. n \in DOMAIN f /\ DOMAIN g = DOMAIN f
  <2>1. n \in DOMAIN f
    BY <1>3, <1>6 DEF FilesAre
  <2>2. \A m : m \in DOMAIN g <=> m \in DOMAIN f
    BY <1>3, <1>6 DEF FilesAre
  <2> QED BY <2>1, <2>2
<1>10. ASSUME NEW j \in Files!Slots, NEW p \in 0 .. Files!MaxSize - 1, ~(j = i /\ p \in offset .. end - 1)
       PROVE  Cell(e, d, j, p) = HOLE \/ Cell(c, b, j, p) = Cell(e, d, j, p)
  BY <1>4, <1>5, <1>10, WroteElsewhere
<1>11. ASSUME NEW p \in offset .. end - 1
       PROVE  Cell(c, b, i, p) = byte
  BY <1>4, <1>5, WroteThere
<1>12. ASSUME NEW m \in DOMAIN f \ {n} PROVE g[m] = f[m]
  <2>1. PICK j \in Files!Slots : e[j].used /\ e[j].name = m
    BY <1>3, <1>12 DEF FilesAre
  <2>2. j # i /\ c[j] = e[j]
    BY <1>6, <1>12, <2>1
  <2>3. ASSUME NEW k \in Files!FileBlocks, e[j].blocks[k] # 0
        PROVE  b[e[j].blocks[k]] = d[e[j].blocks[k]]
    <3>1. PICK u \in Files!Blocks : u = c[j].blocks[k]
      BY <1>5 DEF InBlocks
    <3>2. \A h \in done : c[i].blocks[h] # u
      <4> TAKE h \in done
      <4>1. h \in Files!FileBlocks
        BY <1>4 DEF Wrote
      <4> QED BY <1>5, <1>6, <2>2, <2>3, <3>1, <4>1 DEF Apart
    <3>3. \A x \in 0 .. BlockSize - 1 : b[u][x] = d[u][x]
      BY <1>4, <3>2 DEF Wrote
    <3>4. b \in [Files!Blocks -> [0 .. BlockSize - 1 -> Bytes]] /\ d \in [Files!Blocks -> [0 .. BlockSize - 1 -> Bytes]]
      BY <1>3 DEF FilesInv
    <3>5. b[u] = d[u]
      <4>1. PICK y, z : y = b[u] /\ z = d[u]
        OBVIOUS
      <4>0. PICK X : X = 0 .. BlockSize - 1
        OBVIOUS
      <4>2. y \in [X -> Bytes] /\ z \in [X -> Bytes] /\ \A x \in X : y[x] = z[x]
        BY <3>3, <3>4, <4>0, <4>1
      <4>3. y = z
        BY <4>2
      <4> QED BY <4>1, <4>3
    <3> QED BY <2>2, <3>1, <3>5
  <2>4. FileAt(c, b, j) = FileAt(e, d, j)
    BY <2>2, <2>3, SameFile
  <2>5. f[m] = FileAt(e, d, j)
    BY <1>3, <2>1 DEF FilesAre
  <2>6. g[m] = FileAt(c, b, j)
    BY <1>3, <1>6, <2>1 DEF FilesAre
  <2> QED BY <2>4, <2>5, <2>6
<1>13. f[n] = FileAt(e, d, i) /\ g[n] = FileAt(c, b, i)
  BY <1>3, <1>6 DEF FilesAre
<1>14. g[n] \in Files!Store!File
  BY <1>3, <1>6, <1>13, FileTyped
<1>15. g[n].size = IF end > f[n].size THEN end ELSE f[n].size
  <2>1. f[n].size = e[i].size /\ g[n].size = c[i].size
    BY <1>13 DEF FileAt
  <2>2. e[i].size \in Int /\ end \in Int
    <3>1. Wrap \in Nat \ {0} /\ Files!MaxSize \in Nat
      BY FilesNumbers
    <3>2. e[i].size \in 0 .. Wrap - 1
      BY <1>3, <1>6 DEF FilesInv, Files!Entry
    <3> QED BY <1>5, <1>7, <3>1, <3>2
  <2> QED BY <1>6, <2>1, <2>2
<1>16. ASSUME NEW p \in Files!Store!Positions
       PROVE  IF p \in offset .. end - 1 THEN g[n].at[p] = byte ELSE f[n].at[p] \in {HOLE, g[n].at[p]}
  <2>1. p \in 0 .. Files!MaxSize - 1
    BY DEF Files!Store!Positions
  <2>2. f[n].at[p] = Cell(e, d, i, p) /\ g[n].at[p] = Cell(c, b, i, p)
    BY <1>13, <2>1 DEF FileAt
  <2>3. CASE p \in offset .. end - 1
    BY <1>11, <2>2, <2>3
  <2>4. CASE p \notin offset .. end - 1
    <3>1. Cell(e, d, i, p) = HOLE \/ Cell(c, b, i, p) = Cell(e, d, i, p)
      BY <1>6, <1>10, <2>1, <2>4
    <3> QED BY <2>2, <2>4, <3>1
  <2> QED BY <2>3, <2>4
<1>17. Files!Store!Write(n, offset, end, byte)
  <2>1. \A m \in DOMAIN Files!Contents \ {n} : Files!Contents'[m] = Files!Contents[m]
    BY <1>3, <1>12, Zenon
  <2>2. Files!Store!Exists(n) /\ DOMAIN Files!Contents' = DOMAIN Files!Contents
    BY <1>3, <1>9, Zenon DEF Files!Store!Exists
  <2>3. Files!Contents'[n] \in Files!Store!File
    BY <1>3, <1>14, Zenon
  <2>4. Files!Contents'[n].size = IF end > Files!Contents[n].size THEN end ELSE Files!Contents[n].size
    BY <1>3, <1>15, Zenon
  <2>5. \A p \in Files!Store!Positions :
          IF p \in offset .. end - 1
            THEN Files!Contents'[n].at[p] = byte
            ELSE Files!Contents[n].at[p] \in {HOLE, Files!Contents'[n].at[p]}
    BY <1>3, <1>16, Zenon
  <2> QED BY <2>1, <2>2, <2>3, <2>4, <2>5, Zenon DEF Files!Store!Write, Files!Store!Others
<1>18. end \in {offset} \cup (offset .. Files!MaxSize)
  <2>1. Files!MaxSize \in Nat
    BY FilesNumbers
  <2> QED BY <1>5, <1>7, <2>1
<1> QED BY <1>17, <1>18, Zenon DEF Files!Store!Next

-----------------------------------------------------------------------------
\* tfs_read of slot i in the table c with the blocks b.
EndOf(c, i, s, o) ==
  LET wanted == IF (o + s) % Wrap > c[i].size THEN c[i].size - o ELSE s
      holes  == {k \in Files!FileBlocks : c[i].blocks[k] = 0 /\ (k + 1) * BlockSize > o}
  IN  Files!Max({o, Files!Min({o + wanted, Files!MaxSize} \cup {k * BlockSize : k \in holes})})
ReadOf(c, b, i, s, o) ==
  IF o >= c[i].size THEN [p \in {} |-> HOLE] ELSE [p \in o .. EndOf(c, i, s, o) - 1 |-> Cell(c, b, i, p)]

\* torfs_read of the next state, as a function of file table and blocks.
LEMMA ReadIs == \A i, s, o : Files!Read(i, s, o)' = ReadOf(entries', data', i, s, o)
BY Zenon DEF Files!Read, Files!ReadEnd, Files!ByteAt, ReadOf, EndOf, Cell

\* The least of a set, once found.
LEMMA LeastIs ==
  ASSUME NEW S \in SUBSET Int, NEW m \in S, \A y \in S : m <= y
  PROVE  Files!Min(S) = m
<1>1. Files!Min(S) \in S /\ \A y \in S : Files!Min(S) <= y
  <2>1. \E x \in S : \A y \in S : x <= y
    OBVIOUS
  <2> QED BY <2>1, Zenon DEF Files!Min
<1>2. Files!Min(S) \in Int /\ m \in Int /\ Files!Min(S) <= m /\ m <= Files!Min(S)
  BY <1>1
<1> QED BY <1>2

\* Reading what was written stops where the write did.
LEMMA ReadStops ==
  ASSUME NEW e, NEW d, NEW c, NEW b, NEW i, NEW done, NEW offset \in 0 .. Wrap - 1, NEW end, NEW byte,
         Wrote(e, d, c, b, i, done, offset, end, byte), InBlocks(c), e[i].size \in Nat, c[i].size > offset
  PROVE  EndOf(c, i, end - offset, offset) = end
<1>0. /\ BlockSize \in Nat \ {0} /\ Files!MaxSize \in Nat /\ Wrap \in Nat \ {0} /\ Wrap > Files!MaxSize
      /\ offset \in Nat /\ BlocksPerFile \in Nat \ {0}
  BY FilesNumbers
<1>1. end = offset \/ end \in offset + 1 .. Files!MaxSize
  BY DEF Wrote
<1>2. end \in 0 .. Wrap - 1 /\ end >= offset /\ end - offset \in Nat /\ offset + (end - offset) = end
  BY <1>0, <1>1
<1>3. PICK s \in Nat : s = c[i].size /\ s >= end /\ s > offset
  <2>1. c[i].size = IF e[i].size >= end THEN e[i].size ELSE end
    BY DEF Wrote
  <2> QED BY <1>2, <2>1
<1>4. end % Wrap = end
  BY <1>0, <1>2
<1>5. PICK holes : holes = {k \in Files!FileBlocks : c[i].blocks[k] = 0 /\ (k + 1) * BlockSize > offset}
  OBVIOUS
<1>6. PICK S : S = {end, Files!MaxSize} \cup {k * BlockSize : k \in holes}
  OBVIOUS
<1>7. EndOf(c, i, end - offset, offset) = Files!Max({offset, Files!Min(S)})
  <2>1. PICK w : w = end - offset
    OBVIOUS
  <2>2. offset + w = end /\ ~(end % Wrap > s)
    BY <1>2, <1>3, <1>4, <2>1
  <2>3. EndOf(c, i, w, offset) =
          Files!Max({offset, Files!Min({offset + (IF (offset + w) % Wrap > s THEN s - offset ELSE w), Files!MaxSize}
                                         \cup {k * BlockSize : k \in holes})})
    BY <1>3, <1>5, Zenon DEF EndOf
  <2>4. (IF (offset + w) % Wrap > s THEN s - offset ELSE w) = w
    BY <2>2
  <2> QED BY <1>6, <2>1, <2>2, <2>3, <2>4, Zenon
<1>8. ASSUME NEW k \in holes
      PROVE  k \in Nat /\ k * BlockSize \in Nat /\ (end # offset => end <= k * BlockSize)
  <2>1. k \in 0 .. BlocksPerFile - 1 /\ c[i].blocks[k] = 0 /\ (k + 1) * BlockSize > offset
    BY <1>5 DEF Files!FileBlocks
  <2>2. k \in Nat /\ k + 1 \in Nat
    BY <1>0, <2>1
  <2>3. (k + 1) * BlockSize = (k * BlockSize) + BlockSize /\ k * BlockSize \in Nat
    BY <1>0, <2>2
  <2>4. PICK u, v \in Nat : u = k * BlockSize /\ v = (k + 1) * BlockSize /\ v = u + BlockSize
    BY <1>0, <2>3
  <2>5. ASSUME end # offset, u < end PROVE FALSE
    <3>1. PICK p \in Nat : p = IF offset >= u THEN offset ELSE u
      BY <1>0
    <3>2. p \in offset .. end - 1 /\ u <= p /\ p < v
      BY <1>0, <1>1, <2>1, <2>4, <2>5, <3>1
    <3>3. p \div BlockSize = k
      BY <1>0, <2>2, <2>4, <3>2, OneBlock
    <3>4. c[i].blocks[p \div BlockSize] # 0
      BY <1>0, <3>2, WroteThere
    <3> QED BY <2>1, <3>3, <3>4
  <2> QED BY <1>2, <2>2, <2>4, <2>5
<1>9. S \in SUBSET Int /\ end \in S
  BY <1>0, <1>2, <1>6, <1>8
<1>10. CASE end # offset
  <2>1. \A y \in S : end <= y
    BY <1>0, <1>1, <1>2, <1>6, <1>8, <1>10
  <2>2. Files!Min(S) = end
    BY <1>9, <2>1, LeastIs
  <2>3. Files!Max({offset, end}) = end
    BY <1>0, <1>2, OfTwo
  <2> QED BY <1>7, <2>2, <2>3
<1>11. CASE end = offset
  <2>1. S \in SUBSET Nat /\ S # {}
    BY <1>0, <1>2, <1>6, <1>8
  <2>2. PICK m \in S : \A y \in S : m <= y
    BY <2>1, Least
  <2>3. m \in Nat /\ m <= end /\ Files!Min(S) = m
    BY <1>9, <2>1, <2>2, LeastIs
  <2>4. Files!Max({offset, m}) = IF offset >= m THEN offset ELSE m
    BY <1>0, <2>3, OfTwo
  <2> QED BY <1>0, <1>7, <1>11, <2>3, <2>4
<1> QED BY <1>10, <1>11

\* What torfs_write wrote is what torfs_read returns.
LEMMA WriteReadsBack ==
  ASSUME FilesInv, FilesInv', NEW n \in Names, NEW byte \in Bytes, NEW size \in Sizes, NEW offset \in Offsets,
         Files!Write(n, byte, size, offset)
  PROVE  \E i \in Files!Find(n) : \E end \in {Files!WriteEnd(i, offset, size)} :
            Files!Read(i, end - offset, offset)' = [p \in offset .. end - 1 |-> byte]
<1>1. PICK i \in Files!Find(n) : \E done : \E end \in {Files!WriteEnd(i, offset, size)} :
        Wrote(entries, data, entries', data', i, done, offset, end, byte)
  BY WriteWrote, Zenon
<1>2. PICK done, end :
                 /\ end = Files!WriteEnd(i, offset, size)
                 /\ Wrote(entries, data, entries', data', i, done, offset, end, byte)
  BY <1>1, Zenon
<1>3. PICK e, d, c, b : e = entries /\ d = data /\ c = entries' /\ b = data'
  OBVIOUS
<1>4. Wrote(e, d, c, b, i, done, offset, end, byte) /\ InBlocks(c)
  BY <1>2, <1>3, TableApart
<1>5. /\ offset \in 0 .. Wrap - 1 /\ offset \in Nat /\ e[i].size \in Nat /\ i \in Files!Slots
      /\ Files!MaxSize \in Nat
  <2>1. Wrap \in Nat \ {0} /\ offset \in 0 .. Wrap - 1 /\ Files!MaxSize \in Nat
    BY FilesNumbers
  <2>2. i \in Files!Slots
    BY DEF Files!Find
  <2>3. e[i].size \in 0 .. Wrap - 1
    BY <1>3, <2>2 DEF FilesInv, Files!Entry
  <2> QED BY <2>1, <2>2, <2>3
<1>6. end = offset \/ end \in offset + 1 .. Files!MaxSize
  BY <1>4 DEF Wrote
<1>7. c[i].size = IF e[i].size >= end THEN e[i].size ELSE end
  BY <1>4 DEF Wrote
<1>8. ReadOf(c, b, i, end - offset, offset) = [p \in offset .. end - 1 |-> byte]
  <2>1. CASE offset >= c[i].size
    <3>1. offset .. end - 1 = {}
      BY <1>5, <1>6, <1>7, <2>1
    <3>2. ReadOf(c, b, i, end - offset, offset) = [p \in {} |-> HOLE]
      BY <2>1, Zenon DEF ReadOf
    <3>3. [p \in {} |-> HOLE] = [p \in {} |-> byte]
      OBVIOUS
    <3> QED BY <3>1, <3>2, <3>3, Zenon
  <2>2. CASE ~(offset >= c[i].size)
    <3>1. c[i].size > offset
      BY <1>5, <1>6, <1>7, <2>2
    <3>2. EndOf(c, i, end - offset, offset) = end
      BY <1>4, <1>5, <3>1, ReadStops
    <3>3. ReadOf(c, b, i, end - offset, offset) = [p \in offset .. end - 1 |-> Cell(c, b, i, p)]
      BY <2>2, <3>2, Zenon DEF ReadOf
    <3>4. \A p \in offset .. end - 1 : Cell(c, b, i, p) = byte
      BY <1>4, <1>5, WroteThere
    <3>5. [p \in offset .. end - 1 |-> Cell(c, b, i, p)] = [p \in offset .. end - 1 |-> byte]
      BY <3>4
    <3> QED BY <3>3, <3>5, Zenon
  <2> QED BY <2>1, <2>2
<1>9. Files!Read(i, end - offset, offset)' = [p \in offset .. end - 1 |-> byte]
  BY <1>3, <1>8, ReadIs, Zenon
<1> QED BY <1>2, <1>9, Zenon

\* What tfs_write says it wrote tfs_read returns, across blocks, short writes and the
\* wrap of the offset, and whatever is created, written and deleted no call moves a byte
\* of another file (kernel/fs.c tfs_create, tfs_write, tfs_read, tfs_delete).
THEOREM StoresFilesCorrect == MemorySpec => StoresFiles
<1>1. MemoryInit => Files!Store!Init
  <2> SUFFICES ASSUME Files!Init PROVE Files!Store!Init
    BY DEF MemoryInit
  <2>1. FilesInv /\ \A i \in Files!Slots : ~entries[i].used
    BY FilesInitial DEF Files!Init, Files!NewEntry
  <2>2. {entries[i].name : i \in Files!Slots \ Files!Unused} = {}
    BY <2>1 DEF Files!Unused
  <2>3. Files!Contents = [n \in {} |-> LET i == CHOOSE i \in Files!Find(n) : TRUE
            IN  [size |-> entries[i].size, at |-> [p \in 0 .. Files!MaxSize - 1 |-> Files!ByteAt(i, p)]]]
    BY <2>2, Zenon DEF Files!Contents
  <2> QED BY <2>3 DEF Files!Store!Init
<1>2. MemoryInv /\ MemoryInv' /\ [MemoryNext]_<<vars, fileVars, part>> => [Files!Store!Next]_Files!Contents
  <2> SUFFICES ASSUME FilesInv, FilesInv', [Files!Next]_fileVars
               PROVE  Files!Store!Next \/ UNCHANGED Files!Contents
    BY DEF MemoryInv, MemoryNext
  <2>1. CASE Files!Next
    <3>1. PICK n \in Names :
            \/ Files!Create(n)
            \/ \E byte \in Bytes, size \in Sizes, offset \in Offsets : Files!Write(n, byte, size, offset)
            \/ Files!Delete(n)
      BY <2>1 DEF Files!Next
    <3>2. CASE Files!Create(n)
      BY <3>2, CreateStores DEF Files!Store!Next
    <3>3. CASE \E byte \in Bytes, size \in Sizes, offset \in Offsets : Files!Write(n, byte, size, offset)
      BY <3>3, WriteStores
    <3>4. CASE Files!Delete(n)
      BY <3>4, DeleteStores DEF Files!Store!Next
    <3> QED BY <3>1, <3>2, <3>3, <3>4
  <2>2. CASE UNCHANGED fileVars
    <3>1. entries' = entries /\ data' = data
      BY <2>2 DEF fileVars
    <3> QED BY <3>1, ContentsStored, Zenon
  <2> QED BY <2>1, <2>2
<1>3. MemoryInv /\ MemoryInv' /\ [MemoryNext]_<<vars, fileVars, part>> =>
        [\A n \in Names, byte \in Bytes, size \in Sizes, offset \in Offsets :
           Files!Write(n, byte, size, offset) =>
             \E i \in Files!Find(n) : \E end \in {Files!WriteEnd(i, offset, size)} :
               Files!Read(i, end - offset, offset)' = [p \in offset .. end - 1 |-> byte]]_Files!vars
  BY WriteReadsBack DEF MemoryInv
<1> QED BY <1>1, <1>2, <1>3, MemoryInvariance, PTL
    DEF MemorySpec, StoresFiles, Files!ReadsBack, Files!ImplementsFileStore, Files!Store!Spec

==============================================================================
