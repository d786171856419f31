-------------------------------- MODULE TorFS --------------------------------
(***************************************************************************)
(* kernel/fs.c: torFS, an in-memory file system.  Every operation holds    *)
(* fs_lock from its first read to its last write, so it is one action; it  *)
(* returns -1 without a change where the action is not enabled.            *)
(*                                                                         *)
(* A byte is a member of Bytes, offsets and sizes are uint32 (modulo Wrap) *)
(* and names are those shorter than TFS_MAX_FILENAME.                      *)
(***************************************************************************)
EXTENDS Integers, FiniteSetsExt

CONSTANTS
    Names, Bytes,
    ZERO,           \* the byte memset writes
    HOLE,           \* what a position without a block reads as (not a byte)
    EMPTY,          \* the empty name, which no file is given
    MaxFiles,       \* TFS_MAX_FILES
    BlocksPerFile,  \* TFS_BLOCKS_PER_FILE
    BlockSize,      \* TFS_BLOCK_SIZE
    TotalBlocks,    \* total_blocks
    Wrap,           \* 2^32
    Offsets, Sizes  \* arguments of tfs_write and tfs_read

MaxSize == BlockSize * BlocksPerFile    \* TFS_MAX_FILE_SIZE

\* What the arguments of the model must be; the module that runs it assumes it.
FSAssumption ==
    /\ ZERO \in Bytes /\ HOLE \notin Bytes /\ EMPTY \notin Names
    /\ MaxFiles \in Nat \ {0} /\ BlocksPerFile \in Nat \ {0}
    /\ BlockSize \in Nat \ {0} /\ TotalBlocks \in Nat \ {0}
    /\ Wrap \in Nat /\ Wrap > MaxSize
    /\ Offsets \subseteq 0 .. Wrap - 1 /\ Sizes \subseteq 0 .. Wrap - 1

VARIABLES
    entries,        \* files: the file table
    bitmap,         \* the set bits of block_bitmap
    freeBlocks,     \* sb->free_blocks
    numFiles,       \* sb->num_files
    data            \* block_data

vars == <<entries, bitmap, freeBlocks, numFiles, data>>

Slots == 0 .. MaxFiles - 1
Blocks == 0 .. TotalBlocks - 1
FileBlocks == 0 .. BlocksPerFile - 1

\* A block number of 0 means no block: tfs_init takes block 0 for itself.
NoBlocks == [k \in FileBlocks |-> 0]
NewEntry(n) == [used |-> TRUE, name |-> n, size |-> 0, blocks |-> NoBlocks]

Init ==
    /\ entries = [i \in Slots |-> [NewEntry(EMPTY) EXCEPT !.used = FALSE]]
    /\ bitmap = {0}
    /\ freeBlocks = TotalBlocks - 1
    /\ numFiles = 0
    /\ data = [b \in Blocks |-> [x \in 0 .. BlockSize - 1 |-> ZERO]]

Find(n) == {i \in Slots : entries[i].used /\ entries[i].name = n}

-----------------------------------------------------------------------------
Unused == {i \in Slots : ~entries[i].used}

\* Mutant of FreeEntry: the used flag is not looked at.
FreeEntryLast(i) == i = Max(Slots)
FreeEntry(i) == i \in Unused /\ \A j \in 0 .. i - 1 : entries[j].used

Create(n) ==
    /\ Find(n) = {}
    /\ \E i \in Slots : FreeEntry(i) /\ entries' = [entries EXCEPT ![i] = NewEntry(n)]
    /\ numFiles' = numFiles + 1
    /\ UNCHANGED <<bitmap, freeBlocks, data>>

-----------------------------------------------------------------------------
Rank(S, x) == Cardinality({y \in S : y <= x})
Clear == Blocks \ bitmap
ClearAt(rank) == CHOOSE b \in Clear : Rank(Clear, b) = rank

\* The size tfs_write goes by.
Clamped(offset, size) ==
    IF (offset + size) % Wrap > MaxSize THEN (MaxSize - offset) % Wrap ELSE size

\* The blocks of the file from offset on that `size` bytes lie in.
Span(offset, size) ==
    {k \in FileBlocks : /\ (k + 1) * BlockSize > offset
                        /\ size > 0 /\ k * BlockSize < offset + size}

\* What a write to slot i does, block by block: `missing` have no block yet,
\* `done` are reached before a block is wanted that alloc_block cannot give.
Plan(i, offset, size) ==
    LET span    == Span(offset, size)
        missing == {k \in span : entries[i].blocks[k] = 0}
        done    == {k \in span : Rank(missing, k) <= Cardinality(Clear)}
    IN  [missing |-> missing \cap done,
         done    |-> done,
         blocks  |-> [k \in FileBlocks |-> IF k \in missing \cap done
                                             THEN ClearAt(Rank(missing, k))
                                             ELSE entries[i].blocks[k]],
         end     |-> IF done = {} THEN offset
                     ELSE Min({offset + size, (Max(done) + 1) * BlockSize})]

\* Mutant of Taken: the blocks are not marked.
NotTaken(plan) == bitmap
Taken(plan) == bitmap \cup {plan.blocks[k] : k \in plan.missing}

\* Mutant of Stored: the offset inside the first block is forgotten.
StoredFromBlockStart(plan, offset, byte) ==
    [b \in Blocks |-> [x \in 0 .. BlockSize - 1 |->
        IF \E k \in plan.done : plan.blocks[k] = b /\ k * BlockSize + x < plan.end
          THEN byte ELSE data[b][x]]]
Stored(plan, offset, byte) ==
    [b \in Blocks |-> [x \in 0 .. BlockSize - 1 |->
        IF \E k \in plan.done : plan.blocks[k] = b /\ k * BlockSize + x \in offset .. plan.end - 1
          THEN byte ELSE data[b][x]]]

WriteEnd(i, offset, size) == Plan(i, offset, Clamped(offset, size)).end

\* The size follows the position even when nothing was written there.
Write(n, byte, size, offset) ==
    \E i \in Find(n) :
      LET plan == Plan(i, offset, Clamped(offset, size))
      IN  /\ entries' = [entries EXCEPT ![i].blocks = plan.blocks, ![i].size = Max({@, plan.end})]
          /\ bitmap' = Taken(plan)
          /\ freeBlocks' = freeBlocks - Cardinality(plan.missing)
          /\ data' = Stored(plan, offset, byte)
          /\ UNCHANGED numFiles

-----------------------------------------------------------------------------
BlocksOf(i) == {entries[i].blocks[k] : k \in FileBlocks} \ {0}

\* Mutant of Emptied: the block numbers stay in the entry.
EmptiedKeepingBlocks(i) == [entries EXCEPT ![i].used = FALSE, ![i].name = EMPTY]
Emptied(i) ==
    [entries EXCEPT ![i].used = FALSE, ![i].name = EMPTY, ![i].blocks = NoBlocks]

\* Mutant of Released: only the first block is freed.
ReleasedFirst(i) == bitmap \ ({entries[i].blocks[0]} \ {0})
Released(i) == bitmap \ BlocksOf(i)

Delete(n) ==
    /\ \E i \in Find(n) :
         /\ entries' = Emptied(i)
         /\ bitmap' = Released(i)
         /\ freeBlocks' = freeBlocks + Cardinality(BlocksOf(i))
    /\ numFiles' = numFiles - 1
    /\ UNCHANGED data

-----------------------------------------------------------------------------
(* tfs_read: the bytes by position, up to the end of the file or the first  *)
(* position without a block.                                                *)
ByteAt(i, p) ==
    IF entries[i].blocks[p \div BlockSize] = 0
      THEN HOLE ELSE data[entries[i].blocks[p \div BlockSize]][p % BlockSize]

\* Mutant of ReadEnd: only the first block is copied.
ReadEndOneBlock(i, size, offset) ==
    Min({offset + size, entries[i].size, (offset \div BlockSize + 1) * BlockSize})

ReadEnd(i, size, offset) ==
    LET wanted == IF (offset + size) % Wrap > entries[i].size
                    THEN entries[i].size - offset ELSE size
        holes  == {k \in FileBlocks : entries[i].blocks[k] = 0 /\ (k + 1) * BlockSize > offset}
    IN  Max({offset, Min({offset + wanted, MaxSize} \cup {k * BlockSize : k \in holes})})

Read(i, size, offset) ==
    IF offset >= entries[i].size THEN [p \in {} |-> HOLE]
    ELSE [p \in offset .. ReadEnd(i, size, offset) - 1 |-> ByteAt(i, p)]

Next ==
    \E n \in Names :
      \/ Create(n)
      \/ \E byte \in Bytes, size \in Sizes, offset \in Offsets : Write(n, byte, size, offset)
      \/ Delete(n)

Spec == Init /\ [][Next]_vars

-----------------------------------------------------------------------------
Entry == [used : BOOLEAN, name : Names \cup {EMPTY}, size : 0 .. Wrap - 1,
          blocks : [FileBlocks -> Blocks]]

TypeOK ==
    /\ entries \in [Slots -> Entry]
    /\ bitmap \in SUBSET Blocks
    /\ freeBlocks \in 0 .. TotalBlocks - 1
    /\ numFiles \in 0 .. MaxFiles
    /\ data \in [Blocks -> [0 .. BlockSize - 1 -> Bytes]]

\* Whatever was created, grown by short writes and deleted: no block is in two
\* places, every block is free or some file's, and free_blocks counts the free
\* ones (kernel/fs.c alloc_block, free_block).
BlocksAccounted ==
    /\ \A i, j \in Slots : \A k, l \in FileBlocks :
         (<<i, k>> # <<j, l>> /\ entries[i].blocks[k] # 0)
           => entries[i].blocks[k] # entries[j].blocks[l]
    /\ bitmap = {0} \cup UNION {BlocksOf(i) : i \in Slots}
    /\ freeBlocks = Cardinality(Clear)

\* A name is in the table once, so find_file finds the file that was meant, and
\* num_files counts the names (kernel/fs.c tfs_create, tfs_delete).
NamesFound ==
    /\ \A n \in Names : Cardinality(Find(n)) <= 1
    /\ numFiles = Cardinality(Slots \ Unused)

\* tfs_read of what a tfs_write says it wrote returns just that, across blocks,
\* short writes and the wrap of offset + size (kernel/fs.c tfs_write, tfs_read).
ReadsBack ==
    [][\A n \in Names, byte \in Bytes, size \in Sizes, offset \in Offsets :
         Write(n, byte, size, offset) =>
           \E i \in Find(n) : \E end \in {WriteEnd(i, offset, size)} :
             Read(i, end - offset, offset)' = [p \in offset .. end - 1 |-> byte]]_vars

\* The files by name, with the bytes at each position.
Contents ==
    [n \in {entries[i].name : i \in Slots \ Unused} |->
       LET i == CHOOSE i \in Find(n) : TRUE
       IN  [size |-> entries[i].size, at |-> [p \in 0 .. MaxSize - 1 |-> ByteAt(i, p)]]]

Store == INSTANCE FileStore WITH files <- Contents

\* torFS is a file store: an operation on one file moves no byte of another, a
\* write keeps the bytes around it, a delete and a create forget everything
\* (kernel/fs.c, all of it).
ImplementsFileStore == Store!Spec
=============================================================================
