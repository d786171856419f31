------------------------------- MODULE Storage -------------------------------
(***************************************************************************)
(* The storage stack of kernel/fs_advanced.c, from the devices up.         *)
(***************************************************************************)
EXTENDS Integers, FiniteSets, Sequences

(***************************************************************************)
(* The block layer of kernel/fs_advanced.c: registered devices, and one    *)
(* cache for all of them whose entries carry a sector number and no        *)
(* device.  block_read takes a sector from the cache when it is there and  *)
(* does not put it there; block_write fills the cache first and writes     *)
(* through.  A device may fail; what it holds is then as before.           *)
(*                                                                         *)
(* The calls are made one at a time, of one sector each: a longer call is  *)
(* a sequence of them, except that it writes to the device at the end.     *)
(***************************************************************************)
CONSTANTS Devs,      \* devices, at most MAX_BLOCK_DEVS of them
          Sectors,   \* sector numbers of a device
          Contents,  \* what a sector can hold
          Blank,     \* what it holds at first
          CacheLen,  \* BLOCK_CACHE_SIZE
          MaxJiffies \* bound on the clock

ASSUME BlockAssumption == /\ Blank \in Contents /\ Sectors \subseteq Nat
                          /\ {CacheLen, MaxJiffies} \subseteq Nat \ {0}

VARIABLES block_devices, \* registered devices, the newest first
          disk,          \* device -> sector -> contents
          block_cache,   \* index -> entry
          jiffies,
          written        \* sector -> devices it was written at, the data given last and
                         \* whether the device took it (history)

blockVars == <<block_devices, disk, block_cache, jiffies, written>>

NoSector == [sector |-> -1, data |-> Blank, last_used |-> 0]
Cells    == 1 .. CacheLen
Registered(d) == \E i \in DOMAIN block_devices : block_devices[i] = d

\* block_register puts the device in front of the list.
BlockRegister(d) ==
    /\ ~Registered(d)
    /\ block_devices' = <<d>> \o block_devices
    /\ UNCHANGED <<disk, block_cache, jiffies, written>>

\* The cache entries of a sector; the first one counts.
Hits(s) == {c \in Cells : block_cache[c].sector = s}

First(S) == CHOOSE c \in S : \A e \in S : c <= e

\* What block_read(d, s) puts into the buffer when the device answers.
BlockData(d, s) == IF Hits(s) # {} THEN block_cache[First(Hits(s))].data ELSE disk[d][s]

\* The cache after it: a hit is stamped, a miss changes nothing.
Touched(s) == IF Hits(s) = {} THEN block_cache
              ELSE [block_cache EXCEPT ![First(Hits(s))].last_used = jiffies]

BlockRead(d, s) ==
    /\ Registered(d)
    /\ block_cache' = Touched(s)
    /\ UNCHANGED <<block_devices, disk, jiffies, written>>

Oldest == CHOOSE c \in Cells :
            /\ \A e \in Cells : block_cache[c].last_used <= block_cache[e].last_used
            /\ \A e \in Cells : block_cache[e].last_used = block_cache[c].last_used => c <= e

\* Mutant of Slot: the search for the sector stops before the last entry.
SlotShort(s) == IF Hits(s) \ {CacheLen} # {} THEN First(Hits(s)) ELSE Oldest

\* The entry a written sector goes to: its own, else the one used longest ago.
Slot(s) == IF Hits(s) # {} THEN First(Hits(s)) ELSE Oldest

\* block_write: the cache before the device, which may fail (ok).
BlockWrite(d, s, x, ok) ==
    /\ Registered(d)
    /\ block_cache' = [block_cache EXCEPT ![Slot(s)] =
                         [sector |-> s, data |-> x, last_used |-> jiffies]]
    /\ disk' = IF ok THEN [disk EXCEPT ![d][s] = x] ELSE disk
    /\ written' = [written EXCEPT ![s] = [at |-> @.at \cup {d}, data |-> x, ok |-> ok]]
    /\ UNCHANGED <<block_devices, jiffies>>

Jiffy == /\ jiffies < MaxJiffies
         /\ jiffies' = jiffies + 1
         /\ UNCHANGED <<block_devices, disk, block_cache, written>>

Never == [at |-> {}, data |-> Blank, ok |-> TRUE]

BlockInit ==
    /\ block_devices = <<>>
    /\ disk = [d \in Devs |-> [s \in Sectors |-> Blank]]
    /\ block_cache = [c \in Cells |-> NoSector]
    /\ jiffies = 0
    /\ written = [s \in Sectors |-> Never]

BlockNext ==
    \/ \E d \in Devs : BlockRegister(d)
    \/ \E d \in Devs, s \in Sectors :
          \/ BlockRead(d, s)
          \/ \E x \in Contents, ok \in BOOLEAN : BlockWrite(d, s, x, ok)
    \/ Jiffy
-----------------------------------------------------------------------------
\* Whatever is evicted in between, a sector that only one device has been written at,
\* with success, is read as it was last written.  (With a second device or a failed
\* write it is not: the entry has no device, and it is filled before the write.)
ReadsLastWrite ==
    \A d \in Devs, s \in Sectors :
        written[s].ok /\ written[s].at \subseteq {d} => BlockData(d, s) = written[s].data

(***************************************************************************)
(* Partitions, mounts and file descriptors of kernel/fs_advanced.c, over   *)
(* the block layer.  A sector holds a partition table, a superblock or     *)
(* something else; every mount of a kind shares one static superblock.     *)
(* Every path that begins with "/" is the root, which has no mount behind  *)
(* it, so vfs_read and vfs_write fail and move no position.                *)
(***************************************************************************)
CONSTANTS MaxPartitions, \* MAX_PARTITIONS
          MaxMounts,     \* bound on the mounts
          MaxOpen,       \* VFS_MAX_OPEN
          PosMod,        \* positions are unsigned, counted modulo this (2^64)
          Offsets,       \* offsets of vfs_seek, as numbers modulo PosMod
          StartOf(_),    \* contents -> start sectors of the partitions a table names
          MagicOf(_)     \* contents -> the file system whose superblock it is, or "none"

ASSUME VfsAssumption == /\ {MaxOpen, PosMod} \subseteq Nat \ {0}
                        /\ Offsets \subseteq 0 .. PosMod - 1

VARIABLES partitions, \* [device, start], in the order they were found
          mounts,     \* [device, fs], the newest first
          super,      \* fs -> what ext4_sb or fat32_bs holds
          fd_table,   \* descriptor -> [used, position]
          ref_count   \* of the root vnode

vfsVars == <<partitions, mounts, super, fd_table, ref_count>>

FileSystems == {"ext4", "fat32"}
FdSlots     == 0 .. MaxOpen - 1

\* Where a file system keeps its superblock, from the start of the partition.
SuperAt(fs) == IF fs = "ext4" THEN 2 ELSE 0

(***************************************************************************)
(* partition_scan_mbr: appends what the table names, every time it is      *)
(* called, as far as there is room.  partition_scan_gpt is alike, with the *)
(* table at sector 1.                                                      *)
(***************************************************************************)
Found(d, starts) == [i \in 1 .. Len(starts) |-> [device |-> d, start |-> starts[i]]]

Appended(d, starts) ==
    LET all == partitions \o Found(d, starts)
    IN SubSeq(all, 1, IF Len(all) < MaxPartitions THEN Len(all) ELSE MaxPartitions)

PartitionScan(d, table) ==
    /\ Registered(d)
    /\ partitions' = Appended(d, StartOf(BlockData(d, table)))
    /\ block_cache' = Touched(table)
    /\ UNCHANGED <<block_devices, disk, jiffies, written, mounts, super, fd_table, ref_count>>

(***************************************************************************)
(* vfs_mount: the first partition of the device, or the whole of it; the   *)
(* superblock is copied before it is looked at.                            *)
(***************************************************************************)
PartitionOf(d) ==
    LET own == {i \in DOMAIN partitions : partitions[i].device = d}
    IN IF own = {} THEN 0 ELSE partitions[First(own)].start

VfsMount(d, fs) ==
    LET at == PartitionOf(d) + SuperAt(fs)
        sb == BlockData(d, at)
    IN  /\ Registered(d) /\ at \in Sectors
        /\ Len(mounts) < MaxMounts
        /\ super' = [super EXCEPT ![fs] = sb]
        /\ mounts' = IF MagicOf(sb) = fs THEN <<[device |-> d, fs |-> fs]>> \o mounts ELSE mounts
        /\ block_cache' = Touched(at)
        /\ UNCHANGED <<block_devices, disk, jiffies, written, partitions, fd_table, ref_count>>

(***************************************************************************)
(* Descriptors                                                             *)
(***************************************************************************)
Closed == [used |-> FALSE, position |-> 0]
FreeFds == {i \in FdSlots : ~fd_table[i].used}

VfsOpen ==
    /\ FreeFds # {}
    /\ fd_table' = [fd_table EXCEPT ![First(FreeFds)] = [used |-> TRUE, position |-> 0]]
    /\ ref_count' = ref_count + 1
    /\ UNCHANGED <<blockVars, partitions, mounts, super>>

\* Mutant of CloseChecked: a descriptor closed before is closed again.
CloseUnchecked(fd) == TRUE

\* vfs_close looks whether the descriptor is used.
CloseChecked(fd) == fd_table[fd].used

VfsClose(fd) ==
    /\ CloseChecked(fd)
    /\ fd_table' = [fd_table EXCEPT ![fd].used = FALSE]
    /\ ref_count' = ref_count - 1
    /\ UNCHANGED <<blockVars, partitions, mounts, super>>

\* vfs_seek: to, by, or from the end of the root, whose size is 0; the check for a
\* negative position is never true of an unsigned one.
VfsSeek(fd, off, whence) ==
    /\ fd_table[fd].used
    /\ fd_table' = [fd_table EXCEPT ![fd].position =
                      IF whence = 1 THEN (@ + off) % PosMod ELSE off]
    /\ UNCHANGED <<blockVars, partitions, mounts, super, ref_count>>

VfsInit ==
    /\ partitions = <<>> /\ mounts = <<>>
    /\ super = [fs \in FileSystems |-> Blank]
    /\ fd_table = [i \in FdSlots |-> Closed]
    /\ ref_count = 1

MountCalls ==
    \E d \in Devs : \/ \E table \in {0, 1} \cap Sectors : PartitionScan(d, table)
                    \/ \E fs \in FileSystems : VfsMount(d, fs)

DescriptorCalls ==
    \/ VfsOpen
    \/ \E fd \in FdSlots : \/ VfsClose(fd)
                           \/ \E off \in Offsets, whence \in 0 .. 2 : VfsSeek(fd, off, whence)
-----------------------------------------------------------------------------
\* The root is referenced by itself and by every open descriptor, whatever the order
\* in which descriptors are opened, closed twice and reused.
RootReferenced ==
    ref_count = 1 + Cardinality({i \in FdSlots : fd_table[i].used})
=============================================================================
