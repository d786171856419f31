------------------------------- MODULE MCMemory ------------------------------
(* What hands out memory: pages, page tables and the blocks of torFS; part is *)
(* chosen at the start.                                                       *)
(*                                                                            *)
(* Eleven pages, any of which may be taken at boot, one client besides vm.c,  *)
(* and virtual pages that share tables at no, the second and the last level.  *)
(*                                                                            *)
(* Three names, a table of two files of up to two blocks, and two blocks for  *)
(* them: a growing file can find the disk full, and reuses a deleted one's    *)
(* blocks.                                                                    *)
EXTENDS VirtualMemory, TLC

CONSTANTS Names, Bytes, ZERO, HOLE, EMPTY, MaxFiles, BlocksPerFile, BlockSize, TotalBlocks, Wrap,
          Offsets, Sizes
VARIABLES entries, bitmap, freeBlocks, numFiles, data, part

Files == INSTANCE TorFS

ASSUME FilesAssumption == Files!FSAssumption

fileVars == <<entries, bitmap, freeBlocks, numFiles, data>>

MemoryInit == /\ Init /\ Files!Init /\ part \in {"pages", "files"}
              /\ part = "files" => InitBitmap({})
MemoryNext == /\ \/ part = "pages" /\ Next /\ UNCHANGED fileVars
                 \/ part = "files" /\ Files!Next /\ UNCHANGED vars
              /\ UNCHANGED part
MemorySpec == MemoryInit /\ [][MemoryNext]_<<vars, fileVars, part>>

Symmetric == Permutations(Names)

MCVAs == {<<0, 0, 0, 0>>, <<0, 0, 0, 1>>, <<0, 0, 1, 0>>, <<1, 0, 0, 0>>}
MCPAs == {NONE, 7}
MCKernelMap == << [va |-> <<0, 0, 0, 0>>, pa |-> 7, must |-> TRUE],
                  [va |-> <<0, 0, 1, 0>>, pa |-> 7, must |-> FALSE] >>

\* The variables have their types; no block of torFS is in two places, all are
\* accounted for and counted, and a name is in the table once (kernel/fs.c).
BlocksAccounted == TypeOK /\ Files!TypeOK /\ Files!BlocksAccounted /\ Files!NamesFound
\* What tfs_write wrote tfs_read returns, and torFS is a file store (FileStore).
StoresFiles     == Files!ReadsBack /\ Files!ImplementsFileStore
=============================================================================
