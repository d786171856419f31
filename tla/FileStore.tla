------------------------------ MODULE FileStore ------------------------------
(***************************************************************************)
(* What a file system promises its callers: files that change only when    *)
(* they are named.  A write puts a prefix of its data where it was asked   *)
(* to, and touches no byte that an earlier write put elsewhere in a file;  *)
(* positions nobody wrote yet may become any byte (torFS does not clear    *)
(* a block it reuses).                                                     *)
(***************************************************************************)
EXTENDS Integers

CONSTANTS
    Names,      \* file names
    Bytes,      \* contents of one position
    HOLE,       \* a position without storage
    MaxSize,    \* positions of a file
    Offsets     \* where a write may start

Positions == 0 .. MaxSize - 1
File == [size : Nat, at : [Positions -> Bytes \cup {HOLE}]]
EmptyFile == [size |-> 0, at |-> [p \in Positions |-> HOLE]]

VARIABLE files      \* the existing files: a function from their names

Exists(n) == n \in DOMAIN files
Others(n) == \A m \in DOMAIN files \ {n} : files'[m] = files[m]

Init == files = [n \in {} |-> EmptyFile]

Create(n) ==
    /\ ~Exists(n)
    /\ files' = [m \in DOMAIN files \cup {n} |-> IF m = n THEN EmptyFile ELSE files[m]]

Delete(n) ==
    /\ Exists(n)
    /\ files' = [m \in DOMAIN files \ {n} |-> files[m]]

(* `to` is where the write ended: before its last byte when storage ran out. *)
Write(n, from, to, byte) ==
    /\ Exists(n) /\ DOMAIN files' = DOMAIN files /\ Others(n)
    /\ files'[n] \in File
    /\ files'[n].size = IF to > files[n].size THEN to ELSE files[n].size
    /\ \A p \in Positions :
         IF p \in from .. to - 1
           THEN files'[n].at[p] = byte
           ELSE files[n].at[p] \in {HOLE, files'[n].at[p]}

Next ==
    \E n \in Names :
      \/ Create(n)
      \/ Delete(n)
      \/ \E from \in Offsets, byte \in Bytes :
           \E to \in {from} \cup (from .. MaxSize) : Write(n, from, to, byte)

Spec == Init /\ [][Next]_files
=============================================================================
