------------------------------ MODULE LogRings -------------------------------
(***************************************************************************)
(* The three logs of the kernel.                                           *)
(***************************************************************************)
EXTENDS Integers, Sequences

(***************************************************************************)
(* The log ring of kernel/debug_log.c.  log_write fills its entry under    *)
(* the lock and prints from the entry after it has given the lock back, so *)
(* another CPU may write in between.  Both indices only grow, as unsigned  *)
(* 32-bit numbers that wrap; readers take no lock.                         *)
(***************************************************************************)
CONSTANTS Cpus,
          LogLevels,    \* LOG_LEVEL_EMERG = 0 .. LOG_LEVEL_DEBUG
          Messages,
          RingSize,  \* LOG_RING_SIZE
          IdxMod,    \* indices are counted modulo this (2^32), a multiple of RingSize
          MaxWrites  \* bound on the messages of a run

ASSUME LogAssumption == /\ {RingSize, IdxMod, MaxWrites} \subseteq Nat \ {0}
                        /\ IdxMod % RingSize = 0 /\ IdxMod > RingSize + 1
                        /\ LogLevels \subseteq Nat

VARIABLES log_ring, log_write_idx, log_read_idx, log_drop_count, log_filter_level,
          serial,  \* cpu -> what it has still to print: [slot, message, at], or NotPrinting
          logged   \* messages taken since the last log_clear, and how many before (history)

logVars == <<log_ring, log_write_idx, log_read_idx, log_drop_count, log_filter_level, serial, logged>>

NotPrinting      == [slot |-> -1, message |-> "", at |-> 0]
NoMessage == "empty"
Total     == logged.before + Len(logged.since)

LogCount == (log_write_idx - log_read_idx) % IdxMod

\* Mutant of Overflown: the ring is full one entry too early.
OverflownEarly(w) == (w - log_read_idx) % IdxMod >= RingSize

\* Whether the writer of index w - 1 has overtaken the reader.
Overflown(w) == (w - log_read_idx) % IdxMod > RingSize

\* Mutant of SlotOf: the last entry of the ring is never used.
SlotOfShort(w) == w % (RingSize - 1)

\* Where the entry with index w is.
SlotOf(w) == w % RingSize

\* log_write and everything that ends in it; the lock makes the entry one step.
LogWrite(c, level, m) ==
    LET w == (log_write_idx + 1) % IdxMod
        slot == SlotOf(log_write_idx)
    IN  /\ serial[c] = NotPrinting
        /\ Total < MaxWrites
        /\ level <= log_filter_level
        /\ log_ring' = [log_ring EXCEPT ![slot] = m]
        /\ log_write_idx' = w
        /\ log_read_idx' = IF Overflown(w) THEN (w - RingSize) % IdxMod ELSE log_read_idx
        /\ log_drop_count' = IF Overflown(w) THEN log_drop_count + 1 ELSE log_drop_count
        /\ serial' = [serial EXCEPT ![c] = [slot |-> slot, message |-> m, at |-> Total + 1]]
        /\ logged' = [logged EXCEPT !.since = Append(@, m)]
        /\ UNCHANGED log_filter_level

\* The rest of log_write: the entry goes to the serial line.
LogPrint(c) ==
    /\ serial[c] # NotPrinting
    /\ serial' = [serial EXCEPT ![c] = NotPrinting]
    /\ UNCHANGED <<log_ring, log_write_idx, log_read_idx, log_drop_count, log_filter_level, logged>>

LogSetLevel(level) ==
    /\ log_filter_level' = level
    /\ UNCHANGED <<log_ring, log_write_idx, log_read_idx, log_drop_count, serial, logged>>

LogClear ==
    /\ log_read_idx' = log_write_idx
    /\ log_drop_count' = 0
    /\ logged' = [before |-> Total, since |-> <<>>]
    /\ UNCHANGED <<log_ring, log_write_idx, log_filter_level, serial>>

\* What log_get_entry(i) finds, for all who read the ring: dump, filter, save.  The
\* comparison is of the wrapped numbers.
LogGetEntry(i) ==
    LET actual == (log_read_idx + i) % IdxMod
    IN IF actual >= log_write_idx THEN NoMessage ELSE log_ring[SlotOf(actual)]

LogInit ==
    /\ log_ring = [s \in 0 .. RingSize - 1 |-> NoMessage]
    /\ log_write_idx = 0 /\ log_read_idx = 0 /\ log_drop_count = 0
    /\ \E top \in LogLevels : log_filter_level = top /\ \A l \in LogLevels : l <= top
    /\ serial = [c \in Cpus |-> NotPrinting]
    /\ logged = [before |-> 0, since |-> <<>>]

LogNext ==
    \/ \E c \in Cpus : \/ LogPrint(c)
                       \/ \E l \in LogLevels, m \in Messages : LogWrite(c, l, m)
    \/ \E l \in LogLevels : LogSetLevel(l)
    \/ LogClear
-----------------------------------------------------------------------------
\* The ring holds the last messages since it was cleared, as many as fit, and counts
\* the others as dropped; as long as no index up to the
\* reader's has wrapped they are read in order.
LastEntriesReadable ==
    LET n == Len(logged.since)
        kept == IF n < RingSize THEN n ELSE RingSize
    IN  /\ LogCount = kept
        /\ log_drop_count = n - kept
        /\ \A i \in 0 .. RingSize : log_read_idx <= log_write_idx /\ log_read_idx + i < IdxMod
              => LogGetEntry(i) = IF i < kept THEN logged.since[n - kept + 1 + i] ELSE NoMessage

\* A CPU that has left the lock prints its own message unless the ring went round in
\* the meantime.
PrintsOwnMessage ==
    \A c \in Cpus : serial[c] # NotPrinting /\ Total - serial[c].at < RingSize =>
        log_ring[serial[c].slot] = serial[c].message

(***************************************************************************)
(* A ring that counts what was put into it, as the event log of            *)
(* kernel/debug.c and the audit log of kernel/security.c are, each under   *)
(* its lock.  The dumps take no lock and change nothing.                   *)
(***************************************************************************)
CONSTANTS EntrySlots,   \* EVENT_LOG_SIZE, AUDIT_MAX_ENTRIES
          Entries,
          MaxPuts  \* bound on the entries of a run

ASSUME CountedAssumption == {EntrySlots, MaxPuts} \subseteq Nat \ {0}

VARIABLES entries, count,
          put \* all entries that were put in (history)

ringVars == <<entries, count, put>>

NoEntry == "empty"

\* Mutant of At: the entry behind the next one is filled.
AtNext(n) == (n + 1) % EntrySlots

\* Where the entry with number n is.
At(n) == n % EntrySlots

Put(e) ==
    /\ count < MaxPuts
    /\ entries' = [entries EXCEPT ![At(count)] = e]
    /\ count' = count + 1
    /\ put' = Append(put, e)

\* The last n entries, as event_log_dump(n) lists them.
Dump(n) ==
    LET start == IF count > n THEN count - n ELSE 0
    IN [i \in 1 .. count - start |-> entries[(start + i - 1) % EntrySlots]]

\* audit_dump lists the whole ring.
AuditDump == Dump(EntrySlots)

RingInit == /\ entries = [s \in 0 .. EntrySlots - 1 |-> NoEntry]
            /\ count = 0 /\ put = <<>>

RingNext == \E e \in Entries : Put(e)
-----------------------------------------------------------------------------
\* A dump of at most the ring's size lists the last entries in the order they came.
DumpsLast ==
    \A n \in 1 .. EntrySlots :
        LET k == IF count < n THEN count ELSE n
        IN /\ Dump(n) = SubSeq(put, Len(put) - k + 1, Len(put))
           /\ n = EntrySlots => AuditDump = Dump(n)
=============================================================================
