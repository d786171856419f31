------------------------------- MODULE Spinlock ------------------------------
(***************************************************************************)
(* kernel/spinlock.c: one lock, taken by a load-exclusive/store-exclusive  *)
(* loop, with a wait for an event while somebody else has it.              *)
(*                                                                         *)
(* pc[c] is the instruction CPU c is about to execute:                     *)
(*   "out"       none of this lock's                                       *)
(*   "load"      ldaxr in spin_lock        "tryload"   in spin_trylock     *)
(*   "store"     stxr in spin_lock         "trystore"  in spin_trylock     *)
(*   "wait"      wfe                                                       *)
(*   "own"       lock->cpu = cpu, the lock being taken                     *)
(*   "critical"  the caller's code, then spin_unlock                       *)
(*   "release"   stlr and sev              "send"      sev, stlr done      *)
(*   "publish"   stlr, sev done                                            *)
(*                                                                         *)
(* There is no barrier between stlr and sev, so the event may be sent      *)
(* before the store is seen.  Two registers of the architecture matter:    *)
(* the exclusive monitor, which a store of another CPU or an exception     *)
(* return clears, and the event register, which sev, an exception return   *)
(* and the clearing of the CPU's monitor by a store set.                   *)
(***************************************************************************)
EXTENDS Integers

CONSTANTS
    CPUs,
    NoCpu       \* 0xFF in lock->cpu

ASSUME CpusAssumption == NoCpu \notin CPUs

VARIABLES
    locked,     \* lock->locked
    owner,      \* lock->cpu
    monitor,    \* the CPUs whose exclusive monitor is set
    event,      \* the CPUs whose event register is set
    pc

lockVars == <<locked, owner, monitor, event, pc>>

\* spin_init; a CPU's event register may be in any state.
LockInit ==
    /\ locked = 0
    /\ owner = NoCpu
    /\ monitor = {}
    /\ event \in SUBSET CPUs
    /\ pc = [c \in CPUs |-> "out"]

Goto(c, from, to) == pc[c] = from /\ pc' = [pc EXCEPT ![c] = to]

\* A store of c to the lock clears the monitors of the others, which wakes them.
StoreBy(c, value) ==
    /\ locked' = value
    /\ event' = event \cup (monitor \ {c})
    /\ monitor' = {}

-----------------------------------------------------------------------------
SpinLock(c) == Goto(c, "out", "load") /\ UNCHANGED <<locked, owner, monitor, event>>

SpinTryLock(c) == Goto(c, "out", "tryload") /\ UNCHANGED <<locked, owner, monitor, event>>

\* Mutant of Armed: the monitor is set only by a load that finds the lock free
\* (a plain load decides whether to wait).
ArmedIfFree(c) == IF locked = 0 THEN monitor \cup {c} ELSE monitor

Armed(c) == monitor \cup {c}

LoadExclusive(c) ==
    /\ \/ locked = 0 /\ Goto(c, "load", "store")
       \/ locked = 0 /\ Goto(c, "tryload", "trystore")
       \/ locked = 1 /\ Goto(c, "load", "wait")
       \/ locked = 1 /\ Goto(c, "tryload", "out")
    /\ monitor' = Armed(c)
    /\ UNCHANGED <<locked, owner, event>>

\* Mutant of MayStore: an ordinary store instead of the exclusive one.
MayStoreAlways(c) == TRUE

MayStore(c) == c \in monitor

StoreExclusive(c) ==
    /\ MayStore(c)
    /\ Goto(c, "store", "own") \/ Goto(c, "trystore", "own")
    /\ StoreBy(c, 1)
    /\ UNCHANGED owner

StoreFails(c) ==
    /\ ~MayStore(c)
    /\ Goto(c, "store", "load") \/ Goto(c, "trystore", "out")
    /\ UNCHANGED <<locked, owner, monitor, event>>

WaitForEvent(c) ==
    /\ c \in event
    /\ Goto(c, "wait", "load")
    /\ event' = event \ {c}
    /\ UNCHANGED <<locked, owner, monitor>>

SetOwner(c) ==
    /\ Goto(c, "own", "critical")
    /\ owner' = c
    /\ UNCHANGED <<locked, monitor, event>>

OwnerAtUnlock == NoCpu

\* The first statement of spin_unlock.
SpinUnlock(c) ==
    /\ Goto(c, "critical", "release")
    /\ owner' = OwnerAtUnlock
    /\ UNCHANGED <<locked, monitor, event>>

StoreRelease(c) ==
    /\ Goto(c, "release", "send") \/ Goto(c, "publish", "out")
    /\ StoreBy(c, 0)
    /\ UNCHANGED owner

SendEvent(c) ==
    /\ Goto(c, "release", "publish") \/ Goto(c, "send", "out")
    /\ event' = CPUs
    /\ UNCHANGED <<locked, owner, monitor>>

\* An interrupt between two instructions; a return from it clears the monitor.
Interrupt(c) ==
    /\ monitor' = monitor \ {c}
    /\ event' = event \cup {c}
    /\ UNCHANGED <<locked, owner, pc>>

\* The instructions of spin_lock, spin_trylock and spin_unlock.
LockStep(c) ==
    \/ LoadExclusive(c) \/ StoreExclusive(c) \/ StoreFails(c) \/ WaitForEvent(c)
    \/ SetOwner(c) \/ StoreRelease(c) \/ SendEvent(c)

LockNext ==
    \E c \in CPUs :
        SpinLock(c) \/ SpinTryLock(c) \/ LockStep(c) \/ SpinUnlock(c) \/ Interrupt(c)

LockSpec == LockInit /\ [][LockNext]_lockVars

\* A CPU that executes goes on executing, critical sections end, and the
\* architecture lets one of the store-exclusives that are tried again and again
\* succeed; nobody need call spin_lock, and no interrupt need come.
LockFairness ==
    /\ \A c \in CPUs : WF_lockVars(LockStep(c)) /\ WF_lockVars(SpinUnlock(c))
    /\ SF_lockVars(\E c \in CPUs : StoreExclusive(c))

FairLockSpec == LockSpec /\ LockFairness

-----------------------------------------------------------------------------
\* From the store that takes the lock to the one that gives it back.
Holding(c) == pc[c] \in {"own", "critical", "release", "publish"}

Places == {"out", "load", "store", "tryload", "trystore", "wait", "own",
           "critical", "release", "send", "publish"}

LockTypeOK ==
    /\ locked \in {0, 1}
    /\ owner \in CPUs \cup {NoCpu}
    /\ monitor \in SUBSET CPUs
    /\ event \in SUBSET CPUs
    /\ pc \in [CPUs -> Places]

\* Of the instruction loops of several CPUs, interrupted anywhere, one at a time
\* gets the lock, and the next one after it was given back (kernel/spinlock.c
\* spin_lock, spin_trylock, spin_unlock).
Lock == INSTANCE Mutex WITH holders <- {c \in CPUs : Holding(c)}
ImplementsLock == Lock!Spec

\* No CPU sleeps in wfe for an event that has been and gone: as long as none is
\* pending, the lock is taken and the CPU's monitor is set, so that the store of
\* stlr wakes it, even where sev came before the store was seen.
NoLostWakeup ==
    \A c \in CPUs : pc[c] = "wait" /\ c \notin event => locked = 1 /\ c \in monitor

\* A free lock that some CPU is calling spin_lock for gets taken: CPUs do not all
\* sleep or disturb each other for ever (kernel/spinlock.c spin_lock).
FreeLockTaken ==
    (locked = 0 /\ \E c \in CPUs : pc[c] \in {"load", "store", "wait"}) ~> (locked = 1)

\* lock->cpu, written without the atomicity of the lock word, names nobody but
\* the CPU inside the critical section, and that one always.
OwnerIsInside == \A c \in CPUs : owner = c <=> pc[c] = "critical"
=============================================================================
