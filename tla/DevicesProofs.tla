--------------------------- MODULE DevicesProofs ---------------------------
(***************************************************************************)
(* The lock and the buffers that share memory between devices (Spinlock,   *)
(* DmaBuf), for any number of CPUs, buffers and pages, under their own     *)
(* specifications; then the devices of MCDevices: what holds of them in    *)
(* every run, for any numbers of pages, blocks, keys, ports and ring       *)
(* slots.  Those invariants are of one device each; no step of another     *)
(* changes its state.                                                      *)
(***************************************************************************)
EXTENDS MCDevices, PageAllocatorProofs, WellFoundedInduction, SequenceTheorems

-----------------------------------------------------------------------------
(* The lock: for any number of CPUs, the loop of kernel/spinlock.c is a    *)
(* lock, loses no wake-up and keeps lock->cpu right.                       *)

\* The lock word is 1 as long as somebody holds the lock, and 0 at a CPU whose
\* store-exclusive can succeed.
WordRight ==
    /\ \A c \in CPUs : Holding(c) => locked = 1
    /\ \A c \in monitor : pc[c] \in {"store", "trystore"} => locked = 0

OneHolder == \A c, d \in CPUs : Holding(c) /\ Holding(d) => c = d

LockInv == LockTypeOK /\ WordRight /\ OneHolder /\ NoLostWakeup /\ OwnerIsInside

\* Nobody holds the lock, nor waits, nor is inside it, at the start.
LEMMA InitRight == LockInit => LockInv
  BY CpusAssumption DEF LockInit, LockInv, LockTypeOK, Places, WordRight, OneHolder,
     NoLostWakeup, OwnerIsInside, Holding

\* Where the CPUs are after one of them went from one instruction to another.
LEMMA GotoMoves ==
  ASSUME pc \in [CPUs -> Places], NEW c \in CPUs,
         NEW from \in Places, NEW to \in Places, Goto(c, from, to)
  PROVE  /\ pc' \in [CPUs -> Places]
         /\ pc[c] = from /\ pc'[c] = to
         /\ \A d \in CPUs \ {c} : pc'[d] = pc[d]
  BY DEF Goto

\* The calls and returns that touch neither the word nor the registers.
LEMMA CallKeeps ==
  ASSUME LockInv, NEW c \in CPUs, SpinLock(c) \/ SpinTryLock(c)
  PROVE  LockInv'
<1>1. PICK to \in {"load", "tryload"} :
        Goto(c, "out", to) /\ UNCHANGED <<locked, owner, monitor, event>>
  BY DEF SpinLock, SpinTryLock
<1>2. to \in Places /\ "out" \in Places
  BY DEF Places
<1>3. /\ pc' \in [CPUs -> Places] /\ pc[c] = "out" /\ pc'[c] = to
      /\ \A d \in CPUs \ {c} : pc'[d] = pc[d]
  BY <1>1, <1>2, GotoMoves DEF LockInv, LockTypeOK
<1>4. LockTypeOK'
  BY <1>1, <1>3 DEF LockInv, LockTypeOK
<1>5. WordRight' /\ OneHolder'
  BY <1>1, <1>3 DEF LockInv, LockTypeOK, WordRight, OneHolder, Holding
<1>6. NoLostWakeup' /\ OwnerIsInside'
  BY <1>1, <1>3 DEF LockInv, LockTypeOK, NoLostWakeup, OwnerIsInside
<1> QED
  BY <1>4, <1>5, <1>6 DEF LockInv

\* ldaxr, and the branch on what it read.
LEMMA LoadKeeps ==
  ASSUME LockInv, NEW c \in CPUs, LoadExclusive(c)
  PROVE  LockInv'
<1>1. PICK from \in {"load", "tryload"}, to \in {"store", "trystore", "wait", "out"} :
        /\ Goto(c, from, to)
        /\ to \in {"store", "trystore"} => locked = 0
        /\ to = "wait" => locked = 1
  BY DEF LoadExclusive
<1>2. monitor' = monitor \cup {c} /\ UNCHANGED <<locked, owner, event>>
  BY DEF LoadExclusive, Armed
<1>3. from \in Places /\ to \in Places
  BY DEF Places
<1>4. /\ pc' \in [CPUs -> Places] /\ pc[c] = from /\ pc'[c] = to
      /\ \A d \in CPUs \ {c} : pc'[d] = pc[d]
  BY <1>1, <1>3, GotoMoves DEF LockInv, LockTypeOK
<1>5. LockTypeOK'
  BY <1>2, <1>4 DEF LockInv, LockTypeOK
<1>6. WordRight' /\ OneHolder'
  BY <1>1, <1>2, <1>4 DEF LockInv, LockTypeOK, WordRight, OneHolder, Holding
<1>7. NoLostWakeup' /\ OwnerIsInside'
  BY <1>1, <1>2, <1>4 DEF LockInv, LockTypeOK, NoLostWakeup, OwnerIsInside
<1> QED
  BY <1>5, <1>6, <1>7 DEF LockInv

\* stxr that succeeds: the word was 0, so nobody else holds the lock.
LEMMA StoreKeeps ==
  ASSUME LockInv, NEW c \in CPUs, StoreExclusive(c)
  PROVE  LockInv' /\ (\A d \in CPUs : ~Holding(d)) /\ Holding(c)'
<1>1. PICK from \in {"store", "trystore"} : Goto(c, from, "own")
  BY DEF StoreExclusive
<1>2. /\ c \in monitor /\ UNCHANGED owner
      /\ locked' = 1 /\ monitor' = {} /\ event' = event \cup (monitor \ {c})
  BY DEF StoreExclusive, StoreBy, MayStore
<1>3. from \in Places /\ "own" \in Places
  BY DEF Places
<1>4. /\ pc' \in [CPUs -> Places] /\ pc[c] = from /\ pc'[c] = "own"
      /\ \A d \in CPUs \ {c} : pc'[d] = pc[d]
  BY <1>1, <1>3, GotoMoves DEF LockInv, LockTypeOK
<1>5. locked = 0 /\ \A d \in CPUs : ~Holding(d)
  BY <1>2, <1>4 DEF LockInv, WordRight
<1>6. LockTypeOK'
  BY <1>2, <1>4 DEF LockInv, LockTypeOK
<1>7. WordRight' /\ OneHolder' /\ Holding(c)'
  BY <1>2, <1>4, <1>5 DEF WordRight, OneHolder, Holding
<1>8. NoLostWakeup' /\ OwnerIsInside'
  BY <1>2, <1>4, <1>5 DEF LockInv, LockTypeOK, NoLostWakeup, OwnerIsInside
<1> QED
  BY <1>5, <1>6, <1>7, <1>8 DEF LockInv

\* stxr that fails.
LEMMA StoreFailsKeeps ==
  ASSUME LockInv, NEW c \in CPUs, StoreFails(c)
  PROVE  LockInv'
<1>1. PICK from \in {"store", "trystore"}, to \in {"load", "out"} :
        Goto(c, from, to) /\ UNCHANGED <<locked, owner, monitor, event>>
  BY DEF StoreFails
<1>2. from \in Places /\ to \in Places
  BY DEF Places
<1>3. /\ pc' \in [CPUs -> Places] /\ pc[c] = from /\ pc'[c] = to
      /\ \A d \in CPUs \ {c} : pc'[d] = pc[d]
  BY <1>1, <1>2, GotoMoves DEF LockInv, LockTypeOK
<1>4. LockTypeOK'
  BY <1>1, <1>3 DEF LockInv, LockTypeOK
<1>5. WordRight' /\ OneHolder'
  BY <1>1, <1>3 DEF LockInv, LockTypeOK, WordRight, OneHolder, Holding
<1>6. NoLostWakeup' /\ OwnerIsInside'
  BY <1>1, <1>3 DEF LockInv, LockTypeOK, NoLostWakeup, OwnerIsInside
<1> QED
  BY <1>4, <1>5, <1>6 DEF LockInv

\* wfe with an event pending: the event is used up, and nobody else's.
LEMMA WaitKeeps ==
  ASSUME LockInv, NEW c \in CPUs, WaitForEvent(c)
  PROVE  LockInv'
<1>1. /\ Goto(c, "wait", "load") /\ event' = event \ {c}
      /\ UNCHANGED <<locked, owner, monitor>>
  BY DEF WaitForEvent
<1>2. "wait" \in Places /\ "load" \in Places
  BY DEF Places
<1>3. /\ pc' \in [CPUs -> Places] /\ pc[c] = "wait" /\ pc'[c] = "load"
      /\ \A d \in CPUs \ {c} : pc'[d] = pc[d]
  BY <1>1, <1>2, GotoMoves DEF LockInv, LockTypeOK
<1>4. LockTypeOK'
  BY <1>1, <1>3 DEF LockInv, LockTypeOK
<1>5. WordRight' /\ OneHolder'
  BY <1>1, <1>3 DEF LockInv, LockTypeOK, WordRight, OneHolder, Holding
<1>6. NoLostWakeup' /\ OwnerIsInside'
  BY <1>1, <1>3 DEF LockInv, LockTypeOK, NoLostWakeup, OwnerIsInside
<1> QED
  BY <1>4, <1>5, <1>6 DEF LockInv

\* lock->cpu is written: no other CPU is inside.
LEMMA SetOwnerKeeps ==
  ASSUME LockInv, NEW c \in CPUs, SetOwner(c)
  PROVE  LockInv'
<1>1. Goto(c, "own", "critical") /\ owner' = c /\ UNCHANGED <<locked, monitor, event>>
  BY DEF SetOwner
<1>2. "own" \in Places /\ "critical" \in Places
  BY DEF Places
<1>3. /\ pc' \in [CPUs -> Places] /\ pc[c] = "own" /\ pc'[c] = "critical"
      /\ \A d \in CPUs \ {c} : pc'[d] = pc[d]
  BY <1>1, <1>2, GotoMoves DEF LockInv, LockTypeOK
<1>4. LockTypeOK'
  BY <1>1, <1>3 DEF LockInv, LockTypeOK
<1>5. WordRight' /\ OneHolder'
  BY <1>1, <1>3 DEF LockInv, LockTypeOK, WordRight, OneHolder, Holding
<1>6. \A d \in CPUs : pc'[d] = "critical" => d = c
  BY <1>3 DEF LockInv, OneHolder, Holding
<1>7. NoLostWakeup' /\ OwnerIsInside'
  BY <1>1, <1>3, <1>6 DEF LockInv, LockTypeOK, NoLostWakeup, OwnerIsInside
<1> QED
  BY <1>4, <1>5, <1>7 DEF LockInv

\* lock->cpu is reset while the lock is still held.
LEMMA UnlockKeeps ==
  ASSUME LockInv, NEW c \in CPUs, SpinUnlock(c)
  PROVE  LockInv' /\ Holding(c) /\ Holding(c)'
<1>1. Goto(c, "critical", "release") /\ owner' = NoCpu /\ UNCHANGED <<locked, monitor, event>>
  BY DEF SpinUnlock, OwnerAtUnlock
<1>2. "critical" \in Places /\ "release" \in Places
  BY DEF Places
<1>3. /\ pc' \in [CPUs -> Places] /\ pc[c] = "critical" /\ pc'[c] = "release"
      /\ \A d \in CPUs \ {c} : pc'[d] = pc[d]
  BY <1>1, <1>2, GotoMoves DEF LockInv, LockTypeOK
<1>4. LockTypeOK'
  BY <1>1, <1>3 DEF LockInv, LockTypeOK
<1>5. WordRight' /\ OneHolder' /\ Holding(c) /\ Holding(c)'
  BY <1>1, <1>3 DEF LockInv, LockTypeOK, WordRight, OneHolder, Holding
<1>6. \A d \in CPUs : pc'[d] # "critical"
  BY <1>3 DEF LockInv, OneHolder, Holding
<1>7. NoLostWakeup' /\ OwnerIsInside'
  BY <1>1, <1>3, <1>6, CpusAssumption DEF LockInv, LockTypeOK, NoLostWakeup, OwnerIsInside
<1> QED
  BY <1>4, <1>5, <1>7 DEF LockInv

\* stlr: whoever waits without an event has its monitor set, and is woken.
LEMMA ReleaseKeeps ==
  ASSUME LockInv, NEW c \in CPUs, StoreRelease(c)
  PROVE  LockInv' /\ Holding(c) /\ (\A d \in CPUs : ~Holding(d)')
<1>1. PICK from \in {"release", "publish"}, to \in {"send", "out"} : Goto(c, from, to)
  BY DEF StoreRelease
<1>2. /\ UNCHANGED owner /\ locked' = 0
      /\ monitor' = {} /\ event' = event \cup (monitor \ {c})
  BY DEF StoreRelease, StoreBy
<1>3. from \in Places /\ to \in Places
  BY DEF Places
<1>4. /\ pc' \in [CPUs -> Places] /\ pc[c] = from /\ pc'[c] = to
      /\ \A d \in CPUs \ {c} : pc'[d] = pc[d]
  BY <1>1, <1>3, GotoMoves DEF LockInv, LockTypeOK
<1>5. Holding(c) /\ \A d \in CPUs : ~Holding(d)'
  BY <1>4 DEF LockInv, OneHolder, Holding
<1>6. LockTypeOK'
  BY <1>2, <1>4 DEF LockInv, LockTypeOK
<1>7. WordRight' /\ OneHolder'
  BY <1>2, <1>5 DEF WordRight, OneHolder
<1>8. NoLostWakeup' /\ OwnerIsInside'
  BY <1>2, <1>4 DEF LockInv, LockTypeOK, NoLostWakeup, OwnerIsInside
<1> QED
  BY <1>5, <1>6, <1>7, <1>8 DEF LockInv

\* sev, before or after the store.
LEMMA SendKeeps ==
  ASSUME LockInv, NEW c \in CPUs, SendEvent(c)
  PROVE  LockInv' /\ (Holding(c)' <=> Holding(c))
<1>1. PICK from \in {"release", "send"}, to \in {"publish", "out"} :
        Goto(c, from, to) /\ (from = "release" <=> to = "publish")
  BY DEF SendEvent
<1>2. event' = CPUs /\ UNCHANGED <<locked, owner, monitor>>
  BY DEF SendEvent
<1>3. from \in Places /\ to \in Places
  BY DEF Places
<1>4. /\ pc' \in [CPUs -> Places] /\ pc[c] = from /\ pc'[c] = to
      /\ \A d \in CPUs \ {c} : pc'[d] = pc[d]
  BY <1>1, <1>3, GotoMoves DEF LockInv, LockTypeOK
<1>5. LockTypeOK'
  BY <1>2, <1>4 DEF LockInv, LockTypeOK
<1>6. WordRight' /\ OneHolder' /\ (Holding(c)' <=> Holding(c))
  BY <1>1, <1>2, <1>4 DEF LockInv, LockTypeOK, WordRight, OneHolder, Holding
<1>7. NoLostWakeup' /\ OwnerIsInside'
  BY <1>2, <1>4 DEF LockInv, LockTypeOK, NoLostWakeup, OwnerIsInside
<1> QED
  BY <1>5, <1>6, <1>7 DEF LockInv

\* An interrupt takes a monitor away and leaves an event.
LEMMA InterruptKeeps ==
  ASSUME LockInv, NEW c \in CPUs, Interrupt(c)
  PROVE  LockInv'
  BY DEF LockInv, LockTypeOK, WordRight, OneHolder, NoLostWakeup, OwnerIsInside,
     Holding, Interrupt

\* Every step of the spinlock preserves its invariant.
LEMMA StepKeeps == LockInv /\ [LockNext]_lockVars => LockInv'
<1> SUFFICES ASSUME LockInv, [LockNext]_lockVars PROVE LockInv'
  OBVIOUS
<1>1. CASE UNCHANGED lockVars
  BY <1>1 DEF LockInv, LockTypeOK, WordRight, OneHolder, NoLostWakeup, OwnerIsInside,
     Holding, lockVars
<1>2. CASE LockNext
  <2>1. PICK c \in CPUs : \/ SpinLock(c) \/ SpinTryLock(c) \/ LockStep(c)
                          \/ SpinUnlock(c) \/ Interrupt(c)
    BY <1>2 DEF LockNext
  <2>2. CASE SpinLock(c) \/ SpinTryLock(c)
    BY <2>2, CallKeeps
  <2>3. CASE LockStep(c)
    BY <2>3, LoadKeeps, StoreKeeps, StoreFailsKeeps, WaitKeeps, SetOwnerKeeps,
       ReleaseKeeps, SendKeeps DEF LockStep
  <2>4. CASE SpinUnlock(c)
    BY <2>4, UnlockKeeps
  <2>5. CASE Interrupt(c)
    BY <2>5, InterruptKeeps
  <2> QED
    BY <2>1, <2>2, <2>3, <2>4, <2>5
<1> QED
  BY <1>1, <1>2

\* Every state of the lock satisfies the inductive invariant.
THEOREM LockInvariance == LockSpec => []LockInv
<1>1. LockInit => LockInv
  BY InitRight
<1>2. LockInv /\ [LockNext]_lockVars => LockInv'
  BY StepKeeps
<1> QED
  BY <1>1, <1>2, PTL DEF LockSpec

\* No CPU sleeps for an event that has been and gone (spin_lock's wfe against
\* spin_unlock's stlr and sev), however many CPUs there are.
THEOREM NoLostWakeupCorrect == LockSpec => []NoLostWakeup
<1>1. LockInv => NoLostWakeup
  BY DEF LockInv
<1> QED
  BY <1>1, LockInvariance, PTL

\* lock->cpu names the CPU inside the critical section and no other.
THEOREM OwnerIsInsideCorrect == LockSpec => []OwnerIsInside
<1>1. LockInv => OwnerIsInside
  BY DEF LockInv
<1> QED
  BY <1>1, LockInvariance, PTL

-----------------------------------------------------------------------------
(* The lock implements Mutex: its store-exclusive acquires, its stlr        *)
(* releases, and everything else leaves the holder.                         *)

LockHeld == {c \in CPUs : Holding(c)}

\* A step of one CPU does not change whether another holds the lock.
LEMMA OthersStay ==
  ASSUME LockInv, NEW c \in CPUs,
         \/ SpinLock(c) \/ SpinTryLock(c) \/ LockStep(c) \/ SpinUnlock(c) \/ Interrupt(c)
  PROVE  \A d \in CPUs \ {c} : Holding(d)' <=> Holding(d)
<1>1. UNCHANGED pc \/ \E to \in Places : pc' = [pc EXCEPT ![c] = to]
  BY DEF SpinLock, SpinTryLock, LockStep, SpinUnlock, Interrupt, LoadExclusive, StoreExclusive,
     StoreFails, WaitForEvent, SetOwner, StoreRelease, SendEvent, Goto, Places
<1> QED
  BY <1>1 DEF Holding, LockInv, LockTypeOK

\* The holder does not change in the other steps.
LEMMA HolderStays ==
  ASSUME LockInv, NEW c \in CPUs,
         \/ SpinLock(c) \/ SpinTryLock(c) \/ LoadExclusive(c) \/ StoreFails(c) \/ WaitForEvent(c)
         \/ SetOwner(c) \/ SpinUnlock(c) \/ SendEvent(c) \/ Interrupt(c)
  PROVE  LockHeld' = LockHeld
<1>1. \A d \in CPUs \ {c} : Holding(d)' <=> Holding(d)
  BY OthersStay DEF LockStep
<1>2. Holding(c)' <=> Holding(c)
  <2>1. CASE SendEvent(c)
    BY <2>1, SendKeeps
  <2>2. CASE SpinUnlock(c)
    BY <2>2, UnlockKeeps
  <2>3. CASE Interrupt(c)
    BY <2>3 DEF Interrupt, Holding
  <2>4. CASE \/ SpinLock(c) \/ SpinTryLock(c) \/ LoadExclusive(c) \/ StoreFails(c)
             \/ WaitForEvent(c) \/ SetOwner(c)
    <3>1. PICK from \in Places, to \in Places :
            /\ Goto(c, from, to)
            /\ \/ from = "own" /\ to = "critical"
               \/ /\ from \notin {"own", "critical", "release", "publish"}
                  /\ to \notin {"own", "critical", "release", "publish"}
      BY <2>4 DEF SpinLock, SpinTryLock, LoadExclusive, StoreFails, WaitForEvent, SetOwner, Places
    <3>2. pc[c] = from /\ pc'[c] = to
      BY <3>1, GotoMoves DEF LockInv, LockTypeOK
    <3> QED
      BY <3>1, <3>2 DEF Holding
  <2> QED
    BY <2>1, <2>2, <2>3, <2>4
<1> QED
  BY <1>1, <1>2 DEF LockHeld

\* Every step of the spinlock is a step of the abstract lock, or none.
LEMMA StepImplements ==
  ASSUME LockInv, [LockNext]_lockVars
  PROVE  [Lock!Next]_LockHeld
<1>1. CASE UNCHANGED lockVars
  BY <1>1 DEF LockHeld, Holding, lockVars
<1>2. ASSUME NEW c \in CPUs, StoreExclusive(c) PROVE Lock!Acquire(c)
  <2>1. (\A d \in CPUs : ~Holding(d)) /\ Holding(c)'
    BY <1>2, StoreKeeps
  <2>2. \A d \in CPUs \ {c} : ~Holding(d)'
    BY <1>2, <2>1, OthersStay DEF LockStep
  <2>3. LockHeld = {} /\ LockHeld' = {c}
    BY <2>1, <2>2 DEF LockHeld
  <2> QED
    BY <2>3 DEF Lock!Acquire, LockHeld
<1>3. ASSUME NEW c \in CPUs, StoreRelease(c) PROVE Lock!Release(c)
  <2>1. Holding(c) /\ \A d \in CPUs : ~Holding(d)'
    BY <1>3, ReleaseKeeps
  <2>2. LockHeld = {c} /\ LockHeld' = {}
    BY <2>1 DEF LockHeld, LockInv, OneHolder
  <2> QED
    BY <2>2 DEF Lock!Release, LockHeld
<1>4. CASE LockNext
  <2>1. PICK c \in CPUs : \/ SpinLock(c) \/ SpinTryLock(c) \/ LockStep(c)
                          \/ SpinUnlock(c) \/ Interrupt(c)
    BY <1>4 DEF LockNext
  <2>2. \/ StoreExclusive(c) \/ StoreRelease(c)
        \/ SpinLock(c) \/ SpinTryLock(c) \/ LoadExclusive(c) \/ StoreFails(c) \/ WaitForEvent(c)
        \/ SetOwner(c) \/ SpinUnlock(c) \/ SendEvent(c) \/ Interrupt(c)
    BY <2>1 DEF LockStep
  <2>3. CASE StoreExclusive(c)
    BY <2>3, <1>2 DEF Lock!Next
  <2>4. CASE StoreRelease(c)
    BY <2>4, <1>3 DEF Lock!Next
  <2> QED
    BY <2>2, <2>3, <2>4, HolderStays
<1> QED
  BY <1>1, <1>4

\* Mutual exclusion as a refinement: the instruction loops of spin_lock,
\* spin_trylock and spin_unlock implement the atomic lock, for any number of CPUs
\* and with interrupts anywhere.
THEOREM ImplementsLockCorrect == LockSpec => ImplementsLock
<1>1. LockInit => Lock!Init
  BY DEF LockInit, Lock!Init, Holding
<1>2. LockInv /\ [LockNext]_lockVars => [Lock!Next]_{c \in CPUs : Holding(c)}
  BY StepImplements DEF LockHeld
<1> QED
  BY <1>1, <1>2, LockInvariance, PTL DEF LockSpec, ImplementsLock, Lock!Spec

-----------------------------------------------------------------------------
(* The buffers.                                                            *)

(* What a step needs to know besides the properties: callers refer to       *)
(* handles that were created, a call under way is still entitled to what it *)
(* was begun with, and no handle is linked twice.                           *)
Known == \A c \in CPUs : has[c] \subseteq 1 .. created /\ seen[c] \in 0 .. created

Entitled ==
    \A c \in CPUs :
        /\ call[c].op \in {"get", "ref", "unref", "free"} => call[c].h \in 1 .. created
        /\ call[c].op = "ref" => call[c].h \notin has[c]
        /\ call[c].op = "unref" => call[c].h \in has[c]

ListRight ==
    /\ Linked \subseteq 1 .. created
    /\ \A i, j \in 1 .. Len(list) : list[i] = list[j] => i = j

BufInv ==
    /\ BufTypes /\ Known /\ Entitled /\ ListRight
    /\ RefsCounted /\ LinkedWhileReferenced /\ PagesOwned

\* The handles given out so far are handles.
LEMMA CreatedAreHandles == BufTypes => 1 .. created \subseteq Handles
  BY DmaAssumption DEF BufTypes, Handles

\* The buffers start in their invariant.
LEMMA InitBuf == Init => BufInv
<1> SUFFICES ASSUME Init PROVE BufInv
  OBVIOUS
<1>1. BufTypes /\ Known /\ Entitled
  <2>1. \A c \in CPUs : call[c] = Idle /\ call[c].op = "none"
    BY DEF Init, Idle
  <2>2. call \in [CPUs -> Calls]
    BY <2>1 DEF Init, Calls
  <2>3. list \in Seq(Handles) /\ 0 \in 0 .. RefLimit - 1
    BY DmaAssumption DEF Init
  <2>4. BufTypes
    <3>1. created \in 0 .. MaxBufs
      BY DmaAssumption DEF Init
    <3>2. late \in BOOLEAN
      BY DEF Init
    <3> QED
      BY <2>2, <2>3, <3>1, <3>2 DEF Init, BufTypes
  <2>5. Known /\ Entitled
    BY <2>1 DEF Init, Known, Entitled, NULL
  <2> QED
    BY <2>4, <2>5
<1>2. Linked = {} /\ ListRight
  BY DEF Init, Linked, ListRight
<1>3. RefsCounted
  BY FS_EmptySet DEF Init, RefsCounted
<1>4. LinkedWhileReferenced
  BY <1>2 DEF Init, LinkedWhileReferenced, Freeing, Idle
<1>5. PagesOwned
  BY <1>2, DmaAssumption DEF Init, MMInit, PagesOwned
<1> QED
  BY <1>1, <1>2, <1>3, <1>4, <1>5 DEF BufInv

(* A step that leaves handles and references alone, and begins or ends no    *)
(* dmabuf_free.                                                              *)
LEMMA QuietKeeps ==
  ASSUME BufInv, UNCHANGED <<bufVars, has, late>>, held'[Dma] = held[Dma],
         seen' \in [CPUs -> 0 .. created], call' \in [CPUs -> Calls], Entitled',
         \A c \in CPUs : call'[c].op = "free" \/ call[c].op = "free" => call'[c] = call[c]
  PROVE  BufInv'
<1>1. BufTypes' /\ Known'
  <2>1. 0 .. created \subseteq Handles \cup {NULL}
    BY CreatedAreHandles DEF BufInv, BufTypes, NULL
  <2> QED
    BY <2>1 DEF BufInv, BufTypes, Known, bufVars, Handles
<1>2. Linked' = Linked /\ ListRight'
  BY DEF BufInv, ListRight, Linked, bufVars
<1>3. RefsCounted'
  BY DEF BufInv, RefsCounted, bufVars
<1>4. \A h \in Handles : Freeing(h)' = Freeing(h)
  BY DEF Freeing
<1>5. LinkedWhileReferenced'
  BY <1>2, <1>4 DEF BufInv, LinkedWhileReferenced, bufVars
<1>6. PagesOwned'
  BY <1>2 DEF BufInv, PagesOwned, bufVars
<1> QED
  BY <1>1, <1>2, <1>3, <1>5, <1>6 DEF BufInv

(* Every step is one of the lock's, or leaves it alone.                      *)
LEMMA LockUse == [Next]_vars => [LockNext]_lockVars
<1> SUFFICES ASSUME Next PROVE LockNext \/ UNCHANGED lockVars
  BY DEF vars, lockVars
<1>1. CASE OtherPages
  BY <1>1 DEF OtherPages
<1>2. ASSUME NEW c \in CPUs,
             \/ Begin(c) \/ BeginFree(c)
             \/ AllocHandle(c) \/ AllocHandleFails(c) \/ Create(c) \/ CreateFails(c)
             \/ Get(c) \/ Ref(c) \/ Unref(c) \/ Free(c) \/ LockWork(c)
      PROVE  LockNext \/ UNCHANGED lockVars
  <2>1. CASE AllocHandle(c)
    BY <2>1 DEF AllocHandle
  <2>2. CASE LockWork(c)
    BY <2>2 DEF LockWork, LockNext
  <2>3. CASE Begin(c) \/ BeginFree(c)
    BY <2>3 DEF Begin, BeginFree, LockNext
  <2>4. CASE \/ AllocHandleFails(c) \/ Create(c) \/ CreateFails(c)
             \/ Get(c) \/ Ref(c) \/ Unref(c) \/ Free(c)
    BY <2>4 DEF AllocHandleFails, Create, CreateFails, Get, Ref, Unref, Free, Inside, LockNext
  <2> QED
    BY <1>2, <2>1, <2>2, <2>3, <2>4
<1> QED
  BY <1>1, <1>2 DEF Next

(* dmabuf_free gives back the page of a buffer that is linked.               *)
LEMMA FreesOwnPage ==
  ASSUME BufInv, NEW c \in CPUs, Free(c)
  PROVE  /\ ~late /\ call[c] = [op |-> "free", h |-> call[c].h]
         /\ call[c].h \in Linked /\ refs[call[c].h] = 0 /\ Freeing(call[c].h) = {c}
         /\ page[call[c].h] \in held[Dma]
<1> DEFINE h == call[c].h
<1>1. ~late /\ call[c].op = "free"
  BY DEF Free, Inside, Followed
<1>2. h \in 1 .. created /\ h \in Handles
  BY <1>1, CreatedAreHandles DEF BufInv, Entitled
<1>3. call[c] = [op |-> "free", h |-> h]
  BY <1>1 DEF BufInv, BufTypes, Calls, Idle
<1>4. c \in Freeing(h)
  BY <1>3 DEF Freeing
<1>5. h \in Linked /\ refs[h] = 0
  BY <1>1, <1>2, <1>4 DEF BufInv, BufTypes, LinkedWhileReferenced
<1>6. Freeing(h) = {c}
  BY <1>1, <1>2, <1>4, <1>5 DEF BufInv, LinkedWhileReferenced
<1>7. page[h] \in held[Dma]
  BY <1>1, <1>5 DEF BufInv, PagesOwned
<1> QED
  BY <1>1, <1>3, <1>5, <1>6, <1>7

(* Every step is one of the page allocator's, or leaves it alone.            *)
LEMMA AllocatorUse == BufInv /\ MMInv /\ [Next]_vars => [MMNext]_mmVars
<1> SUFFICES ASSUME BufInv, MMInv, Next PROVE MMNext \/ UNCHANGED mmVars
  BY DEF vars, mmVars
<1>1. CASE OtherPages
  BY <1>1, DmaAssumption DEF OtherPages, MMNext
<1>2. ASSUME NEW c \in CPUs,
             \/ Begin(c) \/ BeginFree(c)
             \/ AllocHandle(c) \/ AllocHandleFails(c) \/ Create(c) \/ CreateFails(c)
             \/ Get(c) \/ Ref(c) \/ Unref(c) \/ Free(c) \/ LockWork(c)
      PROVE  MMNext \/ UNCHANGED mmVars
  <2>1. CASE AllocHandle(c)
    <3>1. Kmalloc(HandleWords) /\ heapPtr + HandleWords <= HeapWords
      BY <2>1 DEF AllocHandle, Kmalloc
    <3>2. heapPtr \in Nat /\ HeapWords \in Nat /\ HandleWords \in Nat \ {0}
      BY DmaAssumption, PagesAssumption DEF MMInv, MMTypeOK, HeapWords
    <3>3. HandleWords \in 1 .. HeapWords
      BY <3>1, <3>2
    <3> QED
      BY <3>1, <3>3 DEF MMNext
  <2>2. CASE Create(c)
    BY <2>2, DmaAssumption DEF Create, MMNext
  <2>3. CASE Free(c)
    <3>1. PageFree(Dma)
      BY <2>3, FreesOwnPage DEF Free, PageFree
    <3> QED
      BY <3>1, DmaAssumption DEF MMNext
  <2>4. CASE \/ Begin(c) \/ BeginFree(c) \/ AllocHandleFails(c) \/ CreateFails(c)
             \/ Get(c) \/ Ref(c) \/ Unref(c) \/ LockWork(c)
    BY <2>4 DEF Begin, BeginFree, AllocHandleFails, CreateFails, Get, Ref, Unref, LockWork
  <2> QED
    BY <1>2, <2>1, <2>2, <2>3, <2>4
<1> QED
  BY <1>1, <1>2 DEF Next

\* The start of a call on a buffer preserves the invariant.
LEMMA BeginKeeps ==
  ASSUME BufInv, NEW c \in CPUs, Begin(c)
  PROVE  BufInv'
<1>1. PICK r \in Askable(c) : call[c] = Idle /\ call' = [call EXCEPT ![c] = r]
  BY DEF Begin
<1>2. UNCHANGED <<bufVars, has, seen, held, late>>
  BY DEF Begin, userVars, mmVars
<1>3. call \in [CPUs -> Calls] /\ seen \in [CPUs -> 0 .. created]
  BY DEF BufInv, BufTypes, Known
<1>4. /\ r \in Calls
      /\ r.op \in {"create", "get", "ref", "unref"}
      /\ r.op \in {"get", "ref", "unref"} => r.h \in 1 .. created
      /\ r.op = "ref" => r.h \notin has[c]
      /\ r.op = "unref" => r.h \in has[c]
  <2>1. 1 .. created \subseteq Handles
    BY CreatedAreHandles DEF BufInv
  <2>2. has[c] \subseteq 1 .. created /\ seen[c] \in 0 .. created
    BY DEF BufInv, Known
  <2>3. CASE r \in [op : {"create"}, h : {NULL}]
    BY <2>3 DEF Calls
  <2>4. CASE r \in [op : {"get"}, h : 1 .. created]
    BY <2>4, <2>1 DEF Calls
  <2>5. CASE r \in [op : {"ref"}, h : {seen[c]} \ ({NULL} \cup has[c])]
    <3>1. r.op = "ref" /\ r.h = seen[c] /\ seen[c] # NULL /\ seen[c] \notin has[c]
      BY <2>5
    <3>2. seen[c] \in 1 .. created
      BY <2>2, <3>1 DEF BufInv, BufTypes, NULL
    <3>3. r \in [op : {"ref"}, h : Handles]
      BY <2>5, <2>1, <3>1, <3>2
    <3> QED
      BY <3>1, <3>2, <3>3 DEF Calls
  <2>6. CASE r \in [op : {"unref"}, h : has[c]]
    BY <2>6, <2>1, <2>2 DEF Calls
  <2> QED
    BY <2>3, <2>4, <2>5, <2>6 DEF Askable
<1>5. call' \in [CPUs -> Calls]
  BY <1>1, <1>3, <1>4
<1>6. Entitled'
  BY <1>1, <1>2, <1>3, <1>4 DEF BufInv, Entitled, bufVars
<1>7. \A d \in CPUs : call'[d].op = "free" \/ call[d].op = "free" => call'[d] = call[d]
  BY <1>1, <1>3, <1>4 DEF Idle
<1> QED
  BY <1>2, <1>3, <1>5, <1>6, <1>7, QuietKeeps

(* The calls that end or go on without having changed a handle.              *)
LEMMA ReturnKeeps ==
  ASSUME BufInv, NEW c \in CPUs,
         AllocHandle(c) \/ AllocHandleFails(c) \/ CreateFails(c) \/ Get(c)
  PROVE  BufInv'
<1>1. PICK r \in {Idle, [op |-> "page", h |-> NULL]} : call' = [call EXCEPT ![c] = r]
  BY DEF AllocHandle, AllocHandleFails, CreateFails, Get, Returns
<1>2. UNCHANGED <<bufVars, has, held, late>> /\ call[c].op \in {"create", "page", "get"}
  BY DEF AllocHandle, AllocHandleFails, CreateFails, Get, Inside, Kmalloc, userVars, mmVars
<1>3. call \in [CPUs -> Calls] /\ seen \in [CPUs -> 0 .. created]
  BY DEF BufInv, BufTypes, Known
<1>4. r \in Calls /\ r.op \in {"none", "page"}
  BY DEF Calls, Idle
<1>5. call' \in [CPUs -> Calls]
  BY <1>1, <1>3, <1>4
<1>6. Entitled'
  BY <1>1, <1>2, <1>3, <1>4 DEF BufInv, Entitled, bufVars
<1>7. seen' \in [CPUs -> 0 .. created]
  <2>1. CASE Get(c)
    <3>1. call[c].h \in 1 .. created
      BY <2>1 DEF Get, Inside, BufInv, Entitled
    <3>2. created \in Nat /\ NULL \in 0 .. created
      BY DmaAssumption DEF BufInv, BufTypes, NULL
    <3> QED
      BY <1>3, <2>1, <3>1, <3>2 DEF Get
  <2>2. CASE AllocHandle(c) \/ AllocHandleFails(c) \/ CreateFails(c)
    BY <1>3, <2>2 DEF AllocHandle, AllocHandleFails, CreateFails, userVars
  <2> QED
    BY <2>1, <2>2
<1>8. \A d \in CPUs : call'[d].op = "free" \/ call[d].op = "free" => call'[d] = call[d]
  BY <1>1, <1>2, <1>3, <1>4
<1> QED
  BY <1>2, <1>5, <1>6, <1>7, <1>8, QuietKeeps

(* The lock's own work, a second locked part begun, others' pages.           *)
LEMMA ElsewhereKeeps ==
  ASSUME BufInv, MMInv, OtherPages \/ \E c \in CPUs : BeginFree(c) \/ LockWork(c)
  PROVE  BufInv'
<1>1. UNCHANGED <<bufVars, has, seen, call, late>>
  BY DEF OtherPages, BeginFree, LockWork, userVars
<1>2. held'[Dma] = held[Dma]
  <2>1. CASE OtherPages
    BY <2>1, DmaAssumption DEF OtherPages, PageAlloc, PageFree, MMInv, MMTypeOK
  <2>2. CASE \E c \in CPUs : BeginFree(c) \/ LockWork(c)
    BY <2>2 DEF BeginFree, LockWork, mmVars
  <2> QED
    BY <2>1, <2>2
<1>3. /\ seen' \in [CPUs -> 0 .. created] /\ call' \in [CPUs -> Calls]
      /\ \A d \in CPUs : call'[d] = call[d]
  BY <1>1 DEF BufInv, BufTypes, Known
<1>4. Entitled'
  BY <1>1 DEF BufInv, Entitled, bufVars
<1> QED
  BY <1>1, <1>2, <1>3, <1>4, QuietKeeps

(* The count is below the limit, so it does not wrap.                        *)
LEMMA CountBounded ==
  ASSUME RefsCounted, NEW h \in Handles
  PROVE  LET holders == {c \in CPUs : h \in has[c]}
         IN  /\ IsFiniteSet(holders) /\ refs[h] = Cardinality(holders)
             /\ refs[h] \in 0 .. Cardinality(CPUs)
<1> DEFINE holders == {c \in CPUs : h \in has[c]}
<1>1. IsFiniteSet(CPUs) /\ holders \subseteq CPUs
  BY DmaAssumption
<1>2. IsFiniteSet(holders) /\ Cardinality(holders) <= Cardinality(CPUs)
  BY <1>1, FS_Subset
<1>3. Cardinality(holders) \in Nat /\ Cardinality(CPUs) \in Nat
  BY <1>1, <1>2, FS_CardinalityType
<1>4. refs[h] = Cardinality(holders)
  BY DEF RefsCounted
<1> QED
  BY <1>2, <1>3, <1>4

\* dmabuf_ref preserves the invariant.
LEMMA RefKeeps ==
  ASSUME BufInv, NEW c \in CPUs, Ref(c)
  PROVE  BufInv'
<1> DEFINE h == call[c].h
<1>1. /\ ~late /\ call[c].op = "ref" /\ call' = [call EXCEPT ![c] = Idle]
      /\ has' = [has EXCEPT ![c] = @ \cup {h}]
      /\ refs' = [refs EXCEPT ![h] = (@ + 1) % RefLimit]
      /\ late' = (refs[h] = 0)
      /\ UNCHANGED <<list, created, page, seen, held>>
  BY DEF Ref, Inside, Followed, Returns, Counted, mmVars
<1>2. h \in 1 .. created /\ h \in Handles /\ h \notin has[c]
  BY <1>1, CreatedAreHandles DEF BufInv, Entitled
<1>3. /\ call \in [CPUs -> Calls] /\ has \in [CPUs -> SUBSET Handles]
      /\ refs \in [Handles -> 0 .. RefLimit - 1]
  BY DEF BufInv, BufTypes
<1>4. refs[h] \in 0 .. Cardinality(CPUs) /\ Cardinality(CPUs) < RefLimit /\ RefLimit \in Nat \ {0}
  BY <1>2, CountBounded, DmaAssumption DEF BufInv
<1>5. Cardinality({d \in CPUs : h \in has'[d]}) = refs[h] + 1
  <2>1. {d \in CPUs : h \in has'[d]} = {d \in CPUs : h \in has[d]} \cup {c}
    BY <1>1, <1>3
  <2>2. c \notin {d \in CPUs : h \in has[d]}
    BY <1>2
  <2> QED
    <3>1. /\ IsFiniteSet({d \in CPUs : h \in has[d]})
          /\ refs[h] = Cardinality({d \in CPUs : h \in has[d]})
      BY <1>2, CountBounded DEF BufInv
    <3> HIDE DEF h
    <3>2. Cardinality({d \in CPUs : h \in has[d]} \cup {c}) = Cardinality({d \in CPUs : h \in has[d]}) + 1
      BY Zenon, <2>2, <3>1, FS_AddElement
    <3> QED BY Zenon, <2>1, <3>1, <3>2
<1>6. refs[h] + 1 < RefLimit
  <2>1. {d \in CPUs : h \in has'[d]} \subseteq CPUs /\ IsFiniteSet(CPUs)
    BY DmaAssumption
  <2>2. Cardinality({d \in CPUs : h \in has'[d]}) <= Cardinality(CPUs)
    BY <2>1, FS_Subset
  <2>3. Cardinality(CPUs) \in Nat
    BY <2>1, FS_CardinalityType
  <2> QED
    BY <1>4, <1>5, <2>2, <2>3
<1>7. refs' = [refs EXCEPT ![h] = refs[h] + 1]
  <2>1. (refs[h] + 1) % RefLimit = refs[h] + 1
    BY <1>3, <1>4, <1>6
  <2> QED
    BY <1>1, <2>1
<1>8. RefsCounted'
  <2> SUFFICES ASSUME NEW g \in Handles
               PROVE  refs'[g] = Cardinality({d \in CPUs : g \in has'[d]})
    BY DEF RefsCounted
  <2>1. CASE g = h
    BY <2>1, <1>2, <1>3, <1>5, <1>7
  <2>2. CASE g # h
    <3>1. {d \in CPUs : g \in has'[d]} = {d \in CPUs : g \in has[d]}
      BY <2>2, <1>1, <1>3
    <3> QED
      BY <3>1, <2>2, <1>3, <1>7 DEF BufInv, RefsCounted
  <2> QED
    BY <2>1, <2>2
<1>9. BufTypes'
  <2>1. call' \in [CPUs -> Calls] /\ has' \in [CPUs -> SUBSET Handles]
    BY <1>1, <1>2, <1>3 DEF Calls
  <2>2. refs' \in [Handles -> 0 .. RefLimit - 1]
    <3>1. refs[h] + 1 \in 0 .. RefLimit - 1
      BY <1>2, <1>3, <1>4, <1>6
    <3> QED
      BY <3>1, <1>3, <1>7
  <2>3. late' \in BOOLEAN
    BY <1>1
  <2> QED
    BY <1>1, <2>1, <2>2, <2>3 DEF BufInv, BufTypes
<1>10. Known'
  BY <1>1, <1>2, <1>3 DEF BufInv, Known
<1>11. Entitled'
  BY <1>1, <1>3 DEF BufInv, Entitled, Idle
<1>12. Linked' = Linked /\ ListRight'
  BY <1>1 DEF BufInv, ListRight, Linked
<1>13. \A g \in Handles : Freeing(g)' = Freeing(g)
  BY <1>1, <1>3 DEF Freeing, Idle
<1>14. LinkedWhileReferenced'
  <2>1. CASE refs[h] = 0
    BY <2>1, <1>1 DEF LinkedWhileReferenced
  <2>2. CASE refs[h] # 0
    <3>1. refs[h] > 0
      BY <2>2, <1>4
    <3>2. h \in Linked /\ Freeing(h) = {}
      BY <3>1, <1>1, <1>2 DEF BufInv, BufTypes, LinkedWhileReferenced
    <3>3. refs'[h] > 0
      BY <3>1, <1>2, <1>3, <1>4, <1>7
    <3>4. \A g \in Handles \ {h} : refs'[g] = refs[g]
      BY <1>3, <1>7
    <3> QED
      BY <3>2, <3>3, <3>4, <1>1, <1>12, <1>13 DEF BufInv, LinkedWhileReferenced
  <2> QED
    BY <2>1, <2>2
<1>15. PagesOwned'
  BY <1>1, <1>12 DEF BufInv, PagesOwned
<1> QED
  BY <1>8, <1>9, <1>10, <1>11, <1>12, <1>14, <1>15 DEF BufInv

\* dmabuf_unref preserves the invariant.
LEMMA BufUnrefKeeps ==
  ASSUME BufInv, NEW c \in CPUs, Unref(c)
  PROVE  BufInv'
<1>0. PICK h : h = call[c].h
  OBVIOUS
<1> DEFINE r == IF ShouldFree(h) THEN [op |-> "free", h |-> h] ELSE Idle
<1>1. /\ ~late /\ call[c].op = "unref" /\ call' = [call EXCEPT ![c] = r]
      /\ has' = [has EXCEPT ![c] = @ \ {h}]
      /\ refs' = [refs EXCEPT ![h] = (@ - 1) % RefLimit]
      /\ UNCHANGED <<list, created, page, seen, held, late>>
  BY <1>0 DEF Unref, Inside, Followed, mmVars
<1>2. h \in 1 .. created /\ h \in Handles /\ h \in has[c]
  BY <1>0, <1>1, CreatedAreHandles DEF BufInv, Entitled
<1>3. /\ call \in [CPUs -> Calls] /\ has \in [CPUs -> SUBSET Handles]
      /\ refs \in [Handles -> 0 .. RefLimit - 1] /\ RefLimit \in Nat \ {0}
  BY DmaAssumption DEF BufInv, BufTypes
<1>4. refs[h] > 0 /\ Cardinality({d \in CPUs : h \in has'[d]}) = refs[h] - 1
  <2> DEFINE holders == {d \in CPUs : h \in has[d]}
  <2>1. {d \in CPUs : h \in has'[d]} = holders \ {c}
    BY <1>1, <1>3
  <2>2. c \in holders /\ IsFiniteSet(holders) /\ refs[h] = Cardinality(holders)
    BY <1>2, CountBounded DEF BufInv
  <2>3. Cardinality(holders \ {c}) = Cardinality(holders) - 1
    BY <2>2, FS_RemoveElement
  <2>4. Cardinality(holders \ {c}) \in Nat
    BY <2>2, FS_RemoveElement, FS_CardinalityType
  <2>5. refs[h] \in Int /\ refs[h] - 1 \in Nat
    BY <1>2, <1>3, <2>2, <2>3, <2>4
  <2>6. refs[h] > 0
    BY <2>5
  <2> QED
    BY <2>1, <2>2, <2>3, <2>6
<1>5. /\ refs[h] - 1 \in 0 .. RefLimit - 1
      /\ refs' = [refs EXCEPT ![h] = refs[h] - 1]
      /\ ShouldFree(h) <=> refs[h] = 1
  <2>1. refs[h] - 1 \in 0 .. RefLimit - 1
    BY <1>2, <1>3, <1>4
  <2>2. (refs[h] - 1) % RefLimit = refs[h] - 1
    BY <1>3, <2>1
  <2>3. refs[h] - 1 = 0 <=> refs[h] = 1
    BY <1>2, <1>3
  <2> QED
    BY <1>1, <2>1, <2>2, <2>3 DEF ShouldFree
<1>6. r \in Calls /\ r.op \in {"none", "free"} /\ (r.op = "free" => r.h = h)
      /\ (r = [op |-> "free", h |-> h] <=> refs[h] = 1)
      /\ \A g \in Handles \ {h} : r # [op |-> "free", h |-> g]
  BY <1>2, <1>5 DEF Calls, Idle
<1>7. RefsCounted'
  <2> SUFFICES ASSUME NEW g \in Handles
               PROVE  refs'[g] = Cardinality({d \in CPUs : g \in has'[d]})
    BY DEF RefsCounted
  <2>1. CASE g = h
    BY <2>1, <1>2, <1>3, <1>4, <1>5
  <2>2. CASE g # h
    <3>1. {d \in CPUs : g \in has'[d]} = {d \in CPUs : g \in has[d]}
      BY <2>2, <1>1, <1>3
    <3> QED
      BY <3>1, <2>2, <1>3, <1>5 DEF BufInv, RefsCounted
  <2> QED
    BY <2>1, <2>2
<1>8. BufTypes'
  <2>1. call' \in [CPUs -> Calls]
    BY <1>1, <1>3, <1>6
  <2>2. has' \in [CPUs -> SUBSET Handles] /\ refs' \in [Handles -> 0 .. RefLimit - 1]
    BY <1>1, <1>3, <1>5
  <2> QED
    BY <1>1, <2>1, <2>2 DEF BufInv, BufTypes
<1>9. Known'
  BY <1>1, <1>3 DEF BufInv, Known
<1>10. Entitled'
  BY <1>1, <1>2, <1>3, <1>6 DEF BufInv, Entitled
<1>11. Linked' = Linked /\ ListRight'
  BY <1>1 DEF BufInv, ListRight, Linked
<1>12. h \in Linked /\ Freeing(h) = {}
  BY <1>1, <1>2, <1>4 DEF BufInv, BufTypes, LinkedWhileReferenced
<1>13. call'[c] = r /\ \A d \in CPUs \ {c} : call'[d] = call[d]
  BY <1>1, <1>3
<1>14. \A g \in Handles \ {h} : Freeing(g)' = Freeing(g)
  <2> SUFFICES ASSUME NEW g \in Handles \ {h}, NEW d \in CPUs
               PROVE  call'[d] = [op |-> "free", h |-> g] <=> call[d] = [op |-> "free", h |-> g]
    BY DEF Freeing
  <2>1. CASE d = c
    BY <2>1, <1>1, <1>6, <1>13
  <2>2. CASE d # c
    BY <2>2, <1>13
  <2> QED
    BY <2>1, <2>2
<1>15. Freeing(h)' = IF refs[h] = 1 THEN {c} ELSE {}
  <2>1. \A d \in CPUs \ {c} : call'[d] # [op |-> "free", h |-> h]
    BY <1>12, <1>13 DEF Freeing
  <2>2. Freeing(h)' = {d \in CPUs : call'[d] = [op |-> "free", h |-> h]}
    BY <1>1 DEF Freeing
  <2> QED
    BY <2>1, <2>2, <1>6, <1>13
<1>16. LinkedWhileReferenced'
  <2>1. refs'[h] = refs[h] - 1 /\ \A g \in Handles \ {h} : refs'[g] = refs[g]
    BY <1>2, <1>3, <1>5
  <2>2. (refs'[h] > 0 => refs[h] # 1) /\ (refs'[h] = 0 => refs[h] = 1)
    BY <2>1, <1>2, <1>3
  <2> QED
    BY <2>1, <2>2, <1>1, <1>11, <1>12, <1>14, <1>15 DEF BufInv, LinkedWhileReferenced
<1>17. PagesOwned'
  BY <1>1, <1>11 DEF BufInv, PagesOwned
<1> QED
  BY <1>7, <1>8, <1>9, <1>10, <1>11, <1>16, <1>17 DEF BufInv

(* The walk of dmabuf_free takes out the one link of the handle.             *)
LEMMA UnlinkSound ==
  ASSUME list \in Seq(Handles), ListRight, NEW h \in Linked, list' = Unlinked(h)
  PROVE  list' \in Seq(Handles) /\ Linked' = Linked \ {h}
         /\ \A i, j \in 1 .. Len(list') : list'[i] = list'[j] => i = j
<1> DEFINE k == CHOOSE j \in 1 .. Len(list) : list[j] = h
           n == Len(list)
<1>1. k \in 1 .. n /\ list[k] = h /\ n \in Nat
  BY DEF Linked
<1>2. list' = SubSeq(list, 1, k - 1) \o SubSeq(list, k + 1, n)
  BY DEF Unlinked
<1>3. PICK cut \in 1 .. n : cut = k
  BY <1>1
<1>4. list' = SubSeq(list, 1, cut - 1) \o SubSeq(list, cut + 1, n)
  BY <1>2, <1>3
<1>5. /\ list' \in Seq(Handles) /\ Len(list') = n - 1
      /\ \A i \in 1 .. n - 1 : list'[i] = IF i < cut THEN list[i] ELSE list[i + 1]
  <2> DEFINE a == SubSeq(list, 1, cut - 1)
             b == SubSeq(list, cut + 1, n)
  <2>1. /\ a \in Seq(Handles) /\ Len(a) = cut - 1
        /\ \A i \in 1 .. cut - 1 : a[i] = list[i]
    BY <1>1
  <2>2. /\ b \in Seq(Handles) /\ Len(b) = n - cut
        /\ \A i \in 1 .. n - cut : b[i] = list[cut + i]
    BY <1>1
  <2> HIDE DEF a, b
  <2>3. /\ a \o b \in Seq(Handles) /\ Len(a \o b) = n - 1
        /\ \A i \in 1 .. n - 1 : (a \o b)[i] = IF i < cut THEN a[i] ELSE b[i - (cut - 1)]
    <3>1. /\ a \o b \in Seq(Handles) /\ Len(a \o b) = Len(a) + Len(b)
          /\ \A i \in 1 .. Len(a) + Len(b) :
               (a \o b)[i] = IF i <= Len(a) THEN a[i] ELSE b[i - Len(a)]
      BY <2>1, <2>2, ConcatProperties
    <3>2. Len(a) + Len(b) = n - 1 /\ \A i \in 1 .. n - 1 : i <= Len(a) <=> i < cut
      BY <2>1, <2>2, <1>1
    <3> QED
      BY <3>1, <3>2, <2>1
  <2>4. ASSUME NEW i \in 1 .. n - 1
        PROVE  (a \o b)[i] = IF i < cut THEN list[i] ELSE list[i + 1]
    <3>1. CASE i < cut
      BY <3>1, <2>1, <2>3, <1>1
    <3>2. CASE ~(i < cut)
      <4>1. i - (cut - 1) \in 1 .. n - cut /\ cut + (i - (cut - 1)) = i + 1
        BY <3>2, <1>1
      <4> QED
        BY <3>2, <4>1, <2>2, <2>3
    <3> QED
      BY <3>1, <3>2
  <2>5. list' = a \o b
    BY <1>4 DEF a, b
  <2> QED
    BY <2>3, <2>4, <2>5
<1>6. \A i, j \in 1 .. Len(list) : list[i] = list[j] => i = j
  BY DEF ListRight
<1>7. \A i, j \in 1 .. Len(list') : list'[i] = list'[j] => i = j
  <2> DEFINE old(i) == IF i < cut THEN i ELSE i + 1
  <2>1. ASSUME NEW i \in 1 .. n - 1
        PROVE  old(i) \in 1 .. n /\ list'[i] = list[old(i)]
    BY <1>1, <1>5
  <2>2. ASSUME NEW i \in 1 .. n - 1, NEW j \in 1 .. n - 1, old(i) = old(j)
        PROVE  i = j
    BY <1>1, <2>2
  <2> HIDE DEF old
  <2>3. ASSUME NEW i \in 1 .. n - 1, NEW j \in 1 .. n - 1, list'[i] = list'[j]
        PROVE  i = j
    <3>1. list[old(i)] = list[old(j)]
      BY <2>1, <2>3
    <3>2. old(i) = old(j)
      BY <3>1, <2>1, <1>6
    <3> QED
      BY <3>2, <2>2
  <2> QED
    BY <2>3, <1>5
<1>8. Linked' \subseteq Linked \ {h}
  <2> SUFFICES ASSUME NEW i \in 1 .. n - 1 PROVE list'[i] \in Linked \ {h}
    BY <1>5 DEF Linked
  <2>1. PICK j \in 1 .. n : j # cut /\ list'[i] = list[j]
    <3>1. CASE i < cut
      BY <3>1, <1>1, <1>5
    <3>2. CASE ~(i < cut)
      <4>1. i + 1 \in 1 .. n /\ i + 1 # cut
        BY <3>2, <1>1
      <4> QED
        BY <3>2, <4>1, <1>5
    <3> QED
      BY <3>1, <3>2
  <2> QED
    BY <2>1, <1>1, <1>3, <1>6 DEF Linked
<1>9. Linked \ {h} \subseteq Linked'
  <2> SUFFICES ASSUME NEW i \in 1 .. n, list[i] # h PROVE list[i] \in Linked'
    BY DEF Linked
  <2>1. i # cut
    BY <1>1, <1>3
  <2>2. CASE i < cut
    <3>1. i \in 1 .. n - 1 /\ list'[i] = list[i]
      BY <2>2, <1>1, <1>5
    <3> QED
      BY <3>1, <1>5 DEF Linked
  <2>3. CASE i > cut
    <3>1. i - 1 \in 1 .. n - 1 /\ list'[i - 1] = list[i]
      BY <2>3, <1>1, <1>5
    <3> QED
      BY <3>1, <1>5 DEF Linked
  <2> QED
    BY <2>1, <2>2, <2>3
<1> QED
  BY <1>5, <1>7, <1>8, <1>9

\* dmabuf_free preserves the invariant.
LEMMA FreeKeeps ==
  ASSUME BufInv, MMInv, NEW c \in CPUs, Free(c)
  PROVE  BufInv'
<1>0. PICK h : h = call[c].h
  OBVIOUS
<1>1. /\ ~late /\ call[c] = [op |-> "free", h |-> h] /\ call' = [call EXCEPT ![c] = Idle]
      /\ h \in Linked /\ refs[h] = 0 /\ Freeing(h) = {c} /\ page[h] \in held[Dma]
      /\ list' = Unlinked(h) /\ held' = [held EXCEPT ![Dma] = @ \ {page[h]}]
      /\ UNCHANGED <<created, refs, page, has, seen, late>>
  BY <1>0, FreesOwnPage DEF Free, Inside, Returns, userVars
<1>2. h \in 1 .. created /\ h \in Handles
  BY <1>1, CreatedAreHandles DEF BufInv, ListRight
<1>3. call \in [CPUs -> Calls] /\ list \in Seq(Handles)
  BY DEF BufInv, BufTypes
<1>4. /\ list' \in Seq(Handles) /\ Linked' = Linked \ {h}
      /\ \A i, j \in 1 .. Len(list') : list'[i] = list'[j] => i = j
  BY <1>1, <1>3, UnlinkSound DEF BufInv
<1>5. BufTypes'
  <2>1. call' \in [CPUs -> Calls]
    BY <1>1, <1>3 DEF Calls
  <2> QED
    BY <2>1, <1>1, <1>4 DEF BufInv, BufTypes
<1>6. Known' /\ Entitled'
  BY <1>1, <1>3 DEF BufInv, Known, Entitled, Idle
<1>7. ListRight'
  BY <1>1, <1>4 DEF BufInv, ListRight
<1>8. RefsCounted'
  BY <1>1 DEF BufInv, RefsCounted
<1>9. call'[c] = Idle /\ \A d \in CPUs \ {c} : call'[d] = call[d]
  BY <1>1, <1>3
<1>10. \A g \in Handles \ {h} : Freeing(g)' = Freeing(g)
  <2> SUFFICES ASSUME NEW g \in Handles \ {h}, NEW d \in CPUs
               PROVE  call'[d] = [op |-> "free", h |-> g] <=> call[d] = [op |-> "free", h |-> g]
    BY DEF Freeing
  <2>1. CASE d = c
    BY <2>1, <1>1, <1>9 DEF Idle
  <2>2. CASE d # c
    BY <2>2, <1>9
  <2> QED
    BY <2>1, <2>2
<1>11. Freeing(h)' = {}
  <2>1. \A d \in CPUs \ {c} : call'[d] # [op |-> "free", h |-> h]
    BY <1>1, <1>9 DEF Freeing
  <2>2. Freeing(h)' = {d \in CPUs : call'[d] = [op |-> "free", h |-> h]}
    BY DEF Freeing
  <2>3. call'[c] # [op |-> "free", h |-> h]
    BY <1>9 DEF Idle
  <2> QED
    BY <2>1, <2>2, <2>3
<1>12. LinkedWhileReferenced'
  BY <1>1, <1>4, <1>10, <1>11 DEF BufInv, LinkedWhileReferenced
<1>13. PagesOwned'
  <2>1. held'[Dma] = held[Dma] \ {page[h]}
    BY <1>1, DmaAssumption DEF MMInv, MMTypeOK
  <2>2. /\ held[Dma] = {page[g] : g \in Linked}
        /\ \A f, g \in Linked : page[f] = page[g] => f = g
    BY <1>1 DEF BufInv, PagesOwned, BufTypes
  <2>3. held'[Dma] = {page[g] : g \in Linked \ {h}}
    BY <2>1, <2>2, <1>1
  <2>4. held'[Dma] = {page'[g] : g \in Linked'}
    BY <2>3, <1>1, <1>4
  <2>5. \A f, g \in Linked' : page'[f] = page'[g] => f = g
    BY <2>2, <1>1, <1>4
  <2> QED
    BY <2>4, <2>5 DEF PagesOwned
<1> QED
  BY <1>4, <1>5, <1>6, <1>7, <1>8, <1>12, <1>13 DEF BufInv

(* Nobody has, links or frees a handle before it is created.                 *)
LEMMA NotYetCreated ==
  ASSUME BufInv, NEW n \in Nat, n > created
  PROVE  /\ n \notin Linked /\ Freeing(n) = {}
         /\ \A c \in CPUs : n \notin has[c]
<1>1. n \notin 1 .. created
  BY DEF BufInv, BufTypes
<1>2. n \notin Linked
  BY <1>1 DEF BufInv, ListRight
<1>3. \A c \in CPUs : n \notin has[c]
  BY <1>1 DEF BufInv, Known
<1>4. ASSUME NEW c \in CPUs, call[c] = [op |-> "free", h |-> n]
      PROVE  FALSE
  BY <1>1, <1>4 DEF BufInv, Entitled
<1> QED
  BY <1>2, <1>3, <1>4 DEF Freeing

\* dmabuf_create preserves the invariant.
LEMMA CreateKeeps ==
  ASSUME BufInv, MMInv, NEW c \in CPUs, Create(c)
  PROVE  BufInv'
<1>0. PICK n : n = created + 1
  OBVIOUS
<1>1. /\ ~late /\ call[c].op = "page" /\ call' = [call EXCEPT ![c] = Idle]
      /\ created < MaxBufs /\ created' = n
      /\ refs' = [refs EXCEPT ![n] = 1] /\ list' = <<n>> \o list
      /\ has' = [has EXCEPT ![c] = @ \cup {n}]
      /\ UNCHANGED <<seen, late>>
  BY <1>0 DEF Create, Inside, Followed, Returns
<1>2. PICK i \in Bits : FirstClear(i) /\ page' = [page EXCEPT ![n] = Frame(i)]
  BY <1>0 DEF Create
<1>3. held' = [held EXCEPT ![Dma] = @ \cup {Frame(i)}]
  <2>1. PICK j \in Bits : FirstClear(j) /\ held' = [held EXCEPT ![Dma] = @ \cup {Frame(j)}]
    BY DEF Create, PageAlloc
  <2>2. i = j
    BY <2>1, <1>2, PagesAssumption DEF FirstClear, Bits
  <2> QED
    BY <2>1, <2>2
<1>4. /\ call \in [CPUs -> Calls] /\ has \in [CPUs -> SUBSET Handles] /\ list \in Seq(Handles)
      /\ refs \in [Handles -> 0 .. RefLimit - 1] /\ page \in [Handles -> Frames \cup {NULL}]
      /\ created \in 0 .. MaxBufs
  BY DEF BufInv, BufTypes
<1>5. n \in Handles /\ n \in Nat /\ n > created /\ 1 .. n = (1 .. created) \cup {n}
  BY <1>0, <1>1, <1>4, DmaAssumption DEF Handles
<1>6. n \notin Linked /\ Freeing(n) = {} /\ \A d \in CPUs : n \notin has[d]
  BY <1>5, NotYetCreated
<1>7. /\ list' \in Seq(Handles) /\ Linked' = Linked \cup {n}
      /\ \A j, k \in 1 .. Len(list') : list'[j] = list'[k] => j = k
  <2>1. /\ list' \in Seq(Handles) /\ Len(list') = Len(list) + 1 /\ list'[1] = n
        /\ \A j \in 1 .. Len(list) : list'[j + 1] = list[j]
        /\ \A j \in 1 .. Len(list') : j # 1 => j - 1 \in 1 .. Len(list) /\ list'[j] = list[j - 1]
    BY <1>1, <1>4, <1>5
  <2>2. Linked' \subseteq Linked \cup {n}
    <3> SUFFICES ASSUME NEW j \in 1 .. Len(list') PROVE list'[j] \in Linked \cup {n}
      BY DEF Linked
    <3>1. CASE j = 1
      BY <3>1, <2>1
    <3>2. CASE j # 1
      BY <3>2, <2>1 DEF Linked
    <3> QED
      BY <3>1, <3>2
  <2>3. Linked \cup {n} \subseteq Linked'
    <3>1. 1 \in 1 .. Len(list') /\ \A j \in 1 .. Len(list) : j + 1 \in 1 .. Len(list')
      BY <2>1, <1>4
    <3>2. n \in Linked'
      BY <3>1, <2>1 DEF Linked
    <3>3. ASSUME NEW j \in 1 .. Len(list) PROVE list[j] \in Linked'
      <4>1. j + 1 \in 1 .. Len(list') /\ list'[j + 1] = list[j]
        BY <3>1, <2>1
      <4> QED
        BY <4>1 DEF Linked
    <3> QED
      BY <3>2, <3>3 DEF Linked
  <2>4. ASSUME NEW j \in 1 .. Len(list'), NEW k \in 1 .. Len(list'), list'[j] = list'[k]
        PROVE  j = k
    <3>1. CASE j = 1 \/ k = 1
      BY <3>1, <2>1, <2>4, <1>6 DEF Linked
    <3>2. CASE j # 1 /\ k # 1
      <4>1. /\ j - 1 \in 1 .. Len(list) /\ k - 1 \in 1 .. Len(list)
            /\ list[j - 1] = list[k - 1]
        BY <3>2, <2>1, <2>4
      <4>2. j - 1 = k - 1
        BY <4>1 DEF BufInv, ListRight
      <4> QED
        BY <4>2
    <3> QED
      BY <3>1, <3>2
  <2> QED
    BY <2>1, <2>2, <2>3, <2>4
<1>8. RefLimit > 1 /\ RefLimit \in Nat
  <2>1. Cardinality(CPUs) \in Nat /\ Cardinality(CPUs) # 0
    BY DmaAssumption, FS_CardinalityType, FS_EmptySet
  <2> QED
    BY <2>1, DmaAssumption
<1>9. BufTypes'
  <2>1. call' \in [CPUs -> Calls] /\ has' \in [CPUs -> SUBSET Handles]
    BY <1>1, <1>4, <1>5 DEF Calls
  <2>2. refs' \in [Handles -> 0 .. RefLimit - 1] /\ created' \in 0 .. MaxBufs
    <3>1. 1 \in 0 .. RefLimit - 1
      BY <1>8
    <3>2. created' \in 0 .. MaxBufs
      BY <1>0, <1>1, <1>4, DmaAssumption
    <3> QED
      BY <3>1, <3>2, <1>1, <1>4
  <2>3. page' \in [Handles -> Frames \cup {NULL}]
    BY <1>2, <1>4 DEF Frames
  <2> QED
    BY <2>1, <2>2, <2>3, <1>1, <1>7 DEF BufInv, BufTypes
<1>10. Known'
  <2>1. 0 .. created \subseteq 0 .. n
    BY <1>0, <1>4
  <2> QED
    BY <2>1, <1>1, <1>4, <1>5 DEF BufInv, Known
<1>11. Entitled'
  <2>1. ASSUME NEW d \in CPUs PROVE
          /\ call'[d].op \in {"get", "ref", "unref", "free"} => call'[d].h \in 1 .. n
          /\ call'[d].op = "ref" => call'[d].h \notin has'[d]
          /\ call'[d].op = "unref" => call'[d].h \in has'[d]
    <3>1. CASE d = c
      BY <3>1, <1>1, <1>4 DEF Idle
    <3>2. CASE d # c
      BY <3>2, <1>1, <1>4, <1>5 DEF BufInv, Entitled
    <3> QED
      BY <3>1, <3>2
  <2> QED
    BY <2>1, <1>1 DEF Entitled
<1>12. ListRight'
  BY <1>1, <1>5, <1>7 DEF BufInv, ListRight
<1>13. RefsCounted'
  <2> SUFFICES ASSUME NEW g \in Handles
               PROVE  refs'[g] = Cardinality({d \in CPUs : g \in has'[d]})
    BY DEF RefsCounted
  <2>1. CASE g = n
    <3>1. {d \in CPUs : g \in has'[d]} = {c}
      BY <2>1, <1>1, <1>4, <1>6
    <3> QED
      BY <3>1, <2>1, <1>1, <1>4, <1>5, FS_Singleton
  <2>2. CASE g # n
    <3>1. {d \in CPUs : g \in has'[d]} = {d \in CPUs : g \in has[d]}
      BY <2>2, <1>1, <1>4
    <3> QED
      BY <3>1, <2>2, <1>1, <1>4 DEF BufInv, RefsCounted
  <2> QED
    BY <2>1, <2>2
<1>14. \A g \in Handles : Freeing(g)' = Freeing(g)
  BY <1>1, <1>4 DEF Freeing, Idle
<1>15. LinkedWhileReferenced'
  <2>1. refs'[n] = 1 /\ \A g \in Handles \ {n} : refs'[g] = refs[g]
    BY <1>1, <1>4, <1>5
  <2> QED
    BY <2>1, <1>1, <1>5, <1>6, <1>7, <1>14 DEF BufInv, LinkedWhileReferenced
<1>16. PagesOwned'
  <2>1. Frame(i) \notin held[Dma]
    <3>1. Frame(i) - BitmapPages = i /\ i \notin used
      BY <1>2, PagesAssumption DEF Frame, FirstClear, Bits
    <3> QED
      BY <3>1, DmaAssumption DEF MMInv, FramesExclusive, HeldFrames
  <2>2. held'[Dma] = held[Dma] \cup {Frame(i)}
    BY <1>3, DmaAssumption DEF MMInv, MMTypeOK
  <2>3. page'[n] = Frame(i) /\ \A g \in Linked : page'[g] = page[g]
    <3>1. Linked \subseteq Handles
      BY CreatedAreHandles DEF BufInv, ListRight
    <3> QED
      BY <3>1, <1>2, <1>4, <1>5, <1>6
  <2>4. /\ held[Dma] = {page[g] : g \in Linked}
        /\ \A f, g \in Linked : page[f] = page[g] => f = g
    BY <1>1 DEF BufInv, PagesOwned, BufTypes
  <2>5. held'[Dma] = {page'[g] : g \in Linked'}
    BY <2>2, <2>3, <2>4, <1>7
  <2>6. \A f, g \in Linked' : page'[f] = page'[g] => f = g
    BY <2>1, <2>3, <2>4, <1>7
  <2> QED
    BY <2>5, <2>6 DEF PagesOwned
<1> QED
  BY <1>9, <1>10, <1>11, <1>12, <1>13, <1>15, <1>16 DEF BufInv

\* Every step of the buffers preserves the invariant.
LEMMA StepKeepsBuf == BufInv /\ MMInv /\ [Next]_vars => BufInv'
<1> SUFFICES ASSUME BufInv, MMInv, [Next]_vars PROVE BufInv'
  OBVIOUS
<1>1. CASE UNCHANGED vars
  <2>1. /\ UNCHANGED <<bufVars, has, late>> /\ held'[Dma] = held[Dma]
        /\ UNCHANGED <<seen, call, created>>
    BY <1>1 DEF vars, bufVars, userVars, mmVars
  <2>2. seen' \in [CPUs -> 0 .. created] /\ call' \in [CPUs -> Calls] /\ Entitled'
    BY <2>1 DEF BufInv, BufTypes, Known, Entitled
  <2>3. \A c \in CPUs : call'[c] = call[c]
    BY <2>1
  <2> QED
    BY <2>1, <2>2, <2>3, QuietKeeps
<1>2. CASE Next
  <2>1. CASE OtherPages
    BY <2>1, ElsewhereKeeps
  <2>2. ASSUME NEW c \in CPUs,
               \/ Begin(c) \/ BeginFree(c)
               \/ AllocHandle(c) \/ AllocHandleFails(c) \/ Create(c) \/ CreateFails(c)
               \/ Get(c) \/ Ref(c) \/ Unref(c) \/ Free(c) \/ LockWork(c)
        PROVE  BufInv'
    <3>1. CASE Begin(c)
      BY <3>1, BeginKeeps
    <3>2. CASE BeginFree(c) \/ LockWork(c)
      BY <3>2, ElsewhereKeeps
    <3>3. CASE AllocHandle(c) \/ AllocHandleFails(c) \/ CreateFails(c) \/ Get(c)
      BY <3>3, ReturnKeeps
    <3>4. CASE Create(c)
      BY <3>4, CreateKeeps
    <3>5. CASE Ref(c)
      BY <3>5, RefKeeps
    <3>6. CASE Unref(c)
      BY <3>6, BufUnrefKeeps
    <3>7. CASE Free(c)
      BY <3>7, FreeKeeps
    <3> QED
      BY <2>2, <3>1, <3>2, <3>3, <3>4, <3>5, <3>6, <3>7
  <2> QED
    BY <1>2, <2>1, <2>2 DEF Next
<1> QED
  BY <1>1, <1>2

(* The three inductive invariants together: a step of dmabuf.c is a step of  *)
(* the lock, and, because of PagesOwned, one its page allocator expects.     *)
THEOREM BufInvariance == Spec => [](LockInv /\ MMInv /\ BufInv)
<1>1. Init => LockInv /\ MMInv /\ BufInv
  <2>1. Init => LockInit /\ MMInit
    BY DEF Init
  <2> QED
    BY <2>1, InitRight, MMInitInv, InitBuf
<1>2. LockInv /\ MMInv /\ BufInv /\ [Next]_vars => (LockInv /\ MMInv /\ BufInv)'
  BY LockUse, StepKeeps, AllocatorUse, MMKeeps, StepKeepsBuf
<1> QED
  BY <1>1, <1>2, PTL DEF Spec

(* Calls on several CPUs, in any order, leave types as they are.             *)
THEOREM BufTypeCorrect == Spec => []BufTypeOK
<1>1. LockInv /\ MMInv /\ BufInv => BufTypeOK
  BY DEF LockInv, MMInv, BufInv, BufTypeOK
<1> QED
  BY <1>1, BufInvariance, PTL

(* ref_count is the number of references held, for any number of CPUs.       *)
THEOREM RefsCountedCorrect == Spec => []RefsCounted
<1>1. LockInv /\ MMInv /\ BufInv => RefsCounted
  BY DEF BufInv
<1> QED
  BY <1>1, BufInvariance, PTL

(* Up to the first dmabuf_ref of a buffer whose count is zero: who has a      *)
(* reference has a linked buffer, and every other buffer is freed by one CPU. *)
THEOREM LinkedCorrect == Spec => []LinkedWhileReferenced
<1>1. LockInv /\ MMInv /\ BufInv => LinkedWhileReferenced
  BY DEF BufInv
<1> QED
  BY <1>1, BufInvariance, PTL

(* The pages dmabuf.c has are those of the linked buffers, each its own.     *)
THEOREM PagesOwnedCorrect == Spec => []PagesOwned
<1>1. LockInv /\ MMInv /\ BufInv => PagesOwned
  BY DEF BufInv
<1> QED
  BY <1>1, BufInvariance, PTL

(* The lock dmabuf.c is locked with behaves as LockSpec allows, so the       *)
(* theorems about the lock hold of it.                                       *)
THEOREM UsesLock == Spec => LockSpec
<1>1. Init => LockInit
  BY DEF Init
<1> QED
  BY <1>1, LockUse, PTL DEF Spec, LockSpec

-----------------------------------------------------------------------------
(* Least elements.                                                         *)

\* A set of natural numbers that is not empty has a least element.
LEMMA Least ==
  ASSUME NEW S \in SUBSET Nat, S # {}
  PROVE  \E k \in S : \A j \in S : k <= j
<1>1. PICK k \in S : \A j \in S : ~(<<j, k>> \in OpToRel(<, Nat))
  BY NatLessThanWellFounded, WFMin
<1>2. \A j \in S : k <= j
  <2> TAKE j \in S
  <2>1. j \in Nat /\ k \in Nat /\ <<j, k>> \in Nat \X Nat
    OBVIOUS
  <2>2. ~(j < k)
    BY <1>1, <2>1 DEF OpToRel
  <2> QED BY <2>1, <2>2
<1> QED BY <1>2

-----------------------------------------------------------------------------
(* Remainders.                                                             *)

\* What \div and % are.
LEMMA DivMod ==
  ASSUME NEW m \in Nat \ {0}, NEW a \in Int
  PROVE  /\ a = m * (a \div m) + (a % m)
         /\ a % m \in 0 .. m - 1 /\ a % m \in Nat /\ a % m \in Int
         /\ a \div m \in Int
<1>1. a = m * (a \div m) + (a % m)
  OBVIOUS
<1>2. a % m \in 0 .. m - 1
  OBVIOUS
<1>3. a \div m \in Int
  OBVIOUS
<1> QED BY <1>1, <1>2, <1>3

\* There is one remainder.
LEMMA ModUnique ==
  ASSUME NEW m \in Nat \ {0}, NEW a \in Int, NEW q \in Int, NEW r \in 0 .. m - 1, a = m * q + r
  PROVE  a % m = r
<1> DEFINE p == a \div m
           s == a % m
<1>1. a = m * p + s /\ s \in 0 .. m - 1 /\ p \in Int
  BY DivMod
<1>2. SUFFICES s = r
  OBVIOUS
<1> HIDE DEF p, s
<1>3. s - r = m * (q - p)
  BY <1>1
<1>4. CASE q - p >= 1
  <2>1. m * (q - p) >= m
    BY <1>1, <1>4
  <2> QED BY <1>1, <1>3, <2>1
<1>5. CASE q - p <= -1
  <2>1. m * (q - p) <= -m
    BY <1>1, <1>5
  <2> QED BY <1>1, <1>3, <2>1
<1>6. CASE q = p
  BY <1>1, <1>6
<1>7. q - p >= 1 \/ q - p <= -1 \/ q = p
  BY <1>1
<1> QED BY <1>4, <1>5, <1>6, <1>7

\* A number below the modulus is its own remainder.
LEMMA ModSmall ==
  ASSUME NEW m \in Nat \ {0}, NEW a \in 0 .. m - 1
  PROVE  a % m = a
<1>1. a \in Int /\ 0 \in Int /\ a = m * 0 + a
  OBVIOUS
<1> QED BY <1>1, ModUnique

\* A remainder may be taken before adding or after.
LEMMA ModAdd ==
  ASSUME NEW m \in Nat \ {0}, NEW a \in Int, NEW b \in Int
  PROVE  ((a % m) + b) % m = (a + b) % m
<1> DEFINE q == a \div m
           s == a % m
           p == (s + b) \div m
           r == (s + b) % m
<1>1. a = m * q + s /\ s \in Int /\ q \in Int
  BY DivMod
<1>2. s + b = m * p + r /\ r \in 0 .. m - 1 /\ p \in Int
  <2> HIDE DEF s
  <2>1. s + b \in Int
    BY <1>1
  <2> QED BY <2>1, DivMod
<1> HIDE DEF q, s, p, r
<1>3. a + b = m * (q + p) + r /\ q + p \in Int /\ a + b \in Int
  BY <1>1, <1>2
<1>4. (a + b) % m = r
  BY <1>2, <1>3, ModUnique
<1> QED BY <1>4 DEF r, s

\* The difference of two remainders has the remainder of the difference.
LEMMA ModDiff ==
  ASSUME NEW m \in Nat \ {0}, NEW a \in Int, NEW b \in Int
  PROVE  ((a % m) - (b % m)) % m = (a - b) % m
<1> DEFINE q == b \div m
           s == b % m
           c == (a - b) % m
           d == (a - b) \div m
<1>1. b = m * q + s /\ s \in Int /\ q \in Int
  BY DivMod
<1>2. ((a % m) + (-s)) % m = (a + (-s)) % m
  <2> HIDE DEF s
  <2>1. -s \in Int
    BY <1>1
  <2> QED BY <2>1, ModAdd
<1>3. a - b = m * d + c /\ c \in 0 .. m - 1 /\ d \in Int
  <2>1. /\ a - b = m * ((a - b) \div m) + ((a - b) % m) /\ (a - b) % m \in 0 .. m - 1
        /\ (a - b) \div m \in Int
    <3>1. a - b \in Int
      OBVIOUS
    <3> QED BY Zenon, <3>1, DivMod
  <2> QED BY Zenon, <2>1
<1> HIDE DEF q, s, c, d
<1>4. a + (-s) = m * (d + q) + c /\ d + q \in Int /\ a + (-s) \in Int
  BY <1>1, <1>3
<1>5. (a + (-s)) % m = c
  BY <1>3, <1>4, ModUnique
<1>6. (a % m) - s = (a % m) + (-s)
  <2>1. a % m \in Int
    BY DivMod
  <2> QED BY <1>1, <2>1
<1> QED BY <1>2, <1>5, <1>6 DEF s, c

\* Wrapping at a multiple of n first changes no remainder by n.
LEMMA ModMod ==
  ASSUME NEW m \in Nat \ {0}, NEW n \in Nat \ {0}, m % n = 0, NEW a \in Int
  PROVE  (a % m) % n = a % n
<1> DEFINE k == m \div n
           q == a \div m
           s == a % m
           p == s \div n
           r == s % n
<1>1. m = n * k /\ k \in Int
  BY DivMod
<1>2. a = m * q + s /\ s \in Int /\ q \in Int
  BY DivMod
<1>3. s = n * p + r /\ r \in 0 .. n - 1 /\ p \in Int
  BY <1>2, DivMod
<1> HIDE DEF k, q, s, p, r
<1>4. a = n * (k * q + p) + r /\ k * q + p \in Int
  BY <1>1, <1>2, <1>3
<1>5. a % n = r
  BY <1>3, <1>4, ModUnique
<1> QED BY <1>5 DEF r, s

\* Numbers less than m apart have different remainders.
LEMMA ModDistinct ==
  ASSUME NEW m \in Nat \ {0}, NEW a \in Int, NEW b \in Int, a < b, b - a < m
  PROVE  a % m # b % m
<1> SUFFICES ASSUME a % m = b % m PROVE FALSE
  OBVIOUS
<1>1. ((b % m) - (a % m)) % m = (b - a) % m
  BY ModDiff
<1>2. (b - a) % m = b - a
  <2>1. b - a \in 0 .. m - 1
    OBVIOUS
  <2> QED BY <2>1, ModSmall
<1>3. (b % m) - (a % m) = 0
  <2>1. a % m \in Int
    BY DivMod
  <2> QED BY <2>1
<1>4. 0 % m = 0
  BY ModSmall
<1> QED BY <1>1, <1>2, <1>3, <1>4

-----------------------------------------------------------------------------
(* The frame buffers of kernel/gpu_buffer.c: nothing is torn, and no page  *)
(* has two owners or none.                                                 *)

GpuTypeOK ==
    /\ buffer_initialized \in BOOLEAN /\ mode \in Modes
    /\ {front, back, third} \subseteq GpuPages \cup {NoPage}
    /\ free_pages \subseteq GpuPages /\ others \subseteq GpuPages
    /\ content \in [GpuPages -> GpuFrames]

\* Initialised buffers are different pages: one, two or three as the mode says.
BuffersRight ==
    buffer_initialized =>
        /\ front # NoPage /\ back # NoPage
        /\ mode = "single" <=> front = back
        /\ mode = "triple" <=> third # NoPage
        /\ third \notin {front, back}

PagesRight == Held \cap others = {} /\ free_pages = GpuPages \ (Held \cup others)

\* NoTearing is not inductive: that nobody else writes to the front buffer's page needs
\* the ownership, and that a swap shows what was drawn needs the buffers to be pages.
GpuInv == GpuTypeOK /\ BuffersRight /\ PagesRight /\ NoTearing

\* The GPU buffers start in their invariant.
LEMMA GpuInitial == GpuBuffersInit => GpuInv
  BY GpuAssumption DEF GpuBuffersInit, GpuInv, GpuTypeOK, BuffersRight, PagesRight, NoTearing, Held, Modes

\* gpu_buffer_init: what one, two or three allocations leave, each of which may fail.
LEMMA InitKeeps ==
  ASSUME GpuInv, NEW m \in Modes, GpuBufferInit(m)
  PROVE  GpuInv'
<1>1. PICK f, b, t \in GpuPages \cup {NoPage} :
          /\ Allocated(f, free_pages)
          /\ IF m = "single" \/ f = NoPage THEN b = f ELSE Allocated(b, free_pages \ {f})
          /\ IF m = "triple" /\ b # NoPage THEN Allocated(t, free_pages \ {f, b}) ELSE t = NoPage
          /\ front' = f /\ back' = b /\ third' = t
          /\ buffer_initialized' = (b # NoPage)
          /\ mode' = IF m = "triple" /\ b # NoPage /\ t = NoPage THEN "double" ELSE m
          /\ free_pages' = FreeAfterInit(f, b, t)
          /\ content' = [p \in GpuPages |-> IF p \in {f, b, t} THEN 0 ELSE content[p]]
  BY DEF GpuBufferInit
<1>2. ~buffer_initialized /\ Held = {} /\ others' = others /\ swapped' = 0
  BY DEF GpuBufferInit, Held
<1>3. free_pages = GpuPages \ others /\ free_pages \subseteq GpuPages /\ NoPage \notin free_pages
  BY <1>2, GpuAssumption DEF GpuInv, PagesRight, GpuTypeOK, NoPage
<1>4. f \in free_pages \cup {NoPage}
  BY <1>1 DEF Allocated
<1>5. b = NoPage => t = NoPage
  BY <1>1
<1>6. /\ b # NoPage => f # NoPage /\ f \in free_pages /\ b \in free_pages /\ (m = "single" <=> f = b)
      /\ t # NoPage => t \in free_pages \ {f, b} /\ m = "triple"
  BY <1>1, <1>4 DEF Allocated
<1>7. GpuTypeOK'
  <2>1. content' \in [GpuPages -> GpuFrames]
    BY <1>1, GpuAssumption DEF GpuInv, GpuTypeOK
  <2>2. mode' \in Modes /\ free_pages' \subseteq GpuPages
    BY <1>1, <1>3 DEF Modes, FreeAfterInit
  <2> QED BY <1>1, <1>2, <2>1, <2>2 DEF GpuInv, GpuTypeOK
<1>8. BuffersRight'
  BY <1>1, <1>6 DEF BuffersRight, Modes
<1>9. PagesRight'
  <2>1. CASE b = NoPage
    BY <1>1, <1>2, <1>3, <2>1 DEF PagesRight, Held, FreeAfterInit
  <2>2. CASE b # NoPage
    <3>1. Held' = {f, b, t} \ {NoPage}
      BY <1>1, <2>2 DEF Held
    <3>2. Held' \subseteq free_pages
      BY <1>6, <2>2, <3>1
    <3>3. free_pages' = free_pages \ Held'
      BY <1>1, <1>3, <2>2, <3>1 DEF FreeAfterInit
    <3> QED BY <1>2, <1>3, <3>2, <3>3 DEF PagesRight
  <2> QED BY <2>1, <2>2
<1>10. NoTearing'
  BY <1>1, <1>2, <1>3, <1>6 DEF NoTearing
<1> QED BY <1>7, <1>8, <1>9, <1>10 DEF GpuInv

\* gpu_buffer_swap: the buffers change places, and the back one is shown.
LEMMA SwapKeeps ==
  ASSUME GpuInv, GpuBufferSwap
  PROVE  GpuInv'
<1>1. /\ buffer_initialized /\ mode # "single"
      /\ front' = back /\ swapped' = content[back]
      /\ UNCHANGED <<buffer_initialized, mode, free_pages, others, content>>
  BY DEF GpuBufferSwap, Rotated, Flipped
<1>2. \/ mode = "triple" /\ third # NoPage /\ back' = third /\ third' = front
      \/ ~(mode = "triple" /\ third # NoPage) /\ back' = front /\ third' = third
  BY DEF GpuBufferSwap, Rotated, Flipped
<1>3. Held' = Held
  BY <1>1, <1>2 DEF Held
<1>4. GpuTypeOK'
  BY <1>1, <1>2 DEF GpuInv, GpuTypeOK
<1>5. BuffersRight'
  BY <1>1, <1>2 DEF GpuInv, BuffersRight
<1>6. PagesRight'
  BY <1>1, <1>3 DEF GpuInv, PagesRight
<1>7. NoTearing'
  BY <1>1 DEF NoTearing
<1> QED BY <1>4, <1>5, <1>6, <1>7 DEF GpuInv

\* Drawing, in the back buffer and the pages behind it.
LEMMA DrawKeeps ==
  ASSUME GpuInv, NEW frame \in GpuFrames, NEW drawn, Draw(frame, drawn)
  PROVE  GpuInv'
<1>1. /\ buffer_initialized /\ drawn \subseteq Extent(back)
      /\ content' = [p \in GpuPages |-> IF p \in drawn THEN frame ELSE content[p]]
      /\ UNCHANGED <<buffer_initialized, mode, front, back, third, free_pages, others, swapped>>
  BY DEF Draw
<1>2. Held' = Held
  BY <1>1 DEF Held
<1>3. GpuTypeOK'
  BY <1>1 DEF GpuInv, GpuTypeOK
<1>4. BuffersRight' /\ PagesRight'
  BY <1>1, <1>2 DEF GpuInv, BuffersRight, PagesRight
<1>5. NoTearing'
  <2>1. front \in GpuPages /\ Extent(back)' = Extent(back)
    BY <1>1 DEF GpuInv, BuffersRight, GpuTypeOK, Extent
  <2>2. front \notin Extent(back) => content'[front] = content[front]
    BY <1>1, <2>1
  <2> QED BY <1>1, <2>1, <2>2 DEF GpuInv, NoTearing
<1> QED BY <1>3, <1>4, <1>5 DEF GpuInv

\* The other users of page_alloc take, write and free pages.
LEMMA OthersKeep ==
  ASSUME GpuInv, NEW p \in GpuPages, OthersAlloc(p) \/ OthersFree(p)
  PROVE  GpuInv'
<1>1. UNCHANGED <<buffer_initialized, mode, front, back, third, swapped>> /\ Held' = Held
  BY DEF OthersAlloc, OthersFree, Held
<1>2. p \notin Held
  BY DEF GpuInv, PagesRight, OthersAlloc, OthersFree
<1>3. GpuTypeOK'
  BY <1>1 DEF GpuInv, GpuTypeOK, OthersAlloc, OthersFree
<1>4. BuffersRight'
  BY <1>1 DEF GpuInv, BuffersRight
<1>5. PagesRight'
  BY <1>1, <1>2 DEF GpuInv, PagesRight, GpuTypeOK, OthersAlloc, OthersFree
<1>6. NoTearing'
  <2>1. buffer_initialized => front \in Held /\ front \in GpuPages
    BY DEF GpuInv, GpuTypeOK, BuffersRight, Held
  <2>2. buffer_initialized => content'[front] = content[front]
    BY <1>2, <2>1 DEF GpuInv, GpuTypeOK, OthersAlloc, OthersFree
  <2> QED BY <1>1, <2>2 DEF GpuInv, NoTearing
<1> QED BY <1>3, <1>4, <1>5, <1>6 DEF GpuInv

\* Giving the buffers up, presenting them, and the vsync switch.
LEMMA ShutdownKeeps ==
  ASSUME GpuInv, GpuBufferShutdown
  PROVE  GpuInv'
<1>1. Held \subseteq GpuPages /\ Held' = {}
  BY DEF GpuInv, GpuTypeOK, Held, GpuBufferShutdown
<1>2. PagesRight'
  BY <1>1 DEF GpuInv, GpuTypeOK, PagesRight, GpuBufferShutdown
<1> QED BY <1>1, <1>2 DEF GpuInv, GpuTypeOK, BuffersRight, NoTearing, GpuBufferShutdown, Modes

\* A step that leaves the GPU buffers alone preserves their invariant.
LEMMA OtherCallsKeep ==
  ASSUME GpuInv, UNCHANGED <<buffer_initialized, mode, front, back, third, free_pages, others, content, swapped>>
  PROVE  GpuInv'
  BY DEF GpuInv, GpuTypeOK, BuffersRight, PagesRight, NoTearing, Held

\* Every step of the devices preserves the invariant of the GPU buffers.
LEMMA GpuStep == GpuInv /\ [DevicesNext]_allVars => GpuInv'
<1> SUFFICES ASSUME GpuInv, [DevicesNext]_allVars PROVE GpuInv'
  OBVIOUS
<1>1. ASSUME NEW m \in Modes, GpuBufferInit(m) PROVE GpuInv'
  BY <1>1, InitKeeps
<1>2. CASE GpuBufferShutdown
  BY <1>2, ShutdownKeeps
<1>3. ASSUME NEW frame \in GpuFrames, NEW drawn, Draw(frame, drawn) PROVE GpuInv'
  BY <1>3, DrawKeeps
<1>4. CASE GpuBufferSwap
  BY <1>4, SwapKeeps
<1>5. CASE GpuBufferPresent
  BY <1>5, OtherCallsKeep DEF GpuBufferPresent
<1>6. ASSUME NEW enable \in BOOLEAN, GpuBufferSetVsync(enable) PROVE GpuInv'
  BY <1>6, OtherCallsKeep DEF GpuBufferSetVsync
<1>7. ASSUME NEW p \in GpuPages, OthersAlloc(p) \/ OthersFree(p) PROVE GpuInv'
  BY <1>7, OthersKeep
<1>8. CASE UNCHANGED gpuVars
  BY <1>8, OtherCallsKeep DEF gpuVars
<1>9. GpuBuffersNext \/ UNCHANGED gpuVars
  BY DEF DevicesNext, PartsNext, Input, Usb, Rings, Buffers, Heap, Resampler, deviceVars, allVars
<1> QED BY <1>1, <1>2, <1>3, <1>4, <1>5, <1>6, <1>7, <1>8, <1>9 DEF GpuBuffersNext

\* The invariant of the GPU buffers holds in every reachable state.
LEMMA GpuInvariant == DevicesSpec => []GpuInv
<1>1. DevicesInit => GpuInv
  BY GpuInitial DEF DevicesInit, PartsInit
<1> QED BY <1>1, GpuStep, PTL DEF DevicesSpec

\* With two or three buffers the front buffer's page shows what was complete at the last
\* swap, however drawing, swaps, failed allocations and other users of pages mix, for
\* frames of any size: unless it is among the pages that drawing in the back one reaches.
THEOREM NoTearingCorrect == DevicesSpec => []NoTearing
<1>1. GpuInv => NoTearing
  BY DEF GpuInv
<1> QED BY <1>1, GpuInvariant, PTL

\* Every page is free, of the frame buffers or of somebody else, and the buffers are
\* as many pages as the mode says.
THEOREM GpuPagesCorrect == DevicesSpec => []GpuPagesOwned
<1>1. GpuInv => GpuPagesOwned
  <2> SUFFICES ASSUME GpuInv, buffer_initialized
               PROVE  Cardinality(Held) = CASE mode = "single" -> 1 [] mode = "double" -> 2 [] mode = "triple" -> 3
    BY DEF GpuPagesOwned, GpuInv, PagesRight
  <2>1. IsFiniteSet({front}) /\ Cardinality({front}) = 1
    BY FS_Singleton
  <2>2. front # back => IsFiniteSet({front, back}) /\ Cardinality({front, back}) = 2
    <3> HAVE front # back
    <3>1. {front, back} = {front} \cup {back}
      OBVIOUS
    <3> QED BY <2>1, <3>1, FS_AddElement
  <2>3. front # back /\ third \notin {front, back} => Cardinality({front, back, third}) = 3
    <3> HAVE front # back /\ third \notin {front, back}
    <3>1. {front, back, third} = {front, back} \cup {third}
      OBVIOUS
    <3> QED BY <2>2, <3>1, FS_AddElement
  <2>4. BuffersRight /\ mode \in Modes
    BY DEF GpuInv, GpuTypeOK
  <2>5. CASE mode = "single"
    <3>1. Held = {front}
      BY <2>4, <2>5 DEF BuffersRight, Held
    <3> QED BY <2>1, <2>5, <3>1
  <2>6. CASE mode = "double"
    <3>1. Held = {front, back} /\ front # back
      BY <2>4, <2>6 DEF BuffersRight, Held
    <3> QED BY <2>2, <2>6, <3>1
  <2>7. CASE mode = "triple"
    <3>1. Held = {front, back, third} /\ front # back /\ third \notin {front, back}
      BY <2>4, <2>7 DEF BuffersRight, Held
    <3> QED BY <2>3, <2>7, <3>1
  <2> QED BY <2>4, <2>5, <2>6, <2>7 DEF Modes
<1> QED BY <1>1, GpuInvariant, PTL

-----------------------------------------------------------------------------
(* The heap blocks of the GPU resources and of audio.                      *)

ResourceRecord == [id : Nat, block : Blocks, backing : Blocks]
Clip           == [block : Blocks, data : Blocks]
OfResource(r)  == {r.block, r.backing}
OfClip(c)      == {c.block, c.data}

HeapTypeOK ==
  /\ resources \in Seq(ResourceRecord) /\ next_resource_id \in Nat
  /\ clips \subseteq Clip
  /\ audio_dev \in [initialized : BOOLEAN, dma_buffer : Blocks \cup {NoBlock}]
  /\ lost \subseteq Blocks

\* No two resources and no two clips share a block.
ResourcesApart ==
  /\ \A i \in 1 .. Len(resources) : resources[i].block # resources[i].backing
  /\ \A i, j \in 1 .. Len(resources) : i # j => OfResource(resources[i]) \cap OfResource(resources[j]) = {}
ClipsApart ==
  /\ \A c \in clips : c.block # c.data
  /\ \A c, d \in clips : c # d => OfClip(c) \cap OfClip(d) = {}

\* Nor do two kinds of owners.
OwnersApart ==
  /\ ResourceBlocks \cap (DmaBlock \cup ClipBlocks \cup lost) = {}
  /\ DmaBlock \cap (ClipBlocks \cup lost) = {}
  /\ ClipBlocks \cap lost = {}

HeapInv == HeapTypeOK /\ ResourcesApart /\ ClipsApart /\ OwnersApart /\ HeapOwned

\* What HeapInv says of the parts no step below names.
LEMMA HeapSets ==
  ASSUME HeapInv
  PROVE  /\ heap_free \subseteq Blocks /\ NoBlock \notin heap_free /\ NoBlock \notin Blocks
         /\ \A b \in heap_free : b \notin ResourceBlocks \cup DmaBlock \cup ClipBlocks \cup lost
         /\ ResourceBlocks \cup DmaBlock \cup ClipBlocks \cup lost \subseteq Blocks
<1>1. heap_free = Blocks \ (ResourceBlocks \cup DmaBlock \cup ClipBlocks \cup lost) /\ NoBlock \notin Blocks
  BY BlocksAssumption DEF HeapInv, HeapOwned
<1>2. ResourceBlocks \subseteq Blocks
  <2> SUFFICES ASSUME NEW i \in DOMAIN resources
               PROVE  resources[i].block \in Blocks /\ resources[i].backing \in Blocks
    BY DEF ResourceBlocks
  <2>1. resources \in Seq(ResourceRecord)
    BY DEF HeapInv, HeapTypeOK
  <2>2. i \in 1 .. Len(resources)
    BY <2>1, LenProperties
  <2>3. resources[i] \in ResourceRecord
    BY <2>1, <2>2, ElementOfSeq
  <2> QED BY <2>3 DEF ResourceRecord
<1>3. DmaBlock \subseteq Blocks /\ ClipBlocks \subseteq Blocks /\ lost \subseteq Blocks
  BY DEF HeapInv, HeapTypeOK, DmaBlock, ClipBlocks, Clip
<1> QED BY <1>1, <1>2, <1>3

\* The blocks of a list of resources, by position.
LEMMA ResourceBlocksAre ==
  ASSUME resources \in Seq(ResourceRecord)
  PROVE  \A b : b \in ResourceBlocks <=> \E i \in 1 .. Len(resources) : b \in OfResource(resources[i])
<1>1. DOMAIN resources = 1 .. Len(resources)
  BY LenProperties
<1> QED BY <1>1 DEF ResourceBlocks, OfResource

\* A sequence without its i-th element.
LEMMA Removed ==
  ASSUME NEW S, NEW s \in Seq(S), NEW i \in 1 .. Len(s), NEW t,
         t = SubSeq(s, 1, i - 1) \o SubSeq(s, i + 1, Len(s))
  PROVE  /\ t \in Seq(S) /\ Len(t) = Len(s) - 1
         /\ \A j \in 1 .. Len(s) - 1 : t[j] = IF j < i THEN s[j] ELSE s[j + 1]
<1> DEFINE a == SubSeq(s, 1, i - 1)
           b == SubSeq(s, i + 1, Len(s))
<1> PICK n : n = Len(s)
  OBVIOUS
<1>1. n = Len(s) /\ n \in Nat /\ i \in 1 .. n
  BY LenProperties
<1>2. \A j \in 1 .. n : s[j] \in S
  BY <1>1, ElementOfSeq
<1>3. a \in Seq(S) /\ Len(a) = i - 1 /\ \A j \in 1 .. i - 1 : a[j] = s[j]
  <2>1. 1 \in Int /\ i - 1 \in Int /\ \A j \in 1 .. i - 1 : s[j] \in S
    BY <1>1, <1>2
  <2>2. /\ a \in Seq(S) /\ Len(a) = IF 1 <= i - 1 THEN i - 1 - 1 + 1 ELSE 0
        /\ \A j \in 1 .. i - 1 - 1 + 1 : a[j] = s[1 + j - 1]
    BY <2>1, SubSeqProperties
  <2> HIDE DEF a
  <2> QED BY <1>1, <2>2
<1>4. b \in Seq(S) /\ Len(b) = n - i /\ \A j \in 1 .. n - i : b[j] = s[i + j]
  <2>1. i + 1 \in Int /\ n \in Int /\ \A j \in i + 1 .. n : s[j] \in S
    BY <1>1, <1>2
  <2>2. /\ b \in Seq(S) /\ Len(b) = IF i + 1 <= n THEN n - (i + 1) + 1 ELSE 0
        /\ \A j \in 1 .. n - (i + 1) + 1 : b[j] = s[(i + 1) + j - 1]
    BY <1>1, <2>1, SubSeqProperties
  <2> HIDE DEF b
  <2> QED BY <1>1, <2>2
<1> HIDE DEF a, b
<1>5. /\ t \in Seq(S) /\ Len(t) = n - 1
      /\ \A j \in 1 .. n - 1 : t[j] = IF j <= i - 1 THEN a[j] ELSE b[j - (i - 1)]
  <2>1. t = a \o b
    BY DEF a, b
  <2>2. /\ a \o b \in Seq(S) /\ Len(a \o b) = Len(a) + Len(b)
        /\ \A j \in 1 .. Len(a) + Len(b) : (a \o b)[j] = IF j <= Len(a) THEN a[j] ELSE b[j - Len(a)]
    BY <1>3, <1>4, ConcatProperties
  <2>3. Len(a) = i - 1 /\ Len(a) + Len(b) = n - 1
    BY <1>1, <1>3, <1>4
  <2>4. /\ t \in Seq(S) /\ Len(t) = Len(a) + Len(b)
        /\ \A j \in 1 .. Len(a) + Len(b) : t[j] = IF j <= Len(a) THEN a[j] ELSE b[j - Len(a)]
    BY <2>1, <2>2
  <2> QED BY <2>3, <2>4
<1>7. ASSUME NEW j \in 1 .. n - 1
      PROVE  t[j] = IF j < i THEN s[j] ELSE s[j + 1]
  <2>1. CASE j < i
    <3>1. j <= i - 1 /\ j \in 1 .. i - 1
      BY <1>1, <2>1
    <3> QED BY <1>3, <1>5, <2>1, <3>1
  <2>2. CASE ~(j < i)
    <3>1. ~(j <= i - 1) /\ j - (i - 1) \in 1 .. n - i /\ i + (j - (i - 1)) = j + 1
      BY <1>1, <2>2
    <3>2. t[j] = b[j - (i - 1)]
      BY <1>5, <3>1
    <3>3. b[j - (i - 1)] = s[j + 1]
      BY <1>4, <3>1
    <3> QED BY <2>2, <3>2, <3>3
  <2> QED BY <2>1, <2>2
<1> QED BY <1>1, <1>5, <1>7

\* A resource takes its two blocks off the heap, or none.
LEMMA CreateResourceKeeps ==
  ASSUME HeapInv, VirtioGpuResourceCreate2d, UNCHANGED audioVars
  PROVE  HeapInv'
<1>0. PICK r \in KmallocBlock(heap_free) :
        \E b \in IF r = NoBlock THEN {NoBlock} ELSE KmallocBlock(heap_free \ {r}) :
          /\ heap_free' = HeapAfterCreate(r, b)
          /\ next_resource_id' = IF r = NoBlock THEN next_resource_id ELSE next_resource_id + 1
          /\ resources' = IF b = NoBlock THEN resources
                          ELSE <<[id |-> next_resource_id, block |-> r, backing |-> b]>> \o resources
  BY DEF VirtioGpuResourceCreate2d
<1>1. PICK b \in IF r = NoBlock THEN {NoBlock} ELSE KmallocBlock(heap_free \ {r}) :
          /\ heap_free' = HeapAfterCreate(r, b)
          /\ next_resource_id' = IF r = NoBlock THEN next_resource_id ELSE next_resource_id + 1
          /\ resources' = IF b = NoBlock THEN resources
                          ELSE <<[id |-> next_resource_id, block |-> r, backing |-> b]>> \o resources
  BY <1>0
<1>2. /\ resources \in Seq(ResourceRecord) /\ next_resource_id \in Nat /\ next_resource_id' \in Nat
      /\ UNCHANGED <<clips, audio_dev, lost>>
  BY <1>1 DEF HeapInv, HeapTypeOK, audioVars
<1>3. DmaBlock' = DmaBlock /\ ClipBlocks' = ClipBlocks
  BY <1>2 DEF DmaBlock, ClipBlocks
<1>4. ClipsApart'
  BY <1>2 DEF HeapInv, ClipsApart
<1>5. CASE b = NoBlock
  <2>1. heap_free' = heap_free /\ resources' = resources
    BY <1>1, <1>5 DEF HeapAfterCreate
  <2>2. ResourceBlocks' = ResourceBlocks /\ ResourcesApart'
    BY <2>1 DEF ResourceBlocks, HeapInv, ResourcesApart
  <2>3. HeapTypeOK'
    BY <1>2, <2>1 DEF HeapInv, HeapTypeOK
  <2> QED BY <1>2, <1>3, <1>4, <2>1, <2>2, <2>3 DEF HeapInv, OwnersApart, HeapOwned
<1>6. CASE b # NoBlock
  <2> DEFINE rec == [id |-> next_resource_id, block |-> r, backing |-> b]
             n == Len(resources)
  <2>1. r \in heap_free /\ b \in heap_free /\ r # b /\ r \in Blocks /\ b \in Blocks
    BY <1>1, <1>6, HeapSets DEF KmallocBlock
  <2>2. rec \in ResourceRecord
    BY <1>2, <2>1 DEF ResourceRecord
  <2>3. OfResource(rec) = {r, b} /\ rec.block # rec.backing
    BY <2>1 DEF OfResource
  <2> HIDE DEF rec
  <2>4. resources' = <<rec>> \o resources
    BY <1>1, <1>6 DEF rec
  <2>5. n \in Nat /\ \A i \in 1 .. n : resources[i] \in ResourceRecord
    BY <1>2, LenProperties, ElementOfSeq
  <2>6. /\ resources' \in Seq(ResourceRecord) /\ Len(resources') = n + 1 /\ resources'[1] = rec
        /\ \A i \in 2 .. n + 1 : resources'[i] = resources[i - 1]
    <3>1. <<rec>> \in Seq(ResourceRecord) /\ Len(<<rec>>) = 1 /\ <<rec>>[1] = rec
      BY <2>2
    <3>2. /\ resources' \in Seq(ResourceRecord) /\ Len(resources') = 1 + n
          /\ \A i \in 1 .. 1 + n : resources'[i] = IF i <= 1 THEN <<rec>>[i] ELSE resources[i - 1]
      BY <1>2, <2>4, <3>1, ConcatProperties
    <3>3. 1 \in 1 .. 1 + n /\ 1 + n = n + 1
      BY <2>5
    <3>4. \A i \in 2 .. n + 1 : i \in 1 .. 1 + n /\ ~(i <= 1)
      BY <2>5
    <3> QED BY <3>1, <3>2, <3>3, <3>4
  <2> HIDE DEF n
  <2>7. \A x : x \in ResourceBlocks' <=> x \in ResourceBlocks \cup {r, b}
    <3>1. \A x : x \in ResourceBlocks <=> \E i \in 1 .. n : x \in OfResource(resources[i])
      BY <1>2, ResourceBlocksAre DEF n
    <3>2. \A x : x \in ResourceBlocks' <=> \E i \in 1 .. n + 1 : x \in OfResource(resources'[i])
      <4>1. DOMAIN resources' = 1 .. n + 1
        BY <2>6, LenProperties
      <4> QED BY <4>1 DEF ResourceBlocks, OfResource
    <3>3. \A i \in 1 .. n + 1 : i = 1 \/ (i \in 2 .. n + 1 /\ i - 1 \in 1 .. n)
      BY <2>5
    <3>4. \A i \in 1 .. n : i + 1 \in 2 .. n + 1 /\ i + 1 \in 1 .. n + 1 /\ i + 1 - 1 = i
      BY <2>5
    <3>5. 1 \in 1 .. n + 1
      BY <2>5
    <3> TAKE x
    <3>6. x \in ResourceBlocks' => x \in ResourceBlocks \cup {r, b}
      BY <2>3, <2>6, <3>1, <3>2, <3>3
    <3>7. x \in ResourceBlocks => x \in ResourceBlocks'
      <4> HAVE x \in ResourceBlocks
      <4>1. PICK i \in 1 .. n : x \in OfResource(resources[i])
        BY <3>1
      <4>2. resources'[i + 1] = resources[i]
        BY <2>6, <3>4
      <4> QED BY <3>2, <3>4, <4>1, <4>2
    <3>8. x \in {r, b} => x \in ResourceBlocks'
      BY <2>3, <2>6, <3>2, <3>5
    <3> QED BY <3>6, <3>7, <3>8
  <2>8. ResourcesApart'
    <3>1. \A i \in 1 .. n : resources[i].block # resources[i].backing
      BY DEF HeapInv, ResourcesApart, n
    <3>2. \A i, j \in 1 .. n : i # j => OfResource(resources[i]) \cap OfResource(resources[j]) = {}
      BY DEF HeapInv, ResourcesApart, n
    <3>3. \A i \in 1 .. n : OfResource(resources[i]) \cap {r, b} = {}
      <4>1. \A i \in 1 .. n : OfResource(resources[i]) \subseteq ResourceBlocks
        BY <1>2, ResourceBlocksAre DEF n
      <4> QED BY <2>1, <4>1, HeapSets
    <3>4. \A i \in 1 .. n + 1 : i = 1 \/ (i \in 2 .. n + 1 /\ i - 1 \in 1 .. n)
      BY <2>5
    <3>5. \A i \in 1 .. n + 1 : resources'[i].block # resources'[i].backing
      BY <2>3, <2>6, <3>1, <3>4
    <3>6. \A i, j \in 1 .. n + 1 : i # j => OfResource(resources'[i]) \cap OfResource(resources'[j]) = {}
      <4> TAKE i, j \in 1 .. n + 1
      <4> HAVE i # j
      <4>1. CASE i = 1
        <5>1. j \in 2 .. n + 1 /\ j - 1 \in 1 .. n
          BY <3>4, <4>1
        <5> QED BY <2>3, <2>6, <3>3, <4>1, <5>1
      <4>2. CASE j = 1
        <5>1. i \in 2 .. n + 1 /\ i - 1 \in 1 .. n
          BY <3>4, <4>2
        <5> QED BY <2>3, <2>6, <3>3, <4>2, <5>1
      <4>3. CASE i # 1 /\ j # 1
        <5>1. /\ i \in 2 .. n + 1 /\ i - 1 \in 1 .. n /\ j \in 2 .. n + 1 /\ j - 1 \in 1 .. n
              /\ i - 1 # j - 1
          BY <2>5, <3>4, <4>3
        <5> QED BY <2>6, <3>2, <5>1
      <4> QED BY <4>1, <4>2, <4>3
    <3> QED BY <2>6, <3>5, <3>6 DEF ResourcesApart, OfResource
  <2>9. heap_free' = heap_free \ {r, b}
    BY <1>1, <1>6 DEF HeapAfterCreate
  <2>10. OwnersApart'
    BY <1>2, <1>3, <2>1, <2>7, HeapSets DEF HeapInv, OwnersApart
  <2>11. HeapOwned'
    BY <1>2, <1>3, <2>7, <2>9 DEF HeapInv, HeapOwned
  <2>12. HeapTypeOK'
    BY <1>2, <2>6 DEF HeapInv, HeapTypeOK
  <2> QED BY <1>4, <2>8, <2>10, <2>11, <2>12 DEF HeapInv
<1> QED BY <1>5, <1>6

\* virtio_gpu_resource_unref gives both back.
LEMMA UnrefKeeps ==
  ASSUME HeapInv, NEW k \in 1 .. MaxResources, VirtioGpuResourceUnref(k), UNCHANGED audioVars
  PROVE  HeapInv'
<1> PICK n : n = Len(resources)
  OBVIOUS
<1>1. /\ resources' = SubSeq(resources, 1, k - 1) \o SubSeq(resources, k + 1, Len(resources))
      /\ heap_free' = Kfree(OfResource(resources[k]))
      /\ UNCHANGED <<next_resource_id, clips, audio_dev, lost>>
      /\ k \in 1 .. n
  BY DEF VirtioGpuResourceUnref, OfResource, audioVars
<1>2. resources \in Seq(ResourceRecord) /\ n \in Nat /\ next_resource_id \in Nat
      /\ n = Len(resources)
  BY LenProperties DEF HeapInv, HeapTypeOK
<1>3. /\ resources' \in Seq(ResourceRecord) /\ Len(resources') = n - 1
      /\ \A j \in 1 .. n - 1 : resources'[j] = IF j < k THEN resources[j] ELSE resources[j + 1]
  <2>1. k \in 1 .. Len(resources)
    BY <1>1, <1>2
  <2>2. /\ resources' \in Seq(ResourceRecord) /\ Len(resources') = Len(resources) - 1
        /\ \A j \in 1 .. Len(resources) - 1 :
              resources'[j] = IF j < k THEN resources[j] ELSE resources[j + 1]
    <3>1. /\ resources \in Seq(ResourceRecord)
          /\ resources' = SubSeq(resources, 1, k - 1) \o SubSeq(resources, k + 1, Len(resources))
      BY <1>1, <1>2
    <3> QED BY Zenon, <2>1, <3>1, Removed
  <2> QED BY <1>2, <2>2
<1>4. DmaBlock' = DmaBlock /\ ClipBlocks' = ClipBlocks
  BY <1>1 DEF DmaBlock, ClipBlocks
<1>5. ClipsApart' /\ HeapTypeOK'
  BY <1>1, <1>2, <1>3 DEF HeapInv, ClipsApart, HeapTypeOK
<1>6. /\ \A i \in 1 .. n : resources[i].block # resources[i].backing
      /\ \A i, j \in 1 .. n : i # j => OfResource(resources[i]) \cap OfResource(resources[j]) = {}
  BY <1>2 DEF HeapInv, ResourcesApart
\* Where an element of the shorter list was.
<1> DEFINE old(j) == IF j < k THEN j ELSE j + 1
<1>7. /\ \A j \in 1 .. n - 1 : old(j) \in 1 .. n /\ old(j) # k
      /\ \A i, j \in 1 .. n - 1 : i # j => old(i) # old(j)
  BY <1>1, <1>2
<1>8. \A i \in 1 .. n : i = k \/ \E j \in 1 .. n - 1 : old(j) = i
  <2> SUFFICES ASSUME NEW i \in 1 .. n, i # k
               PROVE  \E j \in 1 .. n - 1 : old(j) = i
    OBVIOUS
  <2>1. CASE i < k
    <3>1. i \in 1 .. n - 1 /\ old(i) = i
      BY <1>1, <1>2, <2>1
    <3> QED BY <3>1
  <2>2. CASE ~(i < k)
    <3>1. i - 1 \in 1 .. n - 1 /\ old(i - 1) = i
      BY <1>1, <1>2, <2>2
    <3> QED BY <3>1
  <2> QED BY <2>1, <2>2
<1>9. \A j \in 1 .. n - 1 : resources'[j] = resources[old(j)]
  BY <1>3
<1> HIDE DEF old
<1>10. ResourcesApart'
  <2>1. \A j \in 1 .. n - 1 : resources'[j].block # resources'[j].backing
    <3> TAKE j \in 1 .. n - 1
    <3>1. resources'[j] = resources[old(j)] /\ old(j) \in 1 .. n
      BY <1>7, <1>9
    <3> QED BY <1>6, <3>1
  <2>2. \A i, j \in 1 .. n - 1 : i # j => OfResource(resources'[i]) \cap OfResource(resources'[j]) = {}
    <3> TAKE i, j \in 1 .. n - 1
    <3>1. resources'[i] = resources[old(i)] /\ old(i) \in 1 .. n
      BY <1>7, <1>9
    <3>2. resources'[j] = resources[old(j)] /\ old(j) \in 1 .. n
      BY <1>7, <1>9
    <3>3. i # j => old(i) # old(j)
      BY <1>7
    <3> QED BY <1>6, <3>1, <3>2, <3>3
  <2> QED BY <1>3, <2>1, <2>2 DEF ResourcesApart, OfResource
<1>11. \A x : x \in ResourceBlocks' <=> x \in ResourceBlocks \ OfResource(resources[k])
  <2>1. \A x : x \in ResourceBlocks <=> \E i \in 1 .. n : x \in OfResource(resources[i])
    BY <1>2, ResourceBlocksAre
  <2>2. \A x : x \in ResourceBlocks' <=> \E i \in 1 .. n - 1 : x \in OfResource(resources'[i])
    <3>1. DOMAIN resources' = 1 .. n - 1
      BY <1>3, LenProperties
    <3> QED BY <3>1 DEF ResourceBlocks, OfResource
  <2> TAKE x
  <2>3. x \in ResourceBlocks' => x \in ResourceBlocks \ OfResource(resources[k])
    <3> HAVE x \in ResourceBlocks'
    <3>1. PICK j \in 1 .. n - 1 : x \in OfResource(resources'[j])
      BY <2>2
    <3>2. x \in OfResource(resources[old(j)]) /\ old(j) \in 1 .. n /\ old(j) # k
      BY <1>7, <1>9, <3>1
    <3>3. OfResource(resources[old(j)]) \cap OfResource(resources[k]) = {}
      BY <1>1, <1>6, <3>2
    <3> QED BY <2>1, <3>2, <3>3
  <2>4. x \in ResourceBlocks \ OfResource(resources[k]) => x \in ResourceBlocks'
    <3> HAVE x \in ResourceBlocks \ OfResource(resources[k])
    <3>1. PICK i \in 1 .. n : x \in OfResource(resources[i])
      BY <2>1
    <3>2. PICK j \in 1 .. n - 1 : old(j) = i
      BY <1>8, <3>1
    <3> QED BY <1>9, <2>2, <3>1, <3>2
  <2> QED BY <2>3, <2>4
<1>12. OfResource(resources[k]) \subseteq ResourceBlocks
  BY <1>1, <1>2, ResourceBlocksAre
<1>13. heap_free' = heap_free \cup OfResource(resources[k])
  BY <1>1, <1>12, HeapSets DEF Kfree
<1>14. OwnersApart'
  BY <1>1, <1>4, <1>11 DEF HeapInv, OwnersApart
<1>15. HeapOwned'
  BY <1>1, <1>4, <1>11, <1>12, <1>13, HeapSets DEF HeapInv, HeapOwned, OwnersApart
<1> QED BY <1>5, <1>10, <1>14, <1>15 DEF HeapInv

\* audio_init: a DMA buffer that is forgotten is lost, not free.
LEMMA AudioInitKeeps ==
  ASSUME HeapInv, AudioInit, UNCHANGED gpuResVars
  PROVE  HeapInv'
<1>1. /\ lost' = lost \cup DmaBlock /\ UNCHANGED <<clips, resources, next_resource_id>>
  BY DEF AudioInit, gpuResVars
<1>2. PICK b \in heap_free \cup {NoBlock} :
        /\ audio_dev' = [initialized |-> b # NoBlock, dma_buffer |-> b]
        /\ heap_free' = heap_free \ {b}
  BY HeapSets DEF AudioInit
<1>3. DmaBlock' = {b} \ {NoBlock} /\ ClipBlocks' = ClipBlocks /\ ResourceBlocks' = ResourceBlocks
  BY <1>1, <1>2 DEF DmaBlock, ClipBlocks, ResourceBlocks
<1>4. ClipsApart' /\ ResourcesApart'
  BY <1>1 DEF HeapInv, ClipsApart, ResourcesApart
<1>5. HeapTypeOK'
  <2>1. DmaBlock \subseteq Blocks /\ b \in Blocks \cup {NoBlock}
    BY <1>2, HeapSets
  <2> QED BY <1>1, <1>2, <2>1 DEF HeapInv, HeapTypeOK
<1>6. OwnersApart'
  BY <1>1, <1>3, HeapSets DEF HeapInv, OwnersApart
<1>7. HeapOwned'
  BY <1>1, <1>2, <1>3, HeapSets DEF HeapInv, HeapOwned
<1> QED BY <1>4, <1>5, <1>6, <1>7 DEF HeapInv

\* audio_shutdown preserves the invariant of the heap's users.
LEMMA AudioShutdownKeeps ==
  ASSUME HeapInv, AudioShutdown, UNCHANGED gpuResVars
  PROVE  HeapInv'
<1>1. /\ heap_free' = heap_free \cup DmaBlock
      /\ audio_dev' = [initialized |-> FALSE, dma_buffer |-> NoBlock]
      /\ UNCHANGED <<clips, lost, resources, next_resource_id>>
  BY DEF AudioShutdown, gpuResVars, Kfree, DmaBlock
<1>2. DmaBlock' = {} /\ ClipBlocks' = ClipBlocks /\ ResourceBlocks' = ResourceBlocks
  BY <1>1 DEF DmaBlock, ClipBlocks, ResourceBlocks
<1>3. ClipsApart' /\ ResourcesApart' /\ HeapTypeOK'
  BY <1>1 DEF HeapInv, ClipsApart, ResourcesApart, HeapTypeOK
<1>4. OwnersApart'
  BY <1>1, <1>2 DEF HeapInv, OwnersApart
<1>5. HeapOwned'
  BY <1>1, <1>2, HeapSets DEF HeapInv, HeapOwned, OwnersApart
<1> QED BY <1>3, <1>4, <1>5 DEF HeapInv

\* audio_load_wav keeps two blocks when all goes well, and none otherwise.
LEMMA LoadWavKeeps ==
  ASSUME HeapInv, AudioLoadWav, UNCHANGED gpuResVars
  PROVE  HeapInv'
<1>1. UNCHANGED <<audio_dev, lost, resources, next_resource_id>>
  BY DEF AudioLoadWav, gpuResVars
<1>2. CASE heap_free' = heap_free /\ clips' = clips
  <2>1. DmaBlock' = DmaBlock /\ ClipBlocks' = ClipBlocks /\ ResourceBlocks' = ResourceBlocks
    BY <1>1, <1>2 DEF DmaBlock, ClipBlocks, ResourceBlocks
  <2>2. ClipsApart' /\ ResourcesApart' /\ HeapTypeOK'
    BY <1>1, <1>2 DEF HeapInv, ClipsApart, ResourcesApart, HeapTypeOK
  <2> QED BY <1>1, <1>2, <2>1, <2>2 DEF HeapInv, OwnersApart, HeapOwned
<1>3. ASSUME NEW data \in heap_free, NEW block \in heap_free \ {data},
             clips' = clips \cup {[block |-> block, data |-> data]},
             heap_free' = heap_free \ {data, block}
      PROVE  HeapInv'
  <2>1. DmaBlock' = DmaBlock /\ ResourceBlocks' = ResourceBlocks
    BY <1>1 DEF DmaBlock, ResourceBlocks
  <2>2. ClipBlocks' = ClipBlocks \cup {block, data}
    <3> PICK new : new = [block |-> block, data |-> data]
      OBVIOUS
    <3>1. clips' = clips \cup {new} /\ OfClip(new) = {block, data}
      BY <1>3 DEF OfClip
    <3>2. ClipBlocks = UNION {OfClip(c) : c \in clips} /\ ClipBlocks' = UNION {OfClip(c) : c \in clips'}
      BY DEF ClipBlocks, OfClip
    <3> QED BY <3>1, <3>2
  <2>3. data \in Blocks /\ block \in Blocks
    BY HeapSets
  <2>4. ResourcesApart' /\ HeapTypeOK'
    BY <1>1, <1>3, <2>3 DEF HeapInv, ResourcesApart, HeapTypeOK, Clip
  <2>5. \A c \in clips : OfClip(c) \cap {block, data} = {}
    BY HeapSets DEF ClipBlocks, OfClip
  <2>6. ClipsApart'
    BY <1>3, <2>5 DEF HeapInv, ClipsApart, OfClip
  <2>7. OwnersApart'
    BY <1>1, <2>1, <2>2, HeapSets DEF HeapInv, OwnersApart
  <2>8. HeapOwned'
    BY <1>1, <1>3, <2>1, <2>2 DEF HeapInv, HeapOwned
  <2> QED BY <2>4, <2>6, <2>7, <2>8 DEF HeapInv
<1> QED BY <1>2, <1>3 DEF AudioLoadWav, OnBadFile

\* audio_clip_free frees the record; nobody points to the file's block any more.
LEMMA ClipFreeKeeps ==
  ASSUME HeapInv, NEW clip \in clips, AudioClipFree(clip), UNCHANGED gpuResVars
  PROVE  HeapInv'
<1>1. /\ clips' = clips \ {clip} /\ lost' = lost \cup {clip.data}
      /\ UNCHANGED <<audio_dev, resources, next_resource_id>>
  BY DEF AudioClipFree, gpuResVars
<1>2. clip.block \in Blocks /\ clip.data \in Blocks /\ {clip.block, clip.data} \subseteq ClipBlocks
      /\ clip.block # clip.data
  BY DEF HeapInv, HeapTypeOK, Clip, ClipBlocks, ClipsApart
<1>3. heap_free' = heap_free \cup {clip.block}
  BY <1>2, HeapSets DEF AudioClipFree, Kfree
<1>4. DmaBlock' = DmaBlock /\ ResourceBlocks' = ResourceBlocks
  BY <1>1 DEF DmaBlock, ResourceBlocks
<1>5. ClipBlocks' = ClipBlocks \ {clip.block, clip.data}
  <2>1. \A c \in clips : c # clip => OfClip(c) \cap OfClip(clip) = {}
    BY DEF HeapInv, ClipsApart
  <2> QED BY <1>1, <2>1 DEF ClipBlocks, OfClip
<1>6. ResourcesApart' /\ ClipsApart' /\ HeapTypeOK'
  BY <1>1, <1>2 DEF HeapInv, ResourcesApart, ClipsApart, HeapTypeOK
<1>7. OwnersApart'
  BY <1>1, <1>2, <1>4, <1>5 DEF HeapInv, OwnersApart
<1>8. HeapOwned'
  BY <1>1, <1>2, <1>3, <1>4, <1>5 DEF HeapInv, HeapOwned, OwnersApart
<1> QED BY <1>6, <1>7, <1>8 DEF HeapInv

\* A step that leaves heap, resources and clips alone preserves it too.
LEMMA OtherHeapStepsKeep ==
  ASSUME HeapInv, UNCHANGED <<heap_free, resources, next_resource_id, clips, audio_dev, lost>>
  PROVE  HeapInv'
<1>1. DmaBlock' = DmaBlock /\ ClipBlocks' = ClipBlocks /\ ResourceBlocks' = ResourceBlocks
  BY DEF DmaBlock, ClipBlocks, ResourceBlocks
<1>2. ClipsApart' /\ ResourcesApart' /\ HeapTypeOK'
  BY DEF HeapInv, ClipsApart, ResourcesApart, HeapTypeOK
<1> QED BY <1>1, <1>2 DEF HeapInv, OwnersApart, HeapOwned

\* Every step of the devices preserves the invariant of the heap's users.
LEMMA HeapStep == HeapInv /\ [DevicesNext]_allVars => HeapInv'
<1> SUFFICES ASSUME HeapInv, [DevicesNext]_allVars PROVE HeapInv'
  OBVIOUS
<1>1. CASE GpuResourcesNext /\ UNCHANGED audioVars
  <2>1. CASE VirtioGpuResourceCreate2d
    BY <1>1, <2>1, CreateResourceKeeps
  <2>2. ASSUME NEW i \in 1 .. MaxResources, VirtioGpuResourceUnref(i) PROVE HeapInv'
    BY <1>1, <2>2, UnrefKeeps
  <2>3. ASSUME VirtioGpuResourceFlush \/ (\E visible \in BOOLEAN : HwCursorShow(visible))
               \/ (\E spot \in CursorPlaces : HwCursorMove(spot))
        PROVE  HeapInv'
    BY <1>1, <2>3, OtherHeapStepsKeep DEF VirtioGpuResourceFlush, HwCursorShow, HwCursorMove, audioVars
  <2> QED BY <1>1, <2>1, <2>2, <2>3 DEF GpuResourcesNext
<1>2. CASE AudioNext /\ UNCHANGED gpuResVars
  <2>1. CASE AudioInit
    BY <1>2, <2>1, AudioInitKeeps
  <2>2. CASE AudioShutdown
    BY <1>2, <2>2, AudioShutdownKeeps
  <2>3. CASE AudioWrite \/ AudioBeep
    BY <1>2, <2>3, OtherHeapStepsKeep DEF AudioWrite, AudioBeep, gpuResVars
  <2>4. CASE AudioLoadWav
    BY <1>2, <2>4, LoadWavKeeps
  <2>5. ASSUME NEW clip \in clips, AudioClipFree(clip) PROVE HeapInv'
    BY <1>2, <2>5, ClipFreeKeeps
  <2> QED BY <1>2, <2>1, <2>2, <2>3, <2>4, <2>5 DEF AudioNext
<1>3. CASE UNCHANGED <<heap_free, gpuResVars, audioVars>>
  BY <1>3, OtherHeapStepsKeep DEF gpuResVars, audioVars
<1>4. ASSUME NEW in \in Resamples, AudioResample(in), UNCHANGED gpuResVars
      PROVE  HeapInv'
  BY <1>4, OtherHeapStepsKeep DEF AudioResample, gpuResVars
<1>5. \/ GpuResourcesNext /\ UNCHANGED audioVars
      \/ AudioNext /\ UNCHANGED gpuResVars
      \/ UNCHANGED <<heap_free, gpuResVars, audioVars>>
      \/ (\E in \in Resamples : AudioResample(in)) /\ UNCHANGED gpuResVars
  BY DEF DevicesNext, PartsNext, Input, Usb, Rings, Buffers, Heap, Resampler, deviceVars, allVars
<1> QED BY <1>1, <1>2, <1>3, <1>4, <1>5

\* The pages of the frame buffers, the heap blocks of GPU resources and audio have one
\* owner each whatever fails, for any pages and blocks.
THEOREM DeviceMemoryCorrect == DevicesSpec => []DeviceMemoryOwned
<1>1. DevicesInit => HeapInv
  <2> SUFFICES ASSUME DevicesInit PROVE HeapInv
    OBVIOUS
  <2>1. /\ heap_free = Blocks /\ resources = <<>> /\ next_resource_id = 1 /\ clips = {} /\ lost = {}
        /\ audio_dev = [initialized |-> FALSE, dma_buffer |-> NoBlock]
    BY DEF DevicesInit, PartsInit, GpuResourcesInit, AudioDevInit
  <2>2. ResourceBlocks = {} /\ DmaBlock = {} /\ ClipBlocks = {}
    BY <2>1 DEF ResourceBlocks, DmaBlock, ClipBlocks
  <2>3. HeapTypeOK /\ ResourcesApart /\ ClipsApart
    BY <2>1 DEF HeapTypeOK, ResourcesApart, ClipsApart
  <2> QED BY <2>1, <2>2, <2>3 DEF HeapInv, OwnersApart, HeapOwned
<1>2. HeapInv => HeapOwned
  BY DEF HeapInv
<1> QED BY <1>1, <1>2, HeapStep, GpuPagesCorrect, PTL DEF DevicesSpec, DeviceMemoryOwned

-----------------------------------------------------------------------------
(* Indices that count modulo m, and their slots in a ring of q, of which m *)
(* is a multiple.                                                          *)

\* An index is as far behind another as their difference says.
LEMMA Distance ==
  ASSUME NEW m \in Nat \ {0}, NEW a \in 0 .. m - 1, NEW b \in 0 .. m - 1
  PROVE  /\ (a - b) % m \in 0 .. m - 1
         /\ a = (b + ((a - b) % m)) % m
         /\ (a - b) % m = 0 <=> a = b
<1> DEFINE n == (a - b) % m
<1>1. a \in Int /\ b \in Int /\ a - b \in Int
  OBVIOUS
<1>2. n \in 0 .. m - 1
  BY <1>1, DivMod
<1>3. (n + b) % m = ((a - b) + b) % m
  BY <1>1, ModAdd
<1>4. (a - b) + b = a
  BY <1>1
<1>5. a % m = a /\ b % m = b
  BY ModSmall
<1>6. a = b => n = 0
  <2> HAVE a = b
  <2>1. a - b = 0 /\ 0 \in 0 .. m - 1
    BY <1>1
  <2> QED BY <2>1, ModSmall
<1> HIDE DEF n
<1>7. n + b = b + n
  BY <1>1, <1>2
<1>8. n = 0 => n + b = b
  BY <1>1
<1>9. a = (b + n) % m
  BY <1>3, <1>4, <1>5, <1>7
<1>10. n = 0 => a = b
  BY <1>3, <1>4, <1>5, <1>8
<1> QED BY <1>2, <1>6, <1>9, <1>10 DEF n

\* The distance between two ring indices grows by one with the leading index.
LEMMA DistanceGrows ==
  ASSUME NEW m \in Nat \ {0}, NEW a \in 0 .. m - 1, NEW b \in 0 .. m - 1, (a - b) % m < m - 1
  PROVE  (((a + 1) % m) - b) % m = ((a - b) % m) + 1
<1> DEFINE n == (a - b) % m
           c == a - b
           d == a + 1
<1>1. c \in Int /\ d \in Int /\ b \in Int /\ d - b = c + 1 /\ 1 \in Int
  OBVIOUS
<1>2. n = c % m
  OBVIOUS
<1>3. b % m = b
  BY ModSmall
<1>4. n \in 0 .. m - 1 /\ n < m - 1
  BY Distance
<1> HIDE DEF c, d
<1>5. ((d % m) - (b % m)) % m = (d - b) % m
  BY <1>1, ModDiff
<1>6. ((c % m) + 1) % m = (c + 1) % m
  BY <1>1, ModAdd
<1> HIDE DEF n
<1>7. (n + 1) % m = n + 1
  <2>1. n + 1 \in 0 .. m - 1
    BY <1>4
  <2> QED BY <2>1, ModSmall
<1>8. ((d % m) - b) % m = n + 1
  BY <1>1, <1>2, <1>3, <1>5, <1>6, <1>7
<1> QED BY <1>8 DEF n, d

\* The distance between two ring indices shrinks by one with the trailing index.
LEMMA DistanceShrinks ==
  ASSUME NEW m \in Nat \ {0}, NEW a \in 0 .. m - 1, NEW b \in 0 .. m - 1, (a - b) % m > 0
  PROVE  (a - ((b + 1) % m)) % m = ((a - b) % m) - 1
<1> DEFINE n == (a - b) % m
           c == a - b
           d == b + 1
<1>1. c \in Int /\ d \in Int /\ a \in Int /\ a - d = c + (-1) /\ -1 \in Int
  OBVIOUS
<1>2. n = c % m
  OBVIOUS
<1>3. a % m = a
  BY ModSmall
<1>4. n \in 0 .. m - 1 /\ n > 0
  BY Distance
<1> HIDE DEF c, d
<1>5. ((a % m) - (d % m)) % m = (a - d) % m
  BY <1>1, ModDiff
<1>6. ((c % m) + (-1)) % m = (c + (-1)) % m
  BY <1>1, ModAdd
<1> HIDE DEF n
<1>7. (n + (-1)) % m = n - 1
  <2>1. n - 1 \in 0 .. m - 1 /\ n + (-1) = n - 1
    BY <1>4
  <2> QED BY <2>1, ModSmall
<1>8. (a - (d % m)) % m = n - 1
  BY <1>1, <1>2, <1>3, <1>5, <1>6, <1>7
<1> QED BY <1>8 DEF n, d

\* The slot i places behind index x, and that of the next index.
LEMMA SlotOfNext ==
  ASSUME NEW m \in Nat \ {0}, NEW x \in Int, NEW i \in Int
  PROVE  (((x + 1) % m) + i) % m = (x + (i + 1)) % m
<1> DEFINE y == x + 1
<1>1. y \in Int /\ y + i = x + (i + 1)
  OBVIOUS
<1> HIDE DEF y
<1>2. ((y % m) + i) % m = (y + i) % m
  BY <1>1, ModAdd
<1>3. ((y % m) + i) % m = (x + (i + 1)) % m
  BY <1>1, <1>2
<1> QED BY <1>3 DEF y

\* Less than q places apart are different slots.
LEMMA SlotsApart ==
  ASSUME NEW m \in Nat \ {0}, NEW q \in Nat \ {0}, m % q = 0,
         NEW x \in Int, NEW i \in Int, NEW j \in Int, i < j, j - i < q
  PROVE  ((x + i) % m) % q # ((x + j) % m) % q
<1> DEFINE a == x + i
           b == x + j
<1>1. a \in Int /\ b \in Int /\ a < b /\ b - a < q
  OBVIOUS
<1> HIDE DEF a, b
<1>2. (a % m) % q = a % q /\ (b % m) % q = b % q
  BY <1>1, ModMod
<1>3. a % q # b % q
  BY <1>1, ModDistinct
<1> QED BY <1>2, <1>3 DEF a, b

-----------------------------------------------------------------------------
(* The event queue of kernel/virtio_input.c.                               *)

RingIndices == 0 .. RingMod - 1

\* The descriptors in the order they go round: those with an event, then those the
\* device may fill.
InOrder(i) == IF i < Outstanding THEN UsedAt(i) ELSE AvailAt(i - Outstanding)

RingsTypeOK ==
  /\ avail \in [Descs -> Descs] /\ ring_used \in [Descs -> Descs]
  /\ event_buffers \in [Descs -> HidEvents \cup {NoInput}]
  /\ {avail_idx, seen_idx, used_idx, last_used_idx} \subseteq RingIndices
  /\ given \in Seq(HidEvents)
  /\ at \in [Takers -> {"out", "looked", "taken", "stored", "published"}]
  /\ desc_id \in [Takers -> Descs \cup {NoDesc}]

\* Each descriptor is in that order once.
Circle ==
  /\ Offered + Outstanding = QueueSize
  /\ \A i, j \in Descs : i # j => InOrder(i) # InOrder(j)
  /\ \A d \in Descs : \E i \in Descs : InOrder(i) = d

Holds(t) == at[t] \in {"looked", "taken", "stored"}

\* One taker is at work, and works on the first; what it stored is in its slot.
AtWork ==
  /\ \A t, u \in Takers : at[t] # "out" /\ at[u] # "out" => t = u
  /\ \A t \in Takers : Holds(t) => Outstanding > 0 /\ desc_id[t] = UsedAt(0)
  /\ \A t \in Takers : at[t] = "stored" => avail[avail_idx % QueueSize] = UsedAt(0)

RingsInv == ~overlapped /\ RingsTypeOK /\ Circle /\ AtWork /\ EventsInOrder

\* Nothing is claimed of calls that overlap.
RingsAlways == overlapped \/ RingsInv

\* The arithmetic of the rings that their proofs use.
LEMMA RingNumbers ==
  ASSUME RingsInv
  PROVE  /\ QueueSize \in Nat \ {0} /\ RingMod \in Nat \ {0} /\ RingMod % QueueSize = 0
         /\ RingMod > QueueSize
         /\ Outstanding \in 0 .. QueueSize /\ Offered = QueueSize - Outstanding
         /\ \A i \in {avail_idx, seen_idx, used_idx, last_used_idx, Consumed} : i \in RingIndices /\ i \in Int
<1>1. QueueSize \in Nat \ {0} /\ RingMod \in Nat \ {0} /\ RingMod % QueueSize = 0 /\ RingMod > QueueSize
  BY VirtioAssumption
<1>2. \A i \in {avail_idx, seen_idx, used_idx, last_used_idx, Consumed} : i \in RingIndices /\ i \in Int
  <2>1. {avail_idx, seen_idx, used_idx, last_used_idx} \subseteq RingIndices
    BY DEF RingsInv, RingsTypeOK
  <2>2. Consumed \in RingIndices
    <3> PICK x : x = last_used_idx + IF Published THEN 1 ELSE 0
      OBVIOUS
    <3>1. x \in Int /\ Consumed = x % RingMod
      BY <1>1, <2>1 DEF Consumed, RingIndices
    <3> QED BY <1>1, <3>1, DivMod DEF RingIndices
  <2> QED BY <1>1, <2>1, <2>2 DEF RingIndices
<1>3. Outstanding \in 0 .. RingMod - 1 /\ Offered \in 0 .. RingMod - 1
  BY <1>1, <1>2, Distance DEF Outstanding, Offered, RingIndices
<1>4. Offered + Outstanding = QueueSize
  BY DEF RingsInv, Circle
<1>5. Outstanding \in 0 .. QueueSize /\ Offered = QueueSize - Outstanding
  BY <1>1, <1>3, <1>4
<1> QED BY <1>1, <1>2, <1>5

\* Slots of a ring are places of its array.
LEMMA RingSlots ==
  ASSUME RingsInv, NEW x \in Int
  PROVE  (x % QueueSize) \in Descs /\ ((x % RingMod) % QueueSize) \in Descs
<1>1. QueueSize \in Nat \ {0} /\ RingMod \in Nat \ {0}
  BY RingNumbers
<1>2. x % RingMod \in Int
  BY <1>1, DivMod
<1> QED BY <1>1, <1>2, DivMod DEF Descs

\* The next used descriptor is one.
LEMMA FirstUsed == RingsInv => UsedAt(0) \in Descs
<1> SUFFICES ASSUME RingsInv PROVE UsedAt(0) \in Descs
  OBVIOUS
<1>1. Consumed + 0 \in Int /\ ring_used \in [Descs -> Descs]
  BY RingNumbers DEF RingsInv, RingsTypeOK
<1>2. ((Consumed + 0) % RingMod) % QueueSize \in Descs
  BY <1>1, RingSlots
<1> QED BY <1>1, <1>2 DEF UsedAt

\* The device takes the first free descriptor and puts it behind the last with an
\* event: the order stays, the boundary moves.
LEMMA DeviceKeepsOrder ==
  ASSUME RingsInv, NEW e \in HidEvents, DeviceEvent(e)
  PROVE  /\ Outstanding' = Outstanding + 1 /\ Offered' = Offered - 1 /\ Offered > 0
         /\ \A i \in Descs : InOrder(i)' = InOrder(i)
         /\ event_buffers' = [event_buffers EXCEPT ![InOrder(Outstanding)] = e]
         /\ UNCHANGED <<avail_idx, Consumed, avail>>
         /\ \A i \in 0 .. Outstanding : UsedAt(i)' = InOrder(i)
         /\ seen_idx' \in RingIndices /\ used_idx' \in RingIndices /\ ring_used' \in [Descs -> Descs]
<1>0. PICK U, O, d : U = Outstanding /\ O = Offered /\ d = avail[seen_idx % QueueSize]
  OBVIOUS
<1>1. /\ QueueSize \in Nat \ {0} /\ RingMod \in Nat \ {0} /\ RingMod % QueueSize = 0
      /\ RingMod > QueueSize
      /\ U \in 0 .. QueueSize /\ O = QueueSize - U
      /\ seen_idx \in 0 .. RingMod - 1 /\ avail_idx \in 0 .. RingMod - 1
      /\ used_idx \in 0 .. RingMod - 1 /\ Consumed \in 0 .. RingMod - 1
  BY <1>0, RingNumbers DEF RingIndices
<1>2. /\ event_buffers' = [event_buffers EXCEPT ![d] = e]
      /\ ring_used' = [ring_used EXCEPT ![used_idx % QueueSize] = d]
      /\ seen_idx' = (seen_idx + 1) % RingMod /\ used_idx' = (used_idx + 1) % RingMod
      /\ UNCHANGED <<avail_idx, Consumed, avail>>
      /\ seen_idx # avail_idx
  BY <1>0 DEF DeviceEvent, Consumed, Published
<1>3. O > 0
  <2>1. Offered # 0
    BY <1>1, <1>2, Distance DEF Offered
  <2> QED BY <1>0, <1>1, <2>1
<1>4. U < QueueSize /\ U < RingMod - 1
  BY <1>1, <1>3
<1>5. Outstanding' = U + 1
  <2>1. (used_idx - Consumed) % RingMod < RingMod - 1
    BY <1>0, <1>4 DEF Outstanding
  <2>2. (((used_idx + 1) % RingMod) - Consumed) % RingMod = ((used_idx - Consumed) % RingMod) + 1
    BY <1>1, <2>1, DistanceGrows
  <2> QED BY <1>0, <1>2, <2>2 DEF Outstanding
<1>6. Offered' = O - 1
  <2>1. (avail_idx - seen_idx) % RingMod > 0
    BY <1>0, <1>3 DEF Offered
  <2>2. (avail_idx - ((seen_idx + 1) % RingMod)) % RingMod = ((avail_idx - seen_idx) % RingMod) - 1
    BY <1>1, <2>1, DistanceShrinks
  <2> QED BY <1>0, <1>2, <2>2 DEF Offered
<1>7. used_idx = (Consumed + U) % RingMod
  BY <1>0, <1>1, Distance DEF Outstanding
<1>8. \A i \in Int : AvailAt(i)' = AvailAt(i + 1)
  <2> TAKE i \in Int
  <2>1. (((seen_idx + 1) % RingMod) + i) % RingMod = (seen_idx + (i + 1)) % RingMod
    <3>1. seen_idx \in Int
      BY <1>1
    <3> QED BY <1>1, <3>1, SlotOfNext
  <2> QED BY <1>2, <2>1 DEF AvailAt
<1>9. d = AvailAt(0)
  <2>1. seen_idx % RingMod = seen_idx /\ seen_idx + 0 = seen_idx
    BY <1>1, ModSmall
  <2> QED BY <1>0, <2>1 DEF AvailAt
<1>10. ring_used \in [Descs -> Descs] /\ avail \in [Descs -> Descs]
  BY DEF RingsInv, RingsTypeOK
<1>11. (used_idx % QueueSize) \in Descs /\ d \in Descs
  <2>1. used_idx \in Int /\ seen_idx \in Int
    BY <1>1
  <2>2. (used_idx % QueueSize) \in Descs /\ (seen_idx % QueueSize) \in Descs
    BY <2>1, RingSlots
  <2> QED BY <1>0, <1>10, <2>2
<1>12. ASSUME NEW i \in 0 .. U - 1
       PROVE  UsedAt(i)' = UsedAt(i)
  <2>1. i \in Int /\ U \in Int /\ i < U /\ U - i < QueueSize /\ Consumed \in Int
    BY <1>1, <1>4
  <2>2. ((Consumed + i) % RingMod) % QueueSize # used_idx % QueueSize
    BY <1>1, <1>7, <2>1, SlotsApart
  <2>3. ((Consumed + i) % RingMod) % QueueSize \in Descs
    <3>1. Consumed + i \in Int
      BY <2>1
    <3> QED BY <3>1, RingSlots
  <2> QED BY <1>2, <1>10, <2>2, <2>3 DEF UsedAt
<1>13. UsedAt(U)' = d
  BY <1>2, <1>7, <1>10, <1>11 DEF UsedAt
<1>14. InOrder(U) = d
  <2>1. ~(U < U) /\ U - U = 0
    BY <1>1
  <2> QED BY <1>0, <1>9, <2>1 DEF InOrder
<1>15. ASSUME NEW i \in 0 .. U
       PROVE  UsedAt(i)' = InOrder(i)
  <2>1. CASE i = U
    BY <1>13, <1>14, <2>1
  <2>2. CASE i # U
    <3>1. i \in 0 .. U - 1 /\ i < U
      BY <1>1, <2>2
    <3> QED BY <1>0, <1>12, <3>1 DEF InOrder
  <2> QED BY <2>1, <2>2
<1>16. ASSUME NEW i \in Descs
       PROVE  InOrder(i)' = InOrder(i)
  <2>1. i \in Int /\ i >= 0
    BY <1>1 DEF Descs
  <2>2. CASE i <= U
    <3>1. i \in 0 .. U /\ i < U + 1
      BY <1>1, <2>1, <2>2
    <3>2. InOrder(i)' = UsedAt(i)'
      BY <1>5, <3>1 DEF InOrder
    <3> QED BY <1>15, <3>1, <3>2
  <2>3. CASE ~(i <= U)
    <3>1. ~(i < U + 1) /\ ~(i < U) /\ i - (U + 1) \in Int /\ i - (U + 1) + 1 = i - U
      BY <1>1, <2>1, <2>3
    <3>2. InOrder(i)' = AvailAt(i - (U + 1))'
      BY <1>5, <3>1 DEF InOrder, AvailAt
    <3>3. AvailAt(i - (U + 1))' = AvailAt(i - U)
      BY <1>8, <3>1
    <3>4. InOrder(i) = AvailAt(i - U)
      BY <1>0, <3>1 DEF InOrder
    <3> QED BY <3>2, <3>3, <3>4
  <2> QED BY <2>2, <2>3
<1>17. seen_idx' \in RingIndices /\ used_idx' \in RingIndices
  <2> PICK x, y : x = seen_idx + 1 /\ y = used_idx + 1
    OBVIOUS
  <2>1. x \in Int /\ y \in Int
    BY <1>1
  <2> QED BY <1>1, <1>2, <2>1, DivMod DEF RingIndices
<1>18. ring_used' \in [Descs -> Descs]
  BY <1>2, <1>10, <1>11
<1> QED BY <1>0, <1>2, <1>3, <1>5, <1>6, <1>14, <1>15, <1>16, <1>17, <1>18

\* The driver gives the first descriptor back: it goes to the end.
LEMMA GiveBackTurnsOrder ==
  ASSUME RingsInv, Outstanding > 0, avail' = Returned(UsedAt(0)),
         avail_idx' = (avail_idx + 1) % RingMod, Consumed' = (Consumed + 1) % RingMod,
         UNCHANGED <<seen_idx, ring_used, used_idx, event_buffers>>
  PROVE  /\ Outstanding' = Outstanding - 1 /\ Offered' = Offered + 1
         /\ \A i \in 0 .. QueueSize - 2 : InOrder(i)' = InOrder(i + 1)
         /\ InOrder(QueueSize - 1)' = InOrder(0)
         /\ \A i \in Int : UsedAt(i)' = UsedAt(i + 1)
         /\ avail_idx' \in RingIndices /\ Consumed' \in RingIndices /\ avail' \in [Descs -> Descs]
<1>0. PICK U, O, d : U = Outstanding /\ O = Offered /\ d = UsedAt(0)
  OBVIOUS
<1>1. /\ QueueSize \in Nat \ {0} /\ RingMod \in Nat \ {0} /\ RingMod % QueueSize = 0
      /\ RingMod > QueueSize
      /\ U \in 1 .. QueueSize /\ O = QueueSize - U
      /\ seen_idx \in 0 .. RingMod - 1 /\ avail_idx \in 0 .. RingMod - 1
      /\ used_idx \in 0 .. RingMod - 1 /\ Consumed \in 0 .. RingMod - 1
  BY <1>0, RingNumbers DEF RingIndices
<1>2. O < QueueSize /\ O < RingMod - 1 /\ O \in Nat /\ O \in Int /\ U \in Int
  BY <1>1
<1>3. Outstanding' = U - 1
  <2>1. (used_idx - Consumed) % RingMod > 0
    BY <1>0, <1>1 DEF Outstanding
  <2>2. (used_idx - ((Consumed + 1) % RingMod)) % RingMod = ((used_idx - Consumed) % RingMod) - 1
    BY <1>1, <2>1, DistanceShrinks
  <2> QED BY <1>0, <2>2 DEF Outstanding
<1>4. Offered' = O + 1
  <2>1. (avail_idx - seen_idx) % RingMod < RingMod - 1
    BY <1>0, <1>2 DEF Offered
  <2>2. (((avail_idx + 1) % RingMod) - seen_idx) % RingMod = ((avail_idx - seen_idx) % RingMod) + 1
    BY <1>1, <2>1, DistanceGrows
  <2> QED BY <1>0, <2>2 DEF Offered
<1>5. avail_idx = (seen_idx + O) % RingMod
  BY <1>0, <1>1, Distance DEF Offered
<1>6. \A i \in Int : UsedAt(i)' = UsedAt(i + 1)
  <2> TAKE i \in Int
  <2>1. (((Consumed + 1) % RingMod) + i) % RingMod = (Consumed + (i + 1)) % RingMod
    <3>1. Consumed \in Int
      BY <1>1
    <3> QED BY <1>1, <3>1, SlotOfNext
  <2> QED BY <2>1 DEF UsedAt
<1>7. ring_used \in [Descs -> Descs] /\ avail \in [Descs -> Descs]
  BY DEF RingsInv, RingsTypeOK
<1>8. (avail_idx % QueueSize) \in Descs /\ d \in Descs
  <2>1. avail_idx \in Int /\ Consumed \in Int /\ Consumed + 0 \in Int
    BY <1>1
  <2>2. (avail_idx % QueueSize) \in Descs /\ ((Consumed + 0) % RingMod) % QueueSize \in Descs
    BY <2>1, RingSlots
  <2> QED BY <1>0, <1>7, <2>2 DEF UsedAt
<1>9. avail' = [avail EXCEPT ![avail_idx % QueueSize] = d]
  BY <1>0 DEF Returned
<1>10. ASSUME NEW i \in 0 .. O - 1
       PROVE  AvailAt(i)' = AvailAt(i)
  <2>1. i \in Int /\ i < O /\ O - i < QueueSize /\ seen_idx \in Int
    BY <1>1, <1>2
  <2>2. ((seen_idx + i) % RingMod) % QueueSize # avail_idx % QueueSize
    <3>1. ((seen_idx + i) % RingMod) % QueueSize # ((seen_idx + O) % RingMod) % QueueSize
      <4>1. O \in Int
        BY <1>2
      <4> QED BY <1>1, <2>1, <4>1, SlotsApart
    <3> QED BY Zenon, <1>5, <3>1
  <2>3. ((seen_idx + i) % RingMod) % QueueSize \in Descs
    <3>1. seen_idx + i \in Int
      BY <2>1
    <3> QED BY <3>1, RingSlots
  <2> QED BY <1>7, <1>9, <2>2, <2>3 DEF AvailAt
<1>11. AvailAt(O)' = d
  BY <1>5, <1>7, <1>8, <1>9 DEF AvailAt
<1>12. ASSUME NEW i \in 0 .. QueueSize - 2
       PROVE  InOrder(i)' = InOrder(i + 1)
  <2>1. i \in Int /\ i >= 0 /\ i + 1 \in Int
    BY <1>1
  <2>2. CASE i < U - 1
    <3>1. i + 1 < U
      BY <1>1, <2>1, <2>2
    <3>2. InOrder(i)' = UsedAt(i)'
      BY <1>3, <2>2 DEF InOrder
    <3> QED BY <1>0, <1>6, <2>1, <3>1, <3>2 DEF InOrder
  <2>3. CASE ~(i < U - 1)
    <3>1. ~(i + 1 < U) /\ i - (U - 1) = i + 1 - U /\ i + 1 - U \in 0 .. O - 1
      BY <1>1, <2>1, <2>3
    <3>2. InOrder(i)' = AvailAt(i - (U - 1))'
      BY <1>3, <2>3 DEF InOrder, AvailAt
    <3>3. AvailAt(i + 1 - U)' = AvailAt(i + 1 - U)
      BY <1>10, <3>1
    <3>4. InOrder(i + 1) = AvailAt(i + 1 - U)
      <4> PICK k : k = i + 1
        OBVIOUS
      <4>1. ~(k < U) /\ InOrder(k) = IF k < U THEN UsedAt(k) ELSE AvailAt(k - U)
        BY <1>0, <3>1 DEF InOrder
      <4> QED BY <1>2, <2>1, <4>1
    <3> QED BY <3>1, <3>2, <3>3, <3>4
  <2> QED BY <2>2, <2>3
<1>13. InOrder(QueueSize - 1)' = InOrder(0)
  <2>1. ~(QueueSize - 1 < U - 1) /\ QueueSize - 1 - (U - 1) = O /\ 0 < U
    BY <1>1
  <2>2. InOrder(QueueSize - 1)' = AvailAt(O)'
    BY <1>3, <2>1 DEF InOrder, AvailAt
  <2>3. InOrder(0) = UsedAt(0)
    BY <1>0, <2>1 DEF InOrder
  <2> QED BY <1>0, <1>11, <2>2, <2>3
<1>14. avail_idx' \in RingIndices /\ Consumed' \in RingIndices
  <2> PICK x, y : x = avail_idx + 1 /\ y = Consumed + 1
    OBVIOUS
  <2>1. x \in Int /\ y \in Int
    BY <1>1
  <2> QED BY <1>1, <2>1, DivMod DEF RingIndices
<1>15. avail' \in [Descs -> Descs]
  BY <1>7, <1>8, <1>9
<1> QED BY <1>0, <1>3, <1>4, <1>6, <1>12, <1>13, <1>14, <1>15

\* The order stays one when it is turned.
LEMMA TurnedCircle ==
  ASSUME RingsInv, Outstanding > 0, Outstanding' = Outstanding - 1, Offered' = Offered + 1,
         \A i \in 0 .. QueueSize - 2 : InOrder(i)' = InOrder(i + 1),
         InOrder(QueueSize - 1)' = InOrder(0)
  PROVE  Circle'
<1>1. QueueSize \in Nat \ {0} /\ Offered + Outstanding = QueueSize /\ Outstanding \in Int /\ Offered \in Int
  <2>1. QueueSize \in Nat \ {0} /\ Outstanding \in 0 .. QueueSize /\ Offered = QueueSize - Outstanding
    BY RingNumbers
  <2> QED BY <2>1
<1> DEFINE old(i) == IF i = QueueSize - 1 THEN 0 ELSE i + 1
<1>2. \A i \in Descs : old(i) \in Descs /\ \A j \in Descs : i # j => old(i) # old(j)
  BY <1>1 DEF Descs
<1>3. \A i \in Descs : \E j \in Descs : old(j) = i
  <2> TAKE i \in Descs
  <2>1. CASE i = 0
    <3>1. QueueSize - 1 \in Descs /\ old(QueueSize - 1) = i
      BY <1>1, <2>1 DEF Descs
    <3> QED BY <3>1
  <2>2. CASE i # 0
    <3>1. i - 1 \in Descs /\ old(i - 1) = i
      BY <1>1, <2>2 DEF Descs
    <3> QED BY <3>1
  <2> QED BY <2>1, <2>2
<1>4. \A i \in Descs : InOrder(i)' = InOrder(old(i))
  <2> TAKE i \in Descs
  <2>1. CASE i = QueueSize - 1
    BY <2>1
  <2>2. CASE i # QueueSize - 1
    <3>1. i \in 0 .. QueueSize - 2
      BY <1>1, <2>2 DEF Descs
    <3> QED BY <2>2, <3>1
  <2> QED BY <2>1, <2>2
<1> HIDE DEF old
<1>5. /\ \A i, j \in Descs : i # j => InOrder(i) # InOrder(j)
      /\ \A d \in Descs : \E i \in Descs : InOrder(i) = d
  BY DEF RingsInv, Circle
<1>6. \A i, j \in Descs : i # j => InOrder(i)' # InOrder(j)'
  BY <1>2, <1>4, <1>5
<1>7. \A d \in Descs : \E i \in Descs : InOrder(i)' = d
  BY <1>3, <1>4, <1>5
<1>8. Offered' + Outstanding' = QueueSize
  BY <1>1
<1> QED BY <1>6, <1>7, <1>8 DEF Circle, Descs, InOrder

\* An event the device reports preserves the invariant of the rings.
LEMMA DeviceEventKeeps ==
  ASSUME RingsInv, NEW e \in HidEvents, DeviceEvent(e)
  PROVE  RingsInv'
<1>0. PICK U, read : U = Outstanding /\ read = IF Taken THEN 1 ELSE 0
  OBVIOUS
<1>1. /\ Outstanding' = U + 1 /\ Offered' = Offered - 1 /\ Offered > 0
      /\ \A i \in Descs : InOrder(i)' = InOrder(i)
      /\ event_buffers' = [event_buffers EXCEPT ![InOrder(U)] = e]
      /\ UNCHANGED <<avail_idx, Consumed, avail>>
      /\ \A i \in 0 .. U : UsedAt(i)' = InOrder(i)
      /\ seen_idx' \in RingIndices /\ used_idx' \in RingIndices /\ ring_used' \in [Descs -> Descs]
  BY <1>0, DeviceKeepsOrder
<1>2. QueueSize \in Nat \ {0} /\ U \in 0 .. QueueSize /\ Offered = QueueSize - U /\ U < QueueSize
  BY <1>0, <1>1, RingNumbers
<1>3. /\ \A i, j \in Descs : i # j => InOrder(i) # InOrder(j)
      /\ \A d \in Descs : \E i \in Descs : InOrder(i) = d
  BY <1>0 DEF RingsInv, Circle
<1>4. U \in Descs /\ 0 \in Descs /\ \A i \in 0 .. U - 1 : i \in Descs /\ i # U /\ i \in 0 .. U
  BY <1>2 DEF Descs
<1>5. \A i \in 0 .. U - 1 : InOrder(i) = UsedAt(i)
  <2>1. \A i \in 0 .. U - 1 : i < U
    BY <1>2
  <2> QED BY <1>0, <2>1 DEF InOrder
<1>6. Circle'
  <2>1. Offered' + Outstanding' = QueueSize
    BY <1>1, <1>2
  <2>2. \A i, j \in Descs : i # j => InOrder(i)' # InOrder(j)'
    BY <1>1, <1>3
  <2>3. \A d \in Descs : \E i \in Descs : InOrder(i)' = d
    BY <1>1, <1>3
  <2> QED BY <2>1, <2>2, <2>3 DEF Circle, Descs, InOrder
<1>16. /\ UNCHANGED <<avail, avail_idx, last_used_idx, at, desc_id, overlapped>> /\ ~overlapped
       /\ at \in [Takers -> {"out", "looked", "taken", "stored", "published"}]
       /\ desc_id \in [Takers -> Descs \cup {NoDesc}]
  BY DEF DeviceEvent, RingsInv, RingsTypeOK
<1>17. AtWork'
  <2>1. /\ \A t, u \in Takers : at[t] # "out" /\ at[u] # "out" => t = u
        /\ \A t \in Takers : Holds(t) => U > 0 /\ desc_id[t] = UsedAt(0)
        /\ \A t \in Takers : at[t] = "stored" => Holds(t) /\ avail[avail_idx % QueueSize] = UsedAt(0)
    BY <1>0 DEF RingsInv, AtWork, Holds
  <2>2. U > 0 => UsedAt(0)' = UsedAt(0)
    <3>1. U > 0 => 0 \in 0 .. U - 1 /\ 0 \in 0 .. U
      BY <1>2
    <3> QED BY <1>1, <1>5, <3>1
  <2>3. U + 1 > 0
    BY <1>2
  <2>4. /\ \A t \in Takers : Holds(t) => U + 1 > 0 /\ desc_id[t] = UsedAt(0)'
        /\ \A t \in Takers : at[t] = "stored" => avail[avail_idx % QueueSize] = UsedAt(0)'
    BY <2>1, <2>2, <2>3
  <2>5. /\ Outstanding' > 0
        /\ \A t \in Takers : Holds(t)' <=> Holds(t)
    BY <1>1, <1>16, <2>3 DEF Holds
  <2> QED BY <1>16, <2>1, <2>4, <2>5 DEF AtWork
<1>7. /\ given' = Append(given, e) /\ given \in Seq(HidEvents)
      /\ event_buffers \in [Descs -> HidEvents \cup {NoInput}]
  BY DEF DeviceEvent, RingsInv, RingsTypeOK, Kept
<1>8. InOrder(U) \in Descs
  <2>1. InOrder(U) \in {UsedAt(U), AvailAt(U - Outstanding)}
    BY DEF InOrder
  <2>2. InOrder(U) = AvailAt(0)
    <3>1. ~(U < U) /\ U - U = 0
      BY <1>2
    <3> QED BY <1>0, <3>1 DEF InOrder
  <2>3. seen_idx + 0 \in Int /\ avail \in [Descs -> Descs]
    BY RingNumbers DEF RingsInv, RingsTypeOK
  <2>4. ((seen_idx + 0) % RingMod) % QueueSize \in Descs
    BY <2>3, RingSlots
  <2> QED BY <2>2, <2>3, <2>4 DEF AvailAt
<1>9. RingsTypeOK'
  <2>1. event_buffers' \in [Descs -> HidEvents \cup {NoInput}]
    BY <1>1, <1>7
  <2>2. given' \in Seq(HidEvents)
    BY <1>7
  <2>3. avail \in [Descs -> Descs] /\ {avail_idx, last_used_idx} \subseteq RingIndices
    BY DEF RingsInv, RingsTypeOK
  <2>4. avail' \in [Descs -> Descs] /\ {avail_idx', seen_idx', used_idx', last_used_idx'} \subseteq RingIndices
    BY <1>1, <1>16, <2>3
  <2>5. /\ at' \in [Takers -> {"out", "looked", "taken", "stored", "published"}]
        /\ desc_id' \in [Takers -> Descs \cup {NoDesc}]
    BY <1>16
  <2> QED BY <1>1, <2>1, <2>2, <2>4, <2>5 DEF RingsTypeOK, Descs, RingIndices, NoDesc
<1>10. EventsInOrder'
  <2>1. /\ Len(given) = U - read /\ read \in {0, 1} /\ Len(given) \in Nat
        /\ \A i \in 1 .. Len(given) : given[i] = event_buffers[UsedAt(i - 1 + read)]
    <3>1. Len(given) \in Nat
      BY <1>7, LenProperties
    <3>2. read \in {0, 1}
      BY <1>0
    <3> QED BY <1>0, <3>1, <3>2 DEF RingsInv, EventsInOrder
  <2> PICK n : n = Len(given)
    OBVIOUS
  <2>2. /\ Len(given') = n + 1 /\ given'[n + 1] = e
        /\ \A i \in 1 .. n : given'[i] = given[i]
    BY <1>7
  <2>3. n + 1 = (U + 1) - read
    BY <1>2, <2>1
  <2>4. ASSUME NEW i \in 1 .. n + 1
        PROVE  given'[i] = event_buffers'[UsedAt(i - 1 + read)']
    <3>1. CASE i = n + 1
      <4>1. i - 1 + read = U /\ U \in 0 .. U
        BY <1>2, <2>1, <3>1
      <4>2. UsedAt(U)' = InOrder(U)
        BY <1>1, <4>1
      <4>3. UsedAt(i - 1 + read)' = UsedAt(U)'
        BY <4>1 DEF UsedAt
      <4> QED BY <1>1, <1>7, <1>8, <2>2, <3>1, <4>2, <4>3
    <3>2. CASE i # n + 1
      <4>1. i \in 1 .. n /\ i - 1 + read \in 0 .. U - 1
        BY <1>2, <2>1, <3>2
      <4> PICK k : k = i - 1 + read
        OBVIOUS
      <4>2. k \in Descs /\ k # U /\ k \in 0 .. U /\ UsedAt(k)' = InOrder(k) /\ UsedAt(k) = InOrder(k)
        BY <1>1, <1>4, <1>5, <4>1
      <4>3. InOrder(k) # InOrder(U)
        BY <1>3, <1>4, <4>2
      <4>4. given'[i] = event_buffers[InOrder(k)]
        BY <2>1, <2>2, <4>1, <4>2
      <4>5. event_buffers'[InOrder(k)] = event_buffers[InOrder(k)]
        <5>1. InOrder(k) \in Descs
          <6>1. Consumed + k \in Int /\ ring_used \in [Descs -> Descs]
            BY <1>2, <4>1, RingNumbers DEF RingsInv, RingsTypeOK
          <6>2. ((Consumed + k) % RingMod) % QueueSize \in Descs
            BY <6>1, RingSlots
          <6>3. UsedAt(k) \in Descs
            BY <6>1, <6>2 DEF UsedAt
          <6> QED BY <4>2, <6>3
        <5> QED BY <1>1, <1>7, <4>3, <5>1
      <4> QED BY <4>2, <4>4, <4>5
    <3> QED BY <3>1, <3>2
  <2>5. read = IF Taken' THEN 1 ELSE 0
    BY <1>0, <1>16 DEF Taken
  <2>6. Len(given') = Outstanding' - read
    BY <1>1, <2>2, <2>3
  <2>7. \A i \in 1 .. Len(given') : given'[i] = event_buffers'[UsedAt(i - 1 + read)']
    BY <2>2, <2>4
  <2> QED BY <2>5, <2>6, <2>7 DEF EventsInOrder, UsedAt
<1>11. ~overlapped'
  BY <1>16
<1> QED BY <1>6, <1>9, <1>10, <1>11, <1>17 DEF RingsInv

\* Nobody at work: an event is there exactly when one is outstanding.
LEMMA SomeOutstanding ==
  ASSUME RingsInv, Busy = {}
  PROVE  /\ HasEvent <=> Outstanding > 0
         /\ NextUsed = UsedAt(0) /\ Consumed = last_used_idx
<1>1. RingMod \in Nat \ {0} /\ Outstanding \in Nat
      /\ used_idx \in 0 .. RingMod - 1 /\ last_used_idx \in 0 .. RingMod - 1
  BY RingNumbers DEF RingIndices
<1>2. last_used_idx + 0 = last_used_idx /\ last_used_idx % RingMod = last_used_idx
  BY <1>1, ModSmall
<1>3. Consumed = last_used_idx
  <2>1. ~Published
    BY DEF Busy, Published
  <2> QED BY <1>2, <2>1 DEF Consumed
<1>4. Outstanding = 0 <=> used_idx = last_used_idx
  BY <1>1, <1>3, Distance DEF Outstanding
<1>5. NextUsed = UsedAt(0)
  BY <1>2, <1>3 DEF NextUsed, UsedAt
<1> QED BY <1>1, <1>3, <1>4, <1>5 DEF HasEvent

\* A taker moves to another statement.
LEMMA TakerGoes ==
  ASSUME RingsInv, NEW t \in Takers, NEW from, NEW to \in {"out", "looked", "taken", "stored", "published"},
         Goes(t, from, to), from # "out" \/ Busy = {}
  PROVE  /\ at' \in [Takers -> {"out", "looked", "taken", "stored", "published"}]
         /\ at'[t] = to /\ at[t] = from
         /\ \A u \in Takers : u # t => at[u] = "out" /\ at'[u] = "out"
<1>1. at \in [Takers -> {"out", "looked", "taken", "stored", "published"}]
  BY DEF RingsInv, RingsTypeOK
<1>2. at' = [at EXCEPT ![t] = to] /\ at[t] = from
  BY DEF Goes
<1>3. \A u \in Takers : u # t => at[u] = "out"
  <2>1. CASE from # "out"
    BY <1>2, <2>1 DEF RingsInv, AtWork
  <2>2. CASE Busy = {}
    BY <2>2 DEF Busy
  <2> QED BY <2>1, <2>2
<1> QED BY <1>1, <1>2, <1>3

\* The order stays when rings and indices do.
LEMMA OrderStays ==
  ASSUME RingsInv, UNCHANGED <<avail, avail_idx, seen_idx, ring_used, used_idx>>, Consumed' = Consumed
  PROVE  /\ Outstanding' = Outstanding /\ Offered' = Offered
         /\ \A i : UsedAt(i)' = UsedAt(i)
         /\ Circle'
<1>1. /\ Outstanding' = Outstanding /\ Offered' = Offered
      /\ \A i : UsedAt(i)' = UsedAt(i) /\ AvailAt(i)' = AvailAt(i)
  BY DEF Outstanding, Offered, UsedAt, AvailAt
<1>2. \A i : InOrder(i)' = InOrder(i)
  BY <1>1 DEF InOrder, Outstanding
<1> QED BY <1>1, <1>2 DEF RingsInv, Circle

\* A taker that looks while nobody is at work preserves the invariant of the rings.
LEMMA LookKeeps ==
  ASSUME RingsInv, NEW t \in Takers, PollLook(t), Busy = {}
  PROVE  RingsInv'
<1>1. /\ Goes(t, "out", "looked") /\ desc_id' = [desc_id EXCEPT ![t] = NextUsed]
      /\ given' = given /\ ~overlapped'
      /\ UNCHANGED <<avail, avail_idx, seen_idx, ring_used, used_idx, last_used_idx, event_buffers>>
  BY DEF PollLook, RingsInv
<1>2. /\ at' \in [Takers -> {"out", "looked", "taken", "stored", "published"}]
      /\ at'[t] = "looked" /\ at[t] = "out"
      /\ \A u \in Takers : u # t => at[u] = "out" /\ at'[u] = "out"
  BY <1>1, TakerGoes
<1>3. Outstanding > 0 /\ NextUsed = UsedAt(0)
  BY SomeOutstanding DEF PollLook
<1>4. Consumed' = Consumed
  BY <1>1, <1>2 DEF Consumed, Published
<1>5. Outstanding' = Outstanding /\ (\A i : UsedAt(i)' = UsedAt(i)) /\ Circle'
  BY <1>1, <1>4, OrderStays
<1>6. UsedAt(0) \in Descs
  BY FirstUsed
<1>7. desc_id' \in [Takers -> Descs \cup {NoDesc}] /\ desc_id'[t] = UsedAt(0)
  BY <1>1, <1>3, <1>6 DEF RingsInv, RingsTypeOK
<1>8. AtWork'
  <2>1. \A u \in Takers : at'[u] # "out" => u = t
    BY <1>2
  <2> QED BY <1>2, <1>3, <1>5, <1>7, <2>1 DEF AtWork, Holds
<1>9. EventsInOrder'
  <2>1. ~Taken /\ ~Taken'
    BY <1>2 DEF Taken
  <2> QED BY <1>1, <1>5, <2>1 DEF RingsInv, EventsInOrder
<1>10. RingsTypeOK'
  BY <1>1, <1>2, <1>7 DEF RingsInv, RingsTypeOK, Descs, NoDesc, RingIndices
<1> QED BY <1>1, <1>5, <1>8, <1>9, <1>10 DEF RingsInv

\* An event the driver takes preserves the invariant of the rings.
LEMMA TakeKeeps ==
  ASSUME RingsInv, NEW t \in Takers, PollTake(t)
  PROVE  RingsInv'
<1>1. /\ Goes(t, "looked", "taken") /\ given' = Tail(given) /\ ~overlapped'
      /\ UNCHANGED <<avail, avail_idx, seen_idx, ring_used, used_idx, last_used_idx, event_buffers, desc_id>>
  BY DEF PollTake, RingsInv, Kept
<1>2. /\ at' \in [Takers -> {"out", "looked", "taken", "stored", "published"}]
      /\ at'[t] = "taken" /\ at[t] = "looked"
      /\ \A u \in Takers : u # t => at[u] = "out" /\ at'[u] = "out"
  BY <1>1, TakerGoes
<1>3. Consumed' = Consumed
  BY <1>1, <1>2 DEF Consumed, Published
<1>4. Outstanding' = Outstanding /\ (\A i : UsedAt(i)' = UsedAt(i)) /\ Circle'
  BY <1>1, <1>3, OrderStays
<1>5. Outstanding \in Nat /\ Outstanding > 0 /\ desc_id[t] = UsedAt(0)
  BY <1>2, RingNumbers DEF RingsInv, AtWork, Holds
<1>6. ~Taken /\ Taken'
  BY <1>2 DEF Taken
<1>7. /\ given \in Seq(HidEvents) /\ Len(given) = Outstanding - 0
      /\ \A i \in 1 .. Len(given) : given[i] = event_buffers[UsedAt(i - 1 + 0)]
  BY <1>6 DEF RingsInv, EventsInOrder, RingsTypeOK
<1>8. given # <<>>
  BY <1>5, <1>7, EmptySeq
<1>9. /\ given' \in Seq(HidEvents) /\ Len(given') = Len(given) - 1
      /\ \A i \in 1 .. Len(given') : given'[i] = given[i + 1]
  BY <1>1, <1>7, <1>8, HeadTailProperties
<1>10. AtWork'
  <2>1. \A u \in Takers : at'[u] # "out" => u = t
    BY <1>2
  <2> QED BY <1>1, <1>2, <1>4, <1>5, <2>1 DEF AtWork, Holds
<1>11. RingsTypeOK'
  BY <1>1, <1>2, <1>9 DEF RingsInv, RingsTypeOK, Descs, NoDesc, RingIndices
<1>12. EventsInOrder'
  <2>1. Len(given') = Outstanding - 1
    BY <1>5, <1>7, <1>9
  <2>2. ASSUME NEW i \in 1 .. Len(given')
        PROVE  given'[i] = event_buffers[UsedAt(i - 1 + 1)]
    <3>1. i + 1 \in 1 .. Len(given) /\ i + 1 - 1 + 0 = i - 1 + 1
      BY <1>5, <1>7, <1>9
    <3> PICK k : k = i + 1
      OBVIOUS
    <3>2. given[k] = event_buffers[UsedAt(k - 1 + 0)]
      BY <1>7, <3>1
    <3>3. UsedAt(k - 1 + 0) = UsedAt(i - 1 + 1)
      BY <3>1
    <3> QED BY <1>9, <3>2, <3>3
  <2> QED BY <1>1, <1>4, <1>6, <2>1, <2>2 DEF EventsInOrder
<1> QED BY <1>1, <1>4, <1>10, <1>11, <1>12 DEF RingsInv

\* A descriptor written behind the last preserves the invariant of the rings.
LEMMA StoreKeepsRings ==
  ASSUME RingsInv, NEW t \in Takers, PollStore(t)
  PROVE  RingsInv'
<1>1. /\ Goes(t, "taken", "stored") /\ avail' = Returned(desc_id[t]) /\ ~overlapped'
      /\ UNCHANGED <<avail_idx, seen_idx, ring_used, used_idx, last_used_idx, event_buffers, desc_id, given>>
  BY DEF PollStore, RingsInv
<1>2. /\ at' \in [Takers -> {"out", "looked", "taken", "stored", "published"}]
      /\ at'[t] = "stored" /\ at[t] = "taken"
      /\ \A u \in Takers : u # t => at[u] = "out" /\ at'[u] = "out"
  BY <1>1, TakerGoes
<1>3. Consumed' = Consumed
  BY <1>1, <1>2 DEF Consumed, Published
<1>4. Outstanding > 0 /\ desc_id[t] = UsedAt(0) /\ UsedAt(0) \in Descs
  BY <1>2, FirstUsed DEF RingsInv, AtWork, Holds
<1>0. PICK O, U : O = Offered /\ U = Outstanding
  OBVIOUS
<1>5. /\ QueueSize \in Nat \ {0} /\ RingMod \in Nat \ {0} /\ RingMod % QueueSize = 0
      /\ O \in 0 .. QueueSize - 1 /\ O \in Int /\ U \in 0 .. QueueSize /\ O = QueueSize - U
      /\ seen_idx \in 0 .. RingMod - 1 /\ avail_idx \in 0 .. RingMod - 1 /\ seen_idx \in Int
  BY <1>0, <1>4, RingNumbers DEF RingIndices
<1>6. avail_idx = (seen_idx + O) % RingMod
  BY <1>0, <1>5, Distance DEF Offered
<1>7. avail \in [Descs -> Descs] /\ (avail_idx % QueueSize) \in Descs
  <2>1. avail_idx \in Int
    BY <1>5
  <2> QED BY <2>1, RingSlots DEF RingsInv, RingsTypeOK
<1>8. avail' = [avail EXCEPT ![avail_idx % QueueSize] = UsedAt(0)]
  BY <1>1, <1>4 DEF Returned
<1>9. ASSUME NEW i \in 0 .. O - 1
      PROVE  AvailAt(i)' = AvailAt(i)
  <2>1. i \in Int /\ i < O /\ O - i < QueueSize
    BY <1>5
  <2>2. ((seen_idx + i) % RingMod) % QueueSize # avail_idx % QueueSize
    <3>1. ((seen_idx + i) % RingMod) % QueueSize # ((seen_idx + O) % RingMod) % QueueSize
      BY <1>5, <2>1, SlotsApart
    <3> QED BY Zenon, <1>6, <3>1
  <2>3. ((seen_idx + i) % RingMod) % QueueSize \in Descs
    <3>1. seen_idx + i \in Int
      BY <1>5, <2>1
    <3> QED BY <3>1, RingSlots
  <2> QED BY <1>1, <1>7, <1>8, <2>2, <2>3 DEF AvailAt
<1>10. Outstanding' = Outstanding /\ Offered' = Offered /\ \A i : UsedAt(i)' = UsedAt(i)
  BY <1>1, <1>3 DEF Outstanding, Offered, UsedAt
<1>11. \A i \in Descs : InOrder(i)' = InOrder(i)
  <2> TAKE i \in Descs
  <2>1. CASE i < U
    <3>1. i < Outstanding /\ i < Outstanding'
      BY <1>0, <1>10, <2>1
    <3> QED BY <1>10, <3>1 DEF InOrder
  <2>2. CASE ~(i < U)
    <3>1. i - U \in 0 .. O - 1
      BY <1>5, <2>2 DEF Descs
    <3>2. ~(i < Outstanding) /\ ~(i < Outstanding')
      BY <1>0, <1>10, <2>2
    <3>3. InOrder(i)' = AvailAt(i - U)'
      BY <1>0, <1>10, <3>2 DEF InOrder, AvailAt
    <3>4. InOrder(i) = AvailAt(i - U)
      BY <1>0, <3>2 DEF InOrder
    <3> QED BY <1>9, <3>1, <3>3, <3>4
  <2> QED BY <2>1, <2>2
<1>12. Circle'
  <2>1. /\ Offered + Outstanding = QueueSize
        /\ \A i, j \in Descs : i # j => InOrder(i) # InOrder(j)
        /\ \A d \in Descs : \E i \in Descs : InOrder(i) = d
    BY DEF RingsInv, Circle
  <2>2. \A i, j \in Descs : i # j => InOrder(i)' # InOrder(j)'
    BY <1>11, <2>1
  <2>3. \A d \in Descs : \E i \in Descs : InOrder(i)' = d
    BY <1>11, <2>1
  <2> QED BY <1>10, <2>1, <2>2, <2>3 DEF Circle, Descs, InOrder
<1>13. AtWork'
  <2>1. \A u \in Takers : at'[u] # "out" => u = t
    BY <1>2
  <2>2. avail'[avail_idx % QueueSize] = UsedAt(0)
    BY <1>7, <1>8
  <2> QED BY <1>1, <1>2, <1>4, <1>10, <2>1, <2>2 DEF AtWork, Holds
<1>14. EventsInOrder'
  <2>1. Taken /\ Taken'
    BY <1>2 DEF Taken
  <2> QED BY <1>1, <1>10, <2>1 DEF RingsInv, EventsInOrder
<1>15. RingsTypeOK'
  <2>1. avail' \in [Descs -> Descs]
    BY <1>4, <1>7, <1>8
  <2> QED BY <1>1, <1>2, <2>1 DEF RingsInv, RingsTypeOK, Descs, NoDesc, RingIndices
<1> QED BY <1>1, <1>12, <1>13, <1>14, <1>15 DEF RingsInv

\* A descriptor the device may see again preserves the invariant of the rings.
LEMMA PublishKeeps ==
  ASSUME RingsInv, NEW t \in Takers, PollPublish(t)
  PROVE  RingsInv'
<1>1. /\ Goes(t, "stored", "published") /\ avail_idx' = (avail_idx + 1) % RingMod /\ ~overlapped'
      /\ UNCHANGED <<avail, seen_idx, ring_used, used_idx, last_used_idx, event_buffers, desc_id, given>>
  BY DEF PollPublish, RingsInv
<1>2. /\ at' \in [Takers -> {"out", "looked", "taken", "stored", "published"}]
      /\ at'[t] = "published" /\ at[t] = "stored"
      /\ \A u \in Takers : u # t => at[u] = "out" /\ at'[u] = "out"
  BY <1>1, TakerGoes
<1>3. Outstanding > 0 /\ avail[avail_idx % QueueSize] = UsedAt(0)
  BY <1>2 DEF RingsInv, AtWork, Holds
<1>4. Consumed' = (Consumed + 1) % RingMod
  <2>1. ~Published /\ Published'
    BY <1>2 DEF Published
  <2>2. last_used_idx \in 0 .. RingMod - 1 /\ RingMod \in Nat \ {0}
    BY RingNumbers DEF RingIndices
  <2>3. last_used_idx + 0 = last_used_idx /\ last_used_idx % RingMod = last_used_idx
    BY <2>2, ModSmall
  <2> QED BY <1>1, <2>1, <2>3 DEF Consumed
<1>5. avail' = Returned(UsedAt(0))
  <2>1. avail \in [Descs -> Descs]
    BY DEF RingsInv, RingsTypeOK
  <2> QED BY <1>1, <1>3, <2>1 DEF Returned
<1>6. /\ Outstanding' = Outstanding - 1 /\ Offered' = Offered + 1
      /\ \A i \in 0 .. QueueSize - 2 : InOrder(i)' = InOrder(i + 1)
      /\ InOrder(QueueSize - 1)' = InOrder(0)
      /\ \A i \in Int : UsedAt(i)' = UsedAt(i + 1)
      /\ avail_idx' \in RingIndices
  BY <1>1, <1>3, <1>4, <1>5, GiveBackTurnsOrder
<1>7. Circle'
  BY <1>3, <1>6, TurnedCircle
<1>8. Outstanding \in Nat
  BY RingNumbers
<1>9. Taken /\ ~Taken'
  BY <1>2 DEF Taken
<1>10. /\ given \in Seq(HidEvents) /\ Len(given) = Outstanding - 1 /\ Len(given) \in Nat
       /\ \A i \in 1 .. Len(given) : given[i] = event_buffers[UsedAt(i - 1 + 1)]
  <2>1. given \in Seq(HidEvents)
    BY DEF RingsInv, RingsTypeOK
  <2> QED BY <1>9, <2>1, LenProperties DEF RingsInv, EventsInOrder
<1>11. EventsInOrder'
  <2>1. ASSUME NEW i \in 1 .. Len(given')
        PROVE  given'[i] = event_buffers'[UsedAt(i - 1 + 0)']
    <3> PICK k : k = i - 1
      OBVIOUS
    <3>1. i \in 1 .. Len(given) /\ k \in Int /\ k + 1 = i /\ k + 0 = k
      BY <1>1, <1>10
    <3>2. UsedAt(k)' = UsedAt(k + 1)
      BY <1>6, <3>1
    <3>3. UsedAt(k + 0)' = UsedAt(k)'
      BY <3>1 DEF UsedAt
    <3>4. given[i] = event_buffers[UsedAt(k + 1)]
      BY <1>10, <3>1
    <3>5. given'[i] = event_buffers'[UsedAt(k + 0)']
      BY <1>1, <3>2, <3>3, <3>4
    <3> QED BY <3>5
  <2>2. Len(given') = Outstanding' - 0
    BY <1>1, <1>6, <1>8, <1>10
  <2> QED BY <1>9, <2>1, <2>2 DEF EventsInOrder
<1>12. AtWork'
  <2>1. \A u \in Takers : at'[u] # "out" => u = t
    BY <1>2
  <2> QED BY <1>2, <2>1 DEF AtWork, Holds
<1>13. RingsTypeOK'
  BY <1>1, <1>2, <1>6 DEF RingsInv, RingsTypeOK, Descs, NoDesc, RingIndices
<1> QED BY <1>1, <1>7, <1>11, <1>12, <1>13 DEF RingsInv

\* A descriptor that is counted preserves the invariant of the rings.
LEMMA CountKeepsRings ==
  ASSUME RingsInv, NEW t \in Takers, PollCount(t)
  PROVE  RingsInv'
<1>1. /\ Goes(t, "published", "out") /\ last_used_idx' = (last_used_idx + 1) % RingMod /\ ~overlapped'
      /\ desc_id' = [desc_id EXCEPT ![t] = NoDesc]
      /\ UNCHANGED <<avail, avail_idx, seen_idx, ring_used, used_idx, event_buffers, given>>
  BY DEF PollCount, RingsInv
<1>2. /\ at' \in [Takers -> {"out", "looked", "taken", "stored", "published"}]
      /\ at'[t] = "out" /\ at[t] = "published"
      /\ \A u \in Takers : u # t => at[u] = "out" /\ at'[u] = "out"
  BY <1>1, TakerGoes
<1>3. last_used_idx' \in 0 .. RingMod - 1 /\ last_used_idx \in Int /\ RingMod \in Nat \ {0}
  <2> PICK x : x = last_used_idx + 1
    OBVIOUS
  <2>1. last_used_idx \in Int /\ RingMod \in Nat \ {0} /\ x \in Int
    BY RingNumbers
  <2> QED BY <1>1, <2>1, DivMod
<1>4. Consumed' = Consumed
  <2>1. Published /\ ~Published'
    BY <1>2 DEF Published
  <2>0. PICK l : l = last_used_idx'
    OBVIOUS
  <2>2. l + 0 = l /\ l % RingMod = l
    <3>1. l \in 0 .. RingMod - 1
      BY <1>3, <2>0
    <3> QED BY <1>3, <3>1, ModSmall
  <2>3. Consumed' = (l + 0) % RingMod
    BY <2>0, <2>1 DEF Consumed
  <2>4. Consumed = l
    BY <1>1, <2>0, <2>1 DEF Consumed
  <2> QED BY <2>2, <2>3, <2>4
<1>5. Outstanding' = Outstanding /\ (\A i : UsedAt(i)' = UsedAt(i)) /\ Circle'
  BY <1>1, <1>4, OrderStays
<1>6. EventsInOrder'
  <2>1. ~Taken /\ ~Taken'
    BY <1>2 DEF Taken
  <2> QED BY <1>1, <1>5, <2>1 DEF RingsInv, EventsInOrder
<1>7. AtWork'
  BY <1>2 DEF AtWork, Holds
<1>8. RingsTypeOK'
  <2>1. desc_id' \in [Takers -> Descs \cup {NoDesc}]
    BY <1>1 DEF RingsInv, RingsTypeOK
  <2> QED BY <1>1, <1>2, <1>3, <2>1 DEF RingsInv, RingsTypeOK, Descs, NoDesc, RingIndices
<1> QED BY <1>1, <1>5, <1>6, <1>7, <1>8 DEF RingsInv

\* Every step of the devices preserves the invariant of the rings, until calls overlap.
LEMMA RingsStep == RingsAlways /\ [DevicesNext]_allVars => RingsAlways'
<1> SUFFICES ASSUME RingsAlways, [DevicesNext]_allVars PROVE RingsAlways'
  OBVIOUS
<1>1. VirtioInputNext \/ UNCHANGED virtioVars
  BY DEF DevicesNext, PartsNext, Input, Usb, Rings, Buffers, Heap, Resampler, deviceVars, allVars
<1>2. CASE overlapped
  BY <1>1, <1>2 DEF VirtioInputNext, DeviceEvent, PollLook, PollTake, PollStore, PollPublish, PollCount,
                    virtioVars, RingsAlways
<1>3. CASE RingsInv
  <2>1. ASSUME NEW e \in HidEvents, DeviceEvent(e) PROVE RingsInv'
    BY <1>3, <2>1, DeviceEventKeeps
  <2>2. ASSUME NEW t \in Takers, PollLook(t) PROVE RingsAlways'
    <3>1. CASE Busy = {}
      BY <1>3, <2>2, <3>1, LookKeeps DEF RingsAlways
    <3>2. CASE Busy # {}
      BY <2>2, <3>2 DEF PollLook, RingsAlways
    <3> QED BY <3>1, <3>2
  <2>3. ASSUME NEW t \in Takers, PollTake(t) PROVE RingsInv'
    BY <1>3, <2>3, TakeKeeps
  <2>4. ASSUME NEW t \in Takers, PollStore(t) PROVE RingsInv'
    BY <1>3, <2>4, StoreKeepsRings
  <2>5. ASSUME NEW t \in Takers, PollPublish(t) PROVE RingsInv'
    BY <1>3, <2>5, PublishKeeps
  <2>6. ASSUME NEW t \in Takers, PollCount(t) PROVE RingsInv'
    BY <1>3, <2>6, CountKeepsRings
  <2>7. CASE UNCHANGED virtioVars
    <3>1. UNCHANGED <<avail, avail_idx, seen_idx, ring_used, used_idx, last_used_idx, event_buffers, at,
                      desc_id, given, overlapped>>
      BY <2>7 DEF virtioVars
    <3>2. Consumed' = Consumed /\ (Taken' <=> Taken)
      BY <3>1 DEF Consumed, Published, Taken
    <3>3. Outstanding' = Outstanding /\ (\A i : UsedAt(i)' = UsedAt(i)) /\ Circle'
      BY <1>3, <3>1, <3>2, OrderStays
    <3>4. EventsInOrder'
      BY <1>3, <3>1, <3>2, <3>3 DEF RingsInv, EventsInOrder
    <3>5. AtWork' /\ RingsTypeOK' /\ ~overlapped'
      BY <1>3, <3>1, <3>3 DEF RingsInv, AtWork, Holds, RingsTypeOK, Descs, NoDesc, RingIndices
    <3> QED BY <3>3, <3>4, <3>5 DEF RingsInv, RingsAlways
  <2> QED BY <1>1, <2>1, <2>2, <2>3, <2>4, <2>5, <2>6, <2>7 DEF VirtioInputNext, RingsAlways
<1> QED BY <1>2, <1>3 DEF RingsAlways

\* The rings are in their invariant after the driver's set-up.
LEMMA RingsInitial == VirtioInputInit => RingsInv
<1> SUFFICES ASSUME VirtioInputInit PROVE RingsInv
  OBVIOUS
<1>1. /\ QueueSize \in Nat \ {0} /\ RingMod \in Nat \ {0} /\ RingMod > QueueSize
      /\ QueueSize \in 0 .. RingMod - 1 /\ 0 \in 0 .. RingMod - 1
  BY VirtioAssumption
<1>2. QueueSize % RingMod = QueueSize /\ 0 % RingMod = 0
  BY <1>1, ModSmall
<1>3. /\ avail = [i \in Descs |-> i] /\ avail_idx = QueueSize /\ seen_idx = 0
      /\ ring_used = [i \in Descs |-> 0] /\ used_idx = 0 /\ last_used_idx = 0
      /\ event_buffers = [d \in Descs |-> NoInput] /\ given = <<>> /\ ~overlapped
      /\ at = [t \in Takers |-> "out"] /\ desc_id = [t \in Takers |-> NoDesc]
  BY <1>2 DEF VirtioInputInit
<1>4. Outstanding = 0 /\ Offered = QueueSize
  <2>1. 0 - 0 = 0 /\ QueueSize - 0 = QueueSize /\ 0 + 0 = 0
    BY <1>1
  <2>2. ~Published
    BY <1>3 DEF Published
  <2>3. Consumed = 0
    BY <1>2, <1>3, <2>1, <2>2 DEF Consumed
  <2> QED BY <1>2, <1>3, <2>1, <2>3 DEF Outstanding, Offered
<1>5. \A i \in Descs : InOrder(i) = i
  <2> TAKE i \in Descs
  <2>1. i \in 0 .. QueueSize - 1 /\ i \in 0 .. RingMod - 1 /\ ~(i < 0) /\ 0 + (i - 0) = i
    BY <1>1 DEF Descs
  <2>2. i % RingMod = i /\ i % QueueSize = i
    BY <1>1, <2>1, ModSmall
  <2> QED BY <1>3, <1>4, <2>1, <2>2 DEF InOrder, AvailAt
<1>6. Circle
  <2>1. Offered + Outstanding = QueueSize
    BY <1>1, <1>4
  <2> QED BY <1>3, <1>5, <2>1 DEF Circle
<1>7. EventsInOrder
  <2>1. Len(given) = 0 /\ Outstanding - 0 = 0 /\ 1 .. Len(given) = {}
    BY <1>3, <1>4
  <2>2. ~Taken
    BY <1>3 DEF Taken
  <2> QED BY <1>3, <2>1, <2>2 DEF EventsInOrder
<1>8. RingsTypeOK
  <2>1. 0 \in Descs
    BY <1>1 DEF Descs
  <2> QED BY <1>1, <1>3, <2>1 DEF RingsTypeOK, RingIndices
<1>9. AtWork
  BY <1>3 DEF AtWork, Holds
<1> QED BY <1>3, <1>6, <1>7, <1>8, <1>9 DEF RingsInv

\* The invariant of the rings has each descriptor in one place.
LEMMA RingsInvDescs == RingsAlways => DescsOnce
<1> SUFFICES ASSUME RingsInv PROVE DescsOnce
  BY DEF RingsAlways, DescsOnce
<1> PICK U, O : U = Outstanding /\ O = Offered
  OBVIOUS
<1>1. QueueSize \in Nat \ {0} /\ U \in 0 .. QueueSize /\ O = QueueSize - U
  BY RingNumbers
<1> DEFINE A == {AvailAt(i) : i \in 0 .. O - 1}
           B == {UsedAt(i) : i \in 0 .. U - 1}
<1>2. \A i \in Int : UsedAt(i) \in Descs /\ AvailAt(i) \in Descs
  <2> TAKE i \in Int
  <2>1. Consumed + i \in Int /\ seen_idx + i \in Int
        /\ ring_used \in [Descs -> Descs] /\ avail \in [Descs -> Descs]
    BY RingNumbers DEF RingsInv, RingsTypeOK
  <2>2. ((Consumed + i) % RingMod) % QueueSize \in Descs
    BY <2>1, RingSlots
  <2>3. ((seen_idx + i) % RingMod) % QueueSize \in Descs
    BY <2>1, RingSlots
  <2> QED BY <2>1, <2>2, <2>3 DEF UsedAt, AvailAt
<1>3. A \cup B \subseteq Descs
  BY <1>1, <1>2
<1>4. \A i \in Descs : InOrder(i) \in A \cup B
  <2> TAKE i \in Descs
  <2>1. CASE i < U
    <3>1. i \in 0 .. U - 1
      BY <1>1, <2>1 DEF Descs
    <3> QED BY <2>1, <3>1 DEF InOrder
  <2>2. CASE ~(i < U)
    <3>1. i - U \in 0 .. O - 1
      BY <1>1, <2>2 DEF Descs
    <3> QED BY <2>2, <3>1 DEF InOrder
  <2> QED BY <2>1, <2>2
<1>5. Descs \subseteq A \cup B
  BY <1>4 DEF RingsInv, Circle
<1> HIDE DEF A, B
<1>6. O + U = QueueSize /\ A \cup B = Descs
  BY <1>1, <1>3, <1>5
<1>7. \A t \in Takers : at[t] \in {"looked", "taken", "stored"} => desc_id[t] = UsedAt(0)
  BY DEF RingsInv, AtWork, Holds
<1> QED BY <1>6, <1>7 DEF DescsOnce, A, B

-----------------------------------------------------------------------------
(* The event buffers of kernel/input_event.c.                              *)

AnyEvent == [type : {"none", "key", "rel", "syn"}, code : AllKeys \cup {"none", "report", "x", "button"},
             value : Int]
Buffer   == [events : [0 .. BufferSize - 1 -> AnyEvent], head : 0 .. CountMod - 1, tail : 0 .. CountMod - 1]

\* The slot of the i-th event in a buffer.
SlotIn(b, i) == ((b.tail + (i - 1)) % CountMod) % BufferSize

\* a lists what buffer b holds.
BufferOK(b, a) ==
  /\ b \in Buffer /\ a \in Seq(AnyEvent)
  /\ Len(a) = Available(b) /\ Len(a) <= BufferSize
  /\ \A i \in 1 .. Len(a) : a[i] = b.events[SlotIn(b, i)]

\* An event written into a buffer that has room is the last of it.
LEMMA WrittenKeeps ==
  ASSUME NEW b, NEW a, BufferOK(b, a), NEW e \in AnyEvent, ~BufferFull(b)
  PROVE  BufferOK(Written(b, e), Append(a, e))
<1>0. PICK hd \in 0 .. CountMod - 1, tl \in 0 .. CountMod - 1, evs \in [0 .. BufferSize - 1 -> AnyEvent] :
        b = [events |-> evs, head |-> hd, tail |-> tl]
  BY DEF BufferOK, Buffer
<1> DEFINE n == Len(a)
           s == hd % BufferSize
           c == Written(b, e)
           ev == [evs EXCEPT ![s] = e]
<1>1. /\ BufferSize \in Nat \ {0} /\ CountMod \in Nat \ {0} /\ CountMod > BufferSize
      /\ CountMod % BufferSize = 0
  BY InputAssumption
<1>2. /\ b.head = hd /\ b.tail = tl /\ b.events = evs /\ hd \in Int /\ tl \in Int
      /\ a \in Seq(AnyEvent) /\ n \in Nat
      /\ n = (hd - tl) % CountMod
  <2>1. b.head = hd /\ b.tail = tl /\ b.events = evs
    BY <1>0
  <2> QED BY <1>1, <2>1, LenProperties DEF BufferOK, Available
<1>3. n < BufferSize /\ n < CountMod - 1
  <2>1. ~(n >= BufferSize)
    BY <1>2 DEF BufferFull, Available
  <2> QED BY <1>1, <1>2, <2>1
<1>4. c = [events |-> ev, head |-> (hd + 1) % CountMod, tail |-> tl]
  <2>1. c = [[b EXCEPT !.events = ev] EXCEPT !.head = (hd + 1) % CountMod]
    <3> HIDE DEF n
    <3>1. b.head = hd /\ b.events = evs
      BY <1>2
    <3> QED BY <3>1 DEF Written
  <2> HIDE DEF n, s, c, ev
  <2> QED BY <1>0, <2>1
<1>5. s \in 0 .. BufferSize - 1
  BY <1>1, <1>2, DivMod
<1>6. hd = (tl + n) % CountMod
  <2> HIDE DEF n, s, c, ev
  <2>0. CountMod \in Nat \ {0} /\ hd \in 0 .. CountMod - 1 /\ tl \in 0 .. CountMod - 1
    BY <1>1
  <2>1. hd = (tl + ((hd - tl) % CountMod)) % CountMod
    BY <2>0, Distance, Zenon
  <2> QED BY <1>2, <2>1
<1>7. Available(c) = n + 1
  <2>1. (hd - tl) % CountMod < CountMod - 1
    BY <1>2, <1>3
  <2>2. (((hd + 1) % CountMod) - tl) % CountMod = ((hd - tl) % CountMod) + 1
    <3> HIDE DEF n, s, c, ev
    <3> QED BY <1>1, <2>1, DistanceGrows
  <2> QED BY <1>2, <1>4, <2>2 DEF Available
<1>8. /\ Append(a, e) \in Seq(AnyEvent) /\ Len(Append(a, e)) = n + 1
      /\ \A i \in 1 .. n : Append(a, e)[i] = a[i]
      /\ Append(a, e)[n + 1] = e
  BY <1>2
<1> HIDE DEF n, s, c, ev
<1>9. c \in Buffer
  <2>1. (hd + 1) % CountMod \in 0 .. CountMod - 1
    <3> DEFINE x == hd + 1
    <3>1. x \in Int
      BY <1>2
    <3> HIDE DEF x
    <3>2. x % CountMod \in 0 .. CountMod - 1
      BY <1>1, <3>1, DivMod
    <3> QED BY <3>2 DEF x
  <2>2. ev \in [0 .. BufferSize - 1 -> AnyEvent]
    BY <1>5 DEF ev
  <2> QED BY <1>4, <2>1, <2>2 DEF Buffer
<1>10. ASSUME NEW i \in 1 .. n + 1
       PROVE  Append(a, e)[i] = c.events[SlotIn(c, i)]
  <2>1. SlotIn(c, i) = SlotIn(b, i) /\ c.events = ev /\ SlotIn(b, i) = ((tl + (i - 1)) % CountMod) % BufferSize
    BY <1>2, <1>4 DEF SlotIn
  <2>2. CASE i = n + 1
    <3>1. i - 1 = n
      BY <1>2, <2>2
    <3>2. SlotIn(b, i) = s
      BY <1>6, <2>1, <3>1 DEF s
    <3>3. ev[s] = e
      BY <1>5 DEF ev
    <3> QED BY <1>8, <2>1, <2>2, <3>2, <3>3
  <2>3. CASE i # n + 1
    <3> DEFINE k == i - 1
    <3>1. i \in 1 .. n /\ k \in Int /\ n \in Int /\ k < n /\ n - k < BufferSize /\ n > k
      <4>1. n \in Nat
        BY <1>2
      <4>2. n < BufferSize
        BY <1>3
      <4>3. BufferSize \in Nat
        BY <1>1
      <4> HIDE DEF n
      <4>4. i \in 1 .. n
        BY <2>3, <4>1
      <4> QED BY <4>1, <4>2, <4>3, <4>4
    <3>2. SlotIn(b, i) = ((tl + k) % CountMod) % BufferSize
      BY <2>1
    <3> HIDE DEF k
    <3>3. SlotIn(b, i) # s
      <4>1. tl \in Int
        BY <1>2
      <4>2. ((tl + k) % CountMod) % BufferSize # ((tl + n) % CountMod) % BufferSize
        BY <1>1, <3>1, <4>1, SlotsApart
      <4> QED BY <1>6, <3>2, <4>2 DEF s
    <3>4. SlotIn(b, i) \in 0 .. BufferSize - 1
      <4> DEFINE x == tl + k
      <4>1. x \in Int
        BY <1>2, <3>1
      <4> HIDE DEF x
      <4>2. x % CountMod \in Int
        BY <1>1, <4>1, DivMod
      <4>3. (x % CountMod) % BufferSize \in 0 .. BufferSize - 1
        BY <1>1, <4>2, DivMod
      <4> QED BY <3>2, <4>3 DEF x
    <3>5. a[i] = evs[SlotIn(b, i)]
      BY <1>2, <3>1 DEF BufferOK, n
    <3>6. ev[SlotIn(b, i)] = evs[SlotIn(b, i)]
      BY <3>3, <3>4 DEF ev
    <3> QED BY <1>8, <2>1, <3>1, <3>5, <3>6
  <2> QED BY <2>2, <2>3
<1>11. n + 1 <= BufferSize
  BY <1>1, <1>2, <1>3
<1> QED BY <1>7, <1>8, <1>9, <1>10, <1>11 DEF BufferOK, c

\* Reading takes the first event.
LEMMA ReadKeeps ==
  ASSUME NEW b, NEW a, BufferOK(b, a), Available(b) # 0
  PROVE  BufferOK([b EXCEPT !.tail = (@ + 1) % CountMod], Tail(a))
<1> DEFINE n == Len(a)
           c == [b EXCEPT !.tail = (@ + 1) % CountMod]
<1>1. BufferSize \in Nat \ {0} /\ CountMod \in Nat \ {0}
  BY InputAssumption
<1>2. /\ b.head \in 0 .. CountMod - 1 /\ b.tail \in 0 .. CountMod - 1 /\ b \in Buffer
      /\ a \in Seq(AnyEvent) /\ n = (b.head - b.tail) % CountMod /\ n \in Nat
      /\ n > 0 /\ n <= BufferSize /\ b.tail \in Int
  BY LenProperties DEF BufferOK, Buffer, Available
<1>3. /\ c = [events |-> b.events, head |-> b.head, tail |-> (b.tail + 1) % CountMod]
      /\ c.events = b.events /\ c.tail = (b.tail + 1) % CountMod /\ c.head = b.head
  BY <1>2 DEF Buffer
<1>4. a # <<>>
  BY <1>2, EmptySeq
<1>5. /\ Tail(a) \in Seq(AnyEvent) /\ Len(Tail(a)) = n - 1
      /\ \A i \in 1 .. n - 1 : Tail(a)[i] = a[i + 1]
  BY <1>2, <1>4, HeadTailProperties
<1> HIDE DEF n, c
<1>6. Available(c) = n - 1
  <2>1. (b.head - ((b.tail + 1) % CountMod)) % CountMod = ((b.head - b.tail) % CountMod) - 1
    BY <1>1, <1>2, DistanceShrinks
  <2> QED BY <1>2, <1>3, <2>1 DEF Available
<1>7. c \in Buffer
  <2>1. (b.tail + 1) % CountMod \in 0 .. CountMod - 1
    <3> DEFINE x == b.tail + 1
    <3>1. x \in Int
      BY <1>2
    <3> HIDE DEF x
    <3>2. x % CountMod \in 0 .. CountMod - 1
      BY <1>1, <3>1, DivMod
    <3> QED BY <3>2 DEF x
  <2> QED BY <1>2, <1>3, <2>1 DEF Buffer
<1>8. ASSUME NEW i \in 1 .. n - 1
      PROVE  Tail(a)[i] = c.events[SlotIn(c, i)]
  <2>1. i - 1 \in Int /\ (i - 1) + 1 = (i + 1) - 1 /\ i + 1 \in 1 .. n
    BY <1>2
  <2>2. (((b.tail + 1) % CountMod) + (i - 1)) % CountMod = (b.tail + ((i - 1) + 1)) % CountMod
    BY <1>1, <1>2, <2>1, SlotOfNext
  <2>3. SlotIn(c, i) = SlotIn(b, i + 1)
    BY <1>3, <2>1, <2>2 DEF SlotIn
  <2>4. a[i + 1] = b.events[SlotIn(b, i + 1)]
    BY <2>1 DEF BufferOK, n
  <2> QED BY <1>3, <1>5, <2>3, <2>4
<1>9. n - 1 <= BufferSize
  BY <1>1, <1>2
<1> QED BY <1>5, <1>6, <1>7, <1>8, <1>9 DEF BufferOK, c

\* All buffers at once, as [buffers, accepted].
QueuesOK(q) ==
  /\ q \in [buffers : [Handlers -> Buffer], accepted : [Handlers -> Seq(AnyEvent)]]
  /\ \A h \in Handlers : BufferOK(q.buffers[h], q.accepted[h])

\* A reported event leaves the queues in order.
LEMMA ReportedKeeps ==
  ASSUME NEW q, QueuesOK(q), NEW e \in AnyEvent
  PROVE  QueuesOK(Reported(q, e))
<1> DEFINE r == Reported(q, e)
<1>1. ASSUME NEW h \in Handlers
      PROVE  BufferOK(r.buffers[h], r.accepted[h])
  <2>1. BufferOK(q.buffers[h], q.accepted[h])
    BY DEF QueuesOK
  <2>2. CASE Taker(q, h, e)
    <3>1. r.buffers[h] = Written(q.buffers[h], e) /\ r.accepted[h] = Append(q.accepted[h], e)
      BY <2>2 DEF Reported
    <3>2. ~BufferFull(q.buffers[h])
      BY <2>2 DEF Taker
    <3> QED BY <2>1, <3>1, <3>2, WrittenKeeps
  <2>3. CASE ~Taker(q, h, e)
    <3>1. r.buffers[h] = q.buffers[h] /\ r.accepted[h] = q.accepted[h]
      BY <2>3 DEF Reported
    <3> QED BY <2>1, <3>1
  <2> QED BY <2>2, <2>3
<1>2. r = [buffers |-> [h \in Handlers |-> r.buffers[h]], accepted |-> [h \in Handlers |-> r.accepted[h]]]
  BY DEF Reported
<1> HIDE DEF r
<1>3. \A h \in Handlers : r.buffers[h] \in Buffer /\ r.accepted[h] \in Seq(AnyEvent)
  BY <1>1 DEF BufferOK
<1>4. r \in [buffers : [Handlers -> Buffer], accepted : [Handlers -> Seq(AnyEvent)]]
  <2> DEFINE f == [h \in Handlers |-> r.buffers[h]]
             g == [h \in Handlers |-> r.accepted[h]]
  <2>1. f \in [Handlers -> Buffer] /\ g \in [Handlers -> Seq(AnyEvent)]
    BY <1>3
  <2>2. r = [buffers |-> f, accepted |-> g]
    BY <1>2
  <2> HIDE DEF f, g
  <2> QED BY <2>1, <2>2
<1> QED BY <1>1, <1>4 DEF QueuesOK, r

-----------------------------------------------------------------------------
(* Folds over a sequence: what FoldLeft computes from position 1 to N, as a *)
(* table from sets of positions.                                           *)

\* A set of positions that is not empty has a greatest.
LEMMA Greatest ==
  ASSUME NEW N \in Nat, NEW s \in SUBSET (1 .. N), s # {}
  PROVE  Max(s) \in s /\ \A y \in s : Max(s) >= y
<1> DEFINE S == {N - y : y \in s}
<1>1. S \in SUBSET Nat /\ S # {}
  <2>1. \A y \in s : N - y \in Nat
    <3> TAKE y \in s
    <3>1. y \in 1 .. N
      OBVIOUS
    <3> QED BY <3>1
  <2> QED BY <2>1
<1>2. PICK k \in S : \A j \in S : k <= j
  BY <1>1, Least
<1>3. PICK x \in s : k = N - x
  BY <1>2
<1>4. \A y \in s : x >= y
  <2> TAKE y \in s
  <2>1. N - y \in S /\ y \in Int /\ x \in Int
    BY <1>3
  <2>2. N - x <= N - y
    BY <1>2, <1>3, <2>1
  <2> QED BY <2>1, <2>2
<1> QED BY <1>4 DEF Max

\* The greatest of the first n + 1 positions, and of a set that has it.
LEMMA GreatestOf ==
  ASSUME NEW n \in Nat, NEW s \in SUBSET (1 .. n + 1), n + 1 \in s
  PROVE  Max(s) = n + 1
<1> DEFINE k == n + 1
<1>1. k \in Nat /\ s \in SUBSET (1 .. k) /\ k \in s /\ s # {}
  OBVIOUS
<1> HIDE DEF k
<1>2. Max(s) \in s /\ Max(s) >= k
  BY <1>1, Greatest
<1>3. Max(s) \in 1 .. k
  BY <1>1, <1>2
<1>4. Max(s) = k
  BY <1>1, <1>2, <1>3
<1> QED BY <1>4 DEF k

FoldedTable(f, n, base, op) ==
  \A s \in SUBSET (1 .. n) : f[s] = IF s = {} THEN base ELSE op[<<f[s \ {Max(s)}], Max(s)>>]

\* The table exists when every step stays in X.
LEMMA FoldTable ==
  ASSUME NEW X, NEW N \in Nat, NEW base \in X, NEW op \in [X \X (1 .. N) -> X]
  PROVE  \E f \in [SUBSET (1 .. N) -> X] : FoldedTable(f, N, base, op)
<1> USE DEF FoldedTable
<1> DEFINE Table(f, n) == FoldedTable(f, n, base, op)
           Bad == {n \in 0 .. N : ~\E f \in [SUBSET (1 .. n) -> X] : Table(f, n)}
<1>1. SUFFICES Bad = {}
  <2> HIDE DEF Table
  <2>1. N \notin Bad
    <3> HIDE DEF Bad
    <3> QED BY <1>1
  <2>2. N \in 0 .. N
    OBVIOUS
  <2>3. \E f \in [SUBSET (1 .. N) -> X] : Table(f, N)
    BY <2>1, <2>2
  <2> QED BY <2>3, Zenon DEF Table
<1>2. SUFFICES ASSUME Bad # {} PROVE FALSE
  OBVIOUS
<1>3. PICK n \in Bad : \A j \in Bad : n <= j
  <2>1. Bad \in SUBSET Nat
    OBVIOUS
  <2> HIDE DEF Bad
  <2> QED BY <1>2, <2>1, Least
<1>4. n # 0
  <2>1. SUFFICES ASSUME n = 0 PROVE FALSE
    OBVIOUS
  <2> DEFINE f == [s \in SUBSET (1 .. 0) |-> base]
  <2>2. f \in [SUBSET (1 .. 0) -> X]
    OBVIOUS
  <2>3. Table(f, 0)
    <3> TAKE s \in SUBSET (1 .. 0)
    <3>1. s = {}
      OBVIOUS
    <3> QED BY <3>1
  <2> QED BY <1>3, <2>1, <2>2, <2>3
<1> DEFINE m == n - 1
<1>5. m \in Nat /\ n = m + 1 /\ n \in 1 .. N /\ m \in 0 .. N /\ m < n
  BY <1>3, <1>4
<1>6. PICK f \in [SUBSET (1 .. m) -> X] : Table(f, m)
  <2>1. m \notin Bad
    <3> HIDE DEF Bad
    <3> SUFFICES ASSUME m \in Bad PROVE FALSE
      OBVIOUS
    <3>1. n <= m
      BY <1>3
    <3> QED BY <1>5, <3>1
  <2> QED BY <1>5, <2>1
<1> DEFINE g == [s \in SUBSET (1 .. n) |-> IF n \in s THEN op[<<f[s \ {n}], n>>] ELSE f[s]]
<1> HIDE DEF m
<1>7. \A s \in SUBSET (1 .. n) : s \ {n} \in SUBSET (1 .. m) /\ (n \notin s => s \in SUBSET (1 .. m))
  BY <1>5
<1>8. g \in [SUBSET (1 .. n) -> X]
  <2>1. ASSUME NEW s \in SUBSET (1 .. n)
        PROVE  (IF n \in s THEN op[<<f[s \ {n}], n>>] ELSE f[s]) \in X
    <3>1. CASE n \in s
      <4>1. f[s \ {n}] \in X
        BY <1>6, <1>7
      <4>2. <<f[s \ {n}], n>> \in X \X (1 .. N)
        BY <1>5, <4>1
      <4> QED BY <3>1, <4>2
    <3>2. CASE n \notin s
      BY <1>6, <1>7, <3>2
    <3> QED BY <3>1, <3>2
  <2> QED BY <2>1
<1>9. Table(g, n)
  <2> TAKE s \in SUBSET (1 .. n)
  <2>1. CASE n \in s
    <3>1. Max(s) = n /\ s # {}
      BY <1>5, <2>1, GreatestOf
    <3>2. g[s \ {n}] = f[s \ {n}]
      BY <1>7
    <3>3. g[s] = op[<<f[s \ {n}], n>>]
      BY <2>1
    <3> QED BY <3>1, <3>2, <3>3
  <2>2. CASE n \notin s
    <3>1. s \in SUBSET (1 .. m) /\ g[s] = f[s]
      BY <1>7, <2>2
    <3>2. CASE s = {}
      BY <1>6, <3>1, <3>2
    <3>3. CASE s # {}
      <4>1. s \ {Max(s)} \in SUBSET (1 .. n) /\ n \notin s \ {Max(s)}
        BY <2>2
      <4>2. g[s \ {Max(s)}] = f[s \ {Max(s)}]
        BY <4>1
      <4>3. f[s] = op[<<f[s \ {Max(s)}], Max(s)>>]
        BY <1>6, <3>1, <3>3
      <4> QED BY <3>1, <3>3, <4>2, <4>3
    <3> QED BY <3>2, <3>3
  <2> QED BY <2>1, <2>2
<1> HIDE DEF g, Table
<1> QED BY <1>3, <1>8, <1>9

\* What every step of the fold keeps holds of its result.
LEMMA FoldKept ==
  ASSUME NEW X, NEW N \in Nat, NEW g, g[{}] \in X,
         \A n \in 0 .. N - 1 : g[1 .. n] \in X => g[1 .. n + 1] \in X
  PROVE  g[1 .. N] \in X
<1> DEFINE Bad == {n \in 0 .. N : g[1 .. n] \notin X}
<1>1. SUFFICES Bad = {}
  <2>1. N \notin Bad
    BY <1>1
  <2> QED BY <2>1
<1>2. SUFFICES ASSUME Bad # {} PROVE FALSE
  OBVIOUS
<1>3. PICK n \in Bad : \A j \in Bad : n <= j
  <2>1. Bad \in SUBSET Nat
    OBVIOUS
  <2> HIDE DEF Bad
  <2> QED BY <1>2, <2>1, Least
<1>4. n # 0
  <2>1. 1 .. 0 = {}
    OBVIOUS
  <2> QED BY <1>3, <2>1
<1> DEFINE m == n - 1
<1>5. m \in 0 .. N - 1 /\ m \in 0 .. N /\ m < n /\ n = m + 1
  BY <1>3, <1>4
<1>6. g[1 .. m] \in X
  <2>1. m \notin Bad
    BY <1>3, <1>5
  <2> QED BY <1>5, <2>1
<1>7. g[1 .. m + 1] \in X
  BY <1>5, <1>6
<1> QED BY <1>3, <1>5, <1>7

-----------------------------------------------------------------------------
(* The keyboard and the mouse of kernel/input_event.c.                     *)

\* What a follower of the reports knows is what is down.
Follows(kbd) ==
  /\ \A k \in AllKeys : kbd.told[k] = 1 <=> k \in kbd.keys
  /\ kbd.mods \cap ModKeys = (kbd.keys \cap ModKeys) \cup kbd.strays
  /\ kbd.strays \cap kbd.keys = {}

AnyQueues == {q \in [buffers : [Handlers -> Buffer], accepted : [Handlers -> Seq(AnyEvent)]] : QueuesOK(q)}

Keyboards == {kbd \in [keys : SUBSET AllKeys, mods : SUBSET AllKeys, told : [AllKeys -> 0 .. 2],
                       strays : SUBSET ModKeys, queues : AnyQueues] : Follows(kbd)}

\* A reported event leaves queues.
LEMMA ReportedStays ==
  ASSUME NEW q \in AnyQueues, NEW e \in AnyEvent
  PROVE  Reported(q, e) \in AnyQueues
<1>1. QueuesOK(Reported(q, e))
  BY ReportedKeeps DEF AnyQueues
<1> QED BY <1>1 DEF AnyQueues, QueuesOK

\* One key is pressed, released or repeated, whether it is down or not.
LEMMA KeyReportedKeeps ==
  ASSUME NEW kbd \in Keyboards, NEW k \in AllKeys, NEW v \in 0 .. 2
  PROVE  KeyReported(kbd, k, v) \in Keyboards
<1>0. PICK K \in SUBSET AllKeys, M \in SUBSET AllKeys, T \in [AllKeys -> 0 .. 2],
             R \in SUBSET ModKeys, q \in AnyQueues :
        kbd = [keys |-> K, mods |-> M, told |-> T, strays |-> R, queues |-> q]
  BY DEF Keyboards
<1>1. /\ kbd.keys = K /\ kbd.mods = M /\ kbd.told = T /\ kbd.strays = R /\ kbd.queues = q
      /\ \A j \in AllKeys : T[j] = 1 <=> j \in K
      /\ M \cap ModKeys = (K \cap ModKeys) \cup R
      /\ R \cap K = {}
  BY <1>0 DEF Keyboards, Follows
<1> DEFINE tell == Reportable(K, k, v)
           K2 == DownAfter(K, k, v)
           M2 == ModifiersAfter(M, k, v)
           T2 == IF tell /\ v # 2 THEN [T EXCEPT ![k] = v] ELSE T
           R2 == IF v = 2 /\ k \in ModKeys \ K THEN R \cup {k} ELSE R \ {k}
           e  == [type |-> "key", code |-> k, value |-> v]
           q2 == IF tell THEN Reported(q, e) ELSE q
<1>2. KeyReported(kbd, k, v) = [keys |-> K2, mods |-> M2, told |-> T2, strays |-> R2, queues |-> q2]
  BY <1>1, Zenon DEF KeyReported
<1>3. K2 \in SUBSET AllKeys
  BY DEF DownAfter
<1>4. M2 \in SUBSET AllKeys
  BY DEF ModifiersAfter, AllKeys
<1>5. T2 \in [AllKeys -> 0 .. 2]
  OBVIOUS
<1>6. q2 \in AnyQueues
  <2>1. e \in AnyEvent
    BY DEF AnyEvent
  <2> HIDE DEF e
  <2> QED BY <2>1, ReportedStays
<1>7. \A j \in AllKeys : T2[j] = 1 <=> j \in K2
  <2>1. v = 0 \/ v = 1 \/ v = 2
    OBVIOUS
  <2>2. CASE v = 2
    BY <1>1, <2>2 DEF DownAfter
  <2>3. CASE v = 1
    BY <1>1, <2>3 DEF DownAfter, Reportable
  <2>4. CASE v = 0
    BY <1>1, <2>4 DEF DownAfter, Reportable
  <2> QED BY <2>1, <2>2, <2>3, <2>4
<1>8. M2 \cap ModKeys = (K2 \cap ModKeys) \cup R2
  <2>1. CASE k \in ModKeys
    <3>1. CASE v = 0
      BY <1>1, <2>1, <3>1 DEF DownAfter, ModifiersAfter
    <3>2. CASE v = 1
      BY <1>1, <2>1, <3>2 DEF DownAfter, ModifiersAfter
    <3>3. CASE v = 2
      BY <1>1, <2>1, <3>3 DEF DownAfter, ModifiersAfter
    <3> QED BY <3>1, <3>2, <3>3
  <2>2. CASE k \notin ModKeys
    <3>1. K2 \cap ModKeys = K \cap ModKeys
      BY <2>2 DEF DownAfter
    <3>2. M2 \cap ModKeys = M \cap ModKeys
      BY <2>2 DEF ModifiersAfter
    <3>3. R2 = R
      BY <2>2
    <3> QED BY <1>1, <3>1, <3>2, <3>3
  <2> QED BY <2>1, <2>2
<1>9. R2 \in SUBSET ModKeys
  OBVIOUS
<1>10. R2 \cap K2 = {}
  <2>1. CASE v = 0
    BY <1>1, <2>1 DEF DownAfter
  <2>2. CASE v = 1
    BY <1>1, <2>2 DEF DownAfter
  <2>3. CASE v = 2
    BY <1>1, <2>3 DEF DownAfter
  <2> QED BY <2>1, <2>2, <2>3
<1> HIDE DEF K2, M2, T2, R2, q2
<1> QED BY <1>2, <1>3, <1>4, <1>5, <1>6, <1>7, <1>8, <1>9, <1>10 DEF Keyboards, Follows

KeysTable(f, N, keys, val, base) ==
  \A s \in SUBSET (1 .. N) :
     f[s] = IF s = {} THEN base ELSE KeyReported(f[s \ {Max(s)}], keys[Max(s)], val[keys[Max(s)]])

\* A step for every key of a sequence: the table of its fold exists ...
LEMMA KeysFoldTable ==
  ASSUME NEW N \in Nat, NEW keys \in [1 .. N -> AllKeys], NEW val \in [AllKeys -> 0 .. 1],
         NEW base \in Keyboards
  PROVE  \E f \in [SUBSET (1 .. N) -> Keyboards] : KeysTable(f, N, keys, val, base)
<1> DEFINE op == [p \in Keyboards \X (1 .. N) |-> KeyReported(p[1], keys[p[2]], val[keys[p[2]]])]
<1>1. op \in [Keyboards \X (1 .. N) -> Keyboards]
  <2>1. ASSUME NEW p \in Keyboards \X (1 .. N)
        PROVE  KeyReported(p[1], keys[p[2]], val[keys[p[2]]]) \in Keyboards
    <3>1. /\ p[1] \in Keyboards /\ keys[p[2]] \in AllKeys
          /\ val[keys[p[2]]] \in 0 .. 1 /\ val[keys[p[2]]] \in 0 .. 2 /\ val[keys[p[2]]] # 2
      OBVIOUS
    <3> QED BY <3>1, KeyReportedKeeps
  <2> QED BY <2>1
<1>2. \A x \in Keyboards, i \in 1 .. N : op[<<x, i>>] = KeyReported(x, keys[i], val[keys[i]])
  OBVIOUS
<1> HIDE DEF op
<1>3. PICK f \in [SUBSET (1 .. N) -> Keyboards] : FoldedTable(f, N, base, op)
  BY <1>1, FoldTable
<1>4. ASSUME NEW s \in SUBSET (1 .. N), s # {}
      PROVE  op[<<f[s \ {Max(s)}], Max(s)>>] = KeyReported(f[s \ {Max(s)}], keys[Max(s)], val[keys[Max(s)]])
  <2>1. Max(s) \in 1 .. N /\ f[s \ {Max(s)}] \in Keyboards
    BY <1>3, <1>4, Greatest
  <2> QED BY <1>2, <2>1
<1>5. ASSUME NEW s \in SUBSET (1 .. N)
      PROVE  f[s] = IF s = {} THEN base
                    ELSE KeyReported(f[s \ {Max(s)}], keys[Max(s)], val[keys[Max(s)]])
  BY <1>3, <1>4 DEF FoldedTable
<1> QED BY <1>3, <1>5 DEF KeysTable

\* ... and it ends with a keyboard.
LEMMA KeysFoldKept ==
  ASSUME NEW N \in Nat, NEW keys \in [1 .. N -> AllKeys], NEW val \in [AllKeys -> 0 .. 1],
         NEW base \in Keyboards, NEW g, KeysTable(g, N, keys, val, base)
  PROVE  g[1 .. N] \in Keyboards
<1>1. g[{}] \in Keyboards
  <2>1. {} \in SUBSET (1 .. N)
    OBVIOUS
  <2> QED BY <2>1 DEF KeysTable
<1>2. ASSUME NEW n \in 0 .. N - 1, g[1 .. n] \in Keyboards
      PROVE  g[1 .. n + 1] \in Keyboards
  <2> DEFINE s == 1 .. n + 1
  <2>0. n \in Nat /\ n + 1 <= N /\ n + 1 \in 1 .. N
    OBVIOUS
  <2>1. s \in SUBSET (1 .. N) /\ s # {} /\ n + 1 \in s
    <3>1. \A i \in 1 .. n + 1 : i \in 1 .. N
      BY <2>0
    <3>2. n + 1 \in 1 .. n + 1
      BY <2>0
    <3> QED BY <3>1, <3>2
  <2>2. s \ {n + 1} = 1 .. n
    <3>1. \A i \in Int : i \in s \ {n + 1} <=> i \in 1 .. n
      BY <2>0
    <3>2. s \subseteq Int /\ 1 .. n \subseteq Int
      BY <2>0
    <3> HIDE DEF s
    <3> QED BY <3>1, <3>2
  <2>3. Max(s) = n + 1
    BY <2>0, <2>1, GreatestOf
  <2> HIDE DEF s
  <2>4. g[s] = KeyReported(g[1 .. n], keys[n + 1], val[keys[n + 1]])
    BY <2>1, <2>2, <2>3 DEF KeysTable
  <2>5. /\ keys[n + 1] \in AllKeys /\ val[keys[n + 1]] \in 0 .. 1
        /\ val[keys[n + 1]] \in 0 .. 2 /\ val[keys[n + 1]] # 2
    BY <2>0
  <2>6. g[s] \in Keyboards
    BY <1>2, <2>4, <2>5, KeyReportedKeeps
  <2> QED BY <2>6 DEF s
<1>3. \A n \in 0 .. N - 1 : g[1 .. n] \in Keyboards => g[1 .. n + 1] \in Keyboards
  BY <1>2
<1> QED BY <1>1, <1>3, FoldKept

\* What FoldLeft computes for the modifiers of a HID report.
ModifiersTable(N, keys, mods, base) ==
  CHOOSE f : f = [s \in SUBSET (1 .. N) |->
                    IF s = {} THEN base
                    ELSE KeyReported(f[s \ {Max(s)}], keys[Max(s)], IF keys[Max(s)] \in mods THEN 1 ELSE 0)]

\* The modifiers of a HID report.
LEMMA ModifiersFold ==
  ASSUME NEW N \in Nat, NEW keys \in [1 .. N -> AllKeys], NEW mods, NEW base \in Keyboards
  PROVE  ModifiersTable(N, keys, mods, base)[1 .. N] \in Keyboards
<1> DEFINE val == [k \in AllKeys |-> IF k \in mods THEN 1 ELSE 0]
           Table(f) == f = [s \in SUBSET (1 .. N) |->
                         IF s = {} THEN base
                         ELSE KeyReported(f[s \ {Max(s)}], keys[Max(s)],
                                          IF keys[Max(s)] \in mods THEN 1 ELSE 0)]
           g == CHOOSE f : Table(f)
<1>1. val \in [AllKeys -> 0 .. 1] /\ \A k \in AllKeys : val[k] = IF k \in mods THEN 1 ELSE 0
  OBVIOUS
<1> HIDE DEF val
<1>3. \A s \in SUBSET (1 .. N) : s # {} => keys[Max(s)] \in AllKeys
  BY Greatest
<1>4. \E f : Table(f)
  <2>1. PICK f \in [SUBSET (1 .. N) -> Keyboards] : KeysTable(f, N, keys, val, base)
    BY <1>1, KeysFoldTable
  <2>2. \A s \in SUBSET (1 .. N) :
            f[s] = IF s = {} THEN base
                   ELSE KeyReported(f[s \ {Max(s)}], keys[Max(s)], IF keys[Max(s)] \in mods THEN 1 ELSE 0)
    BY <1>1, <1>3, <2>1 DEF KeysTable
  <2>3. Table(f)
    BY <2>1, <2>2
  <2> QED BY <2>3
<1>5. Table(g)
  <2> HIDE DEF Table
  <2> QED BY <1>4
<1>6. ModifiersTable(N, keys, mods, base) = g
  BY Zenon DEF ModifiersTable
<1> HIDE DEF g
<1>7. KeysTable(g, N, keys, val, base)
  <2> USE DEF KeysTable
  <2> TAKE s \in SUBSET (1 .. N)
  <2>1. g[s] = IF s = {} THEN base
               ELSE KeyReported(g[s \ {Max(s)}], keys[Max(s)], IF keys[Max(s)] \in mods THEN 1 ELSE 0)
    BY <1>5, Zenon
  <2> QED BY <1>1, <1>3, <2>1
<1>8. g[1 .. N] \in Keyboards
  BY <1>1, <1>7, KeysFoldKept
<1> QED BY <1>6, <1>8

\* The keys of a HID report.
LEMMA PressesFold ==
  ASSUME NEW N \in Nat, NEW keys \in [1 .. N -> AllKeys], NEW base \in Keyboards
  PROVE  LET Press(kbd, k) == KeyReported(kbd, k, 1) IN FoldLeft(Press, base, keys) \in Keyboards
<1> DEFINE val == [k \in AllKeys |-> 1]
           Table(f) == f = [s \in SUBSET (1 .. N) |->
                         IF s = {} THEN base ELSE KeyReported(f[s \ {Max(s)}], keys[Max(s)], 1)]
           g == CHOOSE f : Table(f)
<1>1. val \in [AllKeys -> 0 .. 1] /\ \A k \in AllKeys : val[k] = 1
  OBVIOUS
<1>2. DOMAIN keys = 1 .. N
  OBVIOUS
<1> HIDE DEF val
<1>3. \A s \in SUBSET (1 .. N) : s # {} => keys[Max(s)] \in AllKeys
  BY Greatest
<1>4. \E f : Table(f)
  <2>1. PICK f \in [SUBSET (1 .. N) -> Keyboards] : KeysTable(f, N, keys, val, base)
    BY <1>1, KeysFoldTable
  <2>2. \A s \in SUBSET (1 .. N) :
            f[s] = IF s = {} THEN base ELSE KeyReported(f[s \ {Max(s)}], keys[Max(s)], 1)
    BY <1>1, <1>3, <2>1 DEF KeysTable
  <2>3. Table(f)
    BY <2>1, <2>2
  <2> QED BY <2>3
<1>5. Table(g)
  <2> HIDE DEF Table
  <2> QED BY <1>4
<1>6. FoldLeft(LAMBDA kbd, k : KeyReported(kbd, k, 1), base, keys) = g[1 .. N]
  BY <1>2, Zenon DEF FoldLeft, MapThenFoldSet
<1> HIDE DEF g
<1>7. KeysTable(g, N, keys, val, base)
  <2> USE DEF KeysTable
  <2> TAKE s \in SUBSET (1 .. N)
  <2>1. g[s] = IF s = {} THEN base ELSE KeyReported(g[s \ {Max(s)}], keys[Max(s)], 1)
    BY <1>5, Zenon
  <2> QED BY <1>1, <1>3, <2>1
<1>8. g[1 .. N] \in Keyboards
  BY <1>1, <1>7, KeysFoldKept
<1> QED BY <1>6, <1>8

\* The sequence of the modifier keys has every position filled.
LEMMA ModifierKeysSeq ==
  \E n \in Nat : ModifierKeys \in [1 .. n -> AllKeys]
<1> DEFINE n == Cardinality(ModKeys)
<1>1. IsFiniteSet(ModKeys)
  BY InputAssumption
<1>2. n \in Nat
  BY <1>1, FS_CardinalityType
<1>3. \E f \in [1 .. n -> ModKeys] : IsInjective(f)
  <2>1. PICK m \in Nat : ExistsBijection(1 .. m, ModKeys)
    BY <1>1, FS_NatBijection
  <2>2. PICK f \in Bijection(1 .. m, ModKeys) : TRUE
    BY <2>1 DEF ExistsBijection
  <2>3. m = n
    <3>1. IsFiniteSet(1 .. m) /\ Cardinality(1 .. m) = m
      BY <2>1, FS_Interval
    <3> QED BY <2>1, <3>1, FS_Bijection
  <2>4. f \in [1 .. m -> ModKeys] /\ IsInjective(f)
    BY <2>2 DEF Bijection, Injection, IsInjective
  <2> QED BY <2>3, <2>4
<1> HIDE DEF n
<1>4. SetToSeq(ModKeys) \in [1 .. n -> ModKeys]
  BY <1>3 DEF SetToSeq, n
<1> QED BY <1>2, <1>4 DEF ModifierKeys, AllKeys

-----------------------------------------------------------------------------
(* What holds of keyboard, mouse and buffers together.                     *)

InputInv ==
  /\ Keyboard \in Keyboards
  /\ mouse \in [x : Int, screen : Screens, pressed : {0, 1}] /\ PointerOnScreen

\* A keyboard call leaves a keyboard.
LEMMA KeyboardSet ==
  ASSUME NEW kbd \in Keyboards, SetKeyboard(kbd)
  PROVE  (Keyboard \in Keyboards)'
<1>1. kbd = [keys |-> kbd.keys, mods |-> kbd.mods, told |-> kbd.told, strays |-> kbd.strays,
            queues |-> kbd.queues]
      /\ kbd.queues \in AnyQueues
  BY DEF Keyboards
<1>2. kbd.queues = [buffers |-> kbd.queues.buffers, accepted |-> kbd.queues.accepted]
  BY <1>1 DEF AnyQueues
<1>3. Keyboard' = kbd
  BY <1>1, <1>2 DEF SetKeyboard, SetQueues, Keyboard, Queues
<1>4. Keyboards' = Keyboards
  BY DEF Keyboards
<1> QED BY <1>3, <1>4

\* Another state of the buffers alone leaves a keyboard.
LEMMA QueuesSet ==
  ASSUME Keyboard \in Keyboards, NEW q \in AnyQueues, SetQueues(q), UNCHANGED <<key_state, modifiers, told, strays>>
  PROVE  (Keyboard \in Keyboards)'
<1> DEFINE kbd == [keys |-> key_state, mods |-> modifiers, told |-> told, strays |-> strays, queues |-> q]
<1>1. /\ key_state \in SUBSET AllKeys /\ modifiers \in SUBSET AllKeys /\ told \in [AllKeys -> 0 .. 2]
      /\ \A k \in AllKeys : told[k] = 1 <=> k \in key_state
      /\ modifiers \cap ModKeys = (key_state \cap ModKeys) \cup strays
      /\ strays \in SUBSET ModKeys /\ strays \cap key_state = {}
  BY DEF Keyboard, Keyboards, Follows
<1>2. kbd \in Keyboards
  BY <1>1 DEF Keyboards, Follows
<1>3. SetKeyboard(kbd)
  BY DEF SetKeyboard
<1> HIDE DEF kbd
<1> QED BY <1>2, <1>3, KeyboardSet

\* Acceleration and clamping are about integers.
LEMMA AcceleratedInt == \A d \in Int : Accelerated(d) \in Int
<1> TAKE d \in Int
<1>1. AccelNum \in Nat /\ AccelDen \in Nat /\ Threshold \in Nat /\ IntMod \in Nat \ {0}
  BY InputAssumption
<1>2. CASE AccelNum > 0 /\ AccelDen > 0
  <2> DEFINE y == d * AccelNum
             z == y % IntMod
             r == z \div AccelDen
  <2>1. y \in Int
    BY <1>1
  <2> HIDE DEF y
  <2>2. z \in Int
    BY <1>1, <2>1, DivMod
  <2> HIDE DEF z
  <2>3. r \in Int
    <3>1. AccelDen \in Nat \ {0}
      BY <1>1, <1>2
    <3> QED BY <2>2, <3>1, DivMod
  <2> HIDE DEF r
  <2>4. AsInt(r) \in Int
    <3>1. r % IntMod \in Int
      BY <1>1, <2>3, DivMod
    <3> QED BY <1>1, <3>1 DEF AsInt
  <2>5. AsInt(((d * AccelNum) % IntMod) \div AccelDen) \in Int
    BY <2>4 DEF r, z, y
  <2> QED BY <2>5 DEF Accelerated
<1>3. CASE ~(AccelNum > 0 /\ AccelDen > 0)
  BY <1>3 DEF Accelerated
<1> QED BY <1>2, <1>3

\* A wrapped integer is an integer.
LEMMA AsIntInt == \A x \in Int : AsInt(x) \in Int
<1> TAKE x \in Int
<1>1. IntMod \in Nat \ {0}
  BY InputAssumption
<1>2. x % IntMod \in Int
  BY <1>1, DivMod
<1> QED BY <1>1, <1>2 DEF AsInt

\* The calls of a handler's client.
LEMMA ClientCallsKeep ==
  ASSUME InputInv, ClientCalls
  PROVE  InputInv'
<1>1. /\ Queues \in AnyQueues /\ QueuesOK(Queues)
      /\ Queues = [buffers |-> buffers, accepted |-> accepted]
      /\ buffers \in [Handlers -> Buffer] /\ accepted \in [Handlers -> Seq(AnyEvent)]
      /\ \A h \in Handlers : BufferOK(buffers[h], accepted[h])
  BY DEF InputInv, Keyboard, Keyboards, Queues, AnyQueues, QueuesOK
<1>2. UNCHANGED mouse /\ UNCHANGED <<key_state, modifiers, told, strays>>
  BY DEF ClientCalls, InputRegisterHandler, InputUnregisterHandler, InputEventRead, InputSyncDevice
<1>3. \E q \in AnyQueues : SetQueues(q)
  <2>1. CASE UNCHANGED <<buffers, accepted>>
    BY <1>1, <2>1 DEF SetQueues
  <2>2. CASE InputSyncDevice
    <3>1. Syn \in AnyEvent
      BY DEF Syn, AnyEvent
    <3> QED BY <1>1, <2>2, <3>1, ReportedStays DEF InputSyncDevice
  <2>3. ASSUME NEW h \in Handlers, InputEventRead(h)
        PROVE  \E q \in AnyQueues : SetQueues(q)
    <3> DEFINE c == [buffers[h] EXCEPT !.tail = (@ + 1) % CountMod]
               q == [buffers |-> [buffers EXCEPT ![h] = c], accepted |-> [accepted EXCEPT ![h] = Tail(@)]]
    <3>1. BufferOK(c, Tail(accepted[h]))
      BY <1>1, <2>3, ReadKeeps DEF InputEventRead
    <3>2. buffers' = [buffers EXCEPT ![h] = c] /\ accepted' = [accepted EXCEPT ![h] = Tail(@)]
      BY <2>3 DEF InputEventRead
    <3> HIDE DEF c
    <3>3. c \in Buffer /\ Tail(accepted[h]) \in Seq(AnyEvent)
      BY <3>1 DEF BufferOK
    <3>4. q.buffers \in [Handlers -> Buffer] /\ q.accepted \in [Handlers -> Seq(AnyEvent)]
      BY <1>1, <3>3
    <3>5. \A i \in Handlers : BufferOK(q.buffers[i], q.accepted[i])
      BY <1>1, <3>1
    <3>6. q \in AnyQueues
      BY <3>4, <3>5 DEF AnyQueues, QueuesOK
    <3>7. SetQueues(q)
      BY <3>2 DEF SetQueues
    <3> QED BY <3>6, <3>7
  <2> QED BY <2>1, <2>2, <2>3 DEF ClientCalls, InputRegisterHandler, InputUnregisterHandler
<1>4. (Keyboard \in Keyboards)'
  BY <1>2, <1>3, QueuesSet DEF InputInv
<1> QED BY <1>2, <1>4 DEF InputInv, PointerOnScreen

\* The reports of a keyboard.
LEMMA KeyboardCallsKeep ==
  ASSUME InputInv, KeyboardCalls
  PROVE  InputInv'
<1>1. UNCHANGED mouse
  BY DEF KeyboardCalls, KeyboardReportKey, HidKeyboardReport
<1>2. ASSUME NEW k \in AllKeys, NEW v \in 0 .. 2, KeyboardReportKey(k, v)
      PROVE  (Keyboard \in Keyboards)'
  <2>1. KeyReported(Keyboard, k, v) \in Keyboards
    BY KeyReportedKeeps DEF InputInv
  <2> QED BY <1>2, <2>1, KeyboardSet DEF KeyboardReportKey
<1>3. ASSUME NEW mods \in SUBSET ModKeys, NEW k \in Keys, HidKeyboardReport(mods, <<k>>)
      PROVE  (Keyboard \in Keyboards)'
  <2> DEFINE base == FoldLeft(LAMBDA kbd, j : KeyReported(kbd, j, IF j \in mods THEN 1 ELSE 0),
                              Keyboard, ModifierKeys)
             reported == FoldLeft(LAMBDA kbd, j : KeyReported(kbd, j, 1), base, <<k>>)
  <2>1. base \in Keyboards
    <3>1. PICK n \in Nat : ModifierKeys \in [1 .. n -> AllKeys]
      BY ModifierKeysSeq
    <3>2. Keyboard \in Keyboards
      BY DEF InputInv
    <3>3. ModifiersTable(n, ModifierKeys, mods, Keyboard)[1 .. n] \in Keyboards
      BY <3>1, <3>2, ModifiersFold
    <3>4. DOMAIN ModifierKeys = 1 .. n
      BY <3>1
    <3>5. base = ModifiersTable(n, ModifierKeys, mods, Keyboard)[1 .. n]
      BY <3>4, Zenon DEF FoldLeft, MapThenFoldSet, ModifiersTable
    <3> QED BY <3>3, <3>5
  <2>2. reported \in Keyboards
    <3>1. <<k>> \in [1 .. 1 -> AllKeys]
      BY DEF AllKeys
    <3> HIDE DEF base
    <3> QED BY <2>1, <3>1, PressesFold
  <2>3. SetKeyboard([reported EXCEPT !.queues = Reported(@, Syn)])
    BY <1>3, Zenon DEF HidKeyboardReport
  <2> HIDE DEF reported
  <2>4. [reported EXCEPT !.queues = Reported(@, Syn)] \in Keyboards
    <3>1. Syn \in AnyEvent
      BY DEF Syn, AnyEvent
    <3>2. Reported(reported.queues, Syn) \in AnyQueues
      BY <2>2, <3>1, ReportedStays DEF Keyboards
    <3> QED BY <2>2, <3>2 DEF Keyboards, Follows
  <2> QED BY <2>3, <2>4, KeyboardSet
<1>4. (Keyboard \in Keyboards)'
  BY <1>2, <1>3 DEF KeyboardCalls
<1> QED BY <1>1, <1>4 DEF InputInv, PointerOnScreen

\* The reports of a mouse.
LEMMA MouseCallsKeep ==
  ASSUME InputInv, MouseCalls
  PROVE  InputInv'
<1>0. PICK x \in Int, w \in Screens, b \in {0, 1} : mouse = [x |-> x, screen |-> w, pressed |-> b]
  BY DEF InputInv
<1>1. /\ mouse.x = x /\ mouse.screen = w /\ mouse.pressed = b
      /\ x \in 0 .. w - 1 /\ w \in Int /\ w >= 1
      /\ Queues \in AnyQueues /\ Keyboard \in Keyboards
  BY <1>0, InputAssumption DEF InputInv, PointerOnScreen, Keyboard, Keyboards
<1>2. /\ UNCHANGED <<key_state, modifiers, told, strays>>
      /\ \E q \in AnyQueues : SetQueues(q)
  <2>1. ASSUME NEW d \in Moves, MouseReportMovement(d)
        PROVE  \E q \in AnyQueues : SetQueues(q)
    <3>1. d \in Int
      BY InputAssumption
    <3>2. Accelerated(d) \in Int
      BY <3>1, AcceleratedInt
    <3>3. [type |-> "rel", code |-> "x", value |-> Accelerated(d)] \in AnyEvent
      BY <3>2 DEF AnyEvent
    <3> QED BY <1>1, <2>1, <3>3, ReportedStays DEF MouseReportMovement
  <2>2. ASSUME NEW v \in {0, 1}, MouseReportButton(v)
        PROVE  \E q \in AnyQueues : SetQueues(q)
    <3>1. [type |-> "key", code |-> "button", value |-> v] \in AnyEvent
      BY DEF AnyEvent
    <3> QED BY <1>1, <2>2, <3>1, ReportedStays DEF MouseReportButton
  <2>3. ASSUME NEW v \in Screens, MouseSetBounds(v)
        PROVE  \E q \in AnyQueues : SetQueues(q)
    BY <1>1, <2>3 DEF MouseSetBounds, SetQueues, Queues
  <2> QED BY <2>1, <2>2, <2>3 DEF MouseCalls, MouseReportMovement, MouseReportButton, MouseSetBounds
<1>3. (Keyboard \in Keyboards)'
  BY <1>1, <1>2, QueuesSet
<1>4. (mouse \in [x : Int, screen : Screens, pressed : {0, 1}] /\ PointerOnScreen)'
  <2>1. ASSUME NEW d \in Moves, MouseReportMovement(d)
        PROVE  (mouse \in [x : Int, screen : Screens, pressed : {0, 1}] /\ PointerOnScreen)'
    <3>1. d \in Int
      BY InputAssumption
    <3>2. Accelerated(d) \in Int
      BY <3>1, AcceleratedInt
    <3> DEFINE a == Accelerated(d)
               y == AsInt(x + a)
    <3>3. y \in Int
      <4> HIDE DEF a
      <4>1. x + a \in Int
        BY <3>2 DEF a
      <4> QED BY <4>1, AsIntInt
    <3>4. mouse' = [x |-> Clamped(y, w), screen |-> w, pressed |-> b]
      BY <1>0, <2>1 DEF MouseReportMovement
    <3> HIDE DEF a, y
    <3>5. Clamped(y, w) \in 0 .. w - 1
      BY <1>1, <3>3 DEF Clamped
    <3> HIDE DEF Clamped
    <3> QED BY <1>1, <3>4, <3>5 DEF PointerOnScreen
  <2>2. ASSUME NEW v \in {0, 1}, MouseReportButton(v)
        PROVE  (mouse \in [x : Int, screen : Screens, pressed : {0, 1}] /\ PointerOnScreen)'
    <3>1. mouse' = [x |-> x, screen |-> w, pressed |-> v]
      BY <1>0, <2>2 DEF MouseReportButton
    <3> QED BY <1>1, <3>1 DEF PointerOnScreen
  <2>3. ASSUME NEW v \in Screens, MouseSetBounds(v)
        PROVE  (mouse \in [x : Int, screen : Screens, pressed : {0, 1}] /\ PointerOnScreen)'
    <3>1. mouse' = [x |-> IF x >= v THEN v - 1 ELSE x, screen |-> v, pressed |-> b]
      BY <1>0, <2>3 DEF MouseSetBounds, WithBounds
    <3>2. v \in Int /\ v >= 1
      BY InputAssumption
    <3>3. (IF x >= v THEN v - 1 ELSE x) \in 0 .. v - 1
      BY <1>1, <3>2
    <3> QED BY <3>1, <3>2, <3>3 DEF PointerOnScreen
  <2> QED BY <2>1, <2>2, <2>3 DEF MouseCalls
<1> QED BY <1>3, <1>4 DEF InputInv

\* Every step of the devices preserves the invariant of the input queues.
LEMMA InputStep == InputInv /\ [DevicesNext]_allVars => InputInv'
<1> SUFFICES ASSUME InputInv, [DevicesNext]_allVars PROVE InputInv'
  OBVIOUS
<1>1. CASE ClientCalls
  BY <1>1, ClientCallsKeep
<1>2. CASE KeyboardCalls
  BY <1>2, KeyboardCallsKeep
<1>3. CASE MouseCalls
  BY <1>3, MouseCallsKeep
<1>4. CASE UNCHANGED inputVars
  <2>1. Keyboard' = Keyboard /\ mouse' = mouse
    BY <1>4 DEF inputVars, Keyboard, Queues
  <2>2. Keyboards' = Keyboards
    BY DEF Keyboards
  <2> QED BY <2>1, <2>2 DEF InputInv, PointerOnScreen
<1>5. ClientCalls \/ KeyboardCalls \/ MouseCalls \/ UNCHANGED inputVars
  BY DEF DevicesNext, PartsNext, Input, Usb, Rings, Buffers, Heap, Resampler, deviceVars, allVars
<1> QED BY <1>1, <1>2, <1>3, <1>4, <1>5

\* The input queues start in their invariant.
LEMMA InputInitial == InputInit => InputInv
<1> SUFFICES ASSUME InputInit PROVE InputInv
  OBVIOUS
<1> DEFINE b == [events |-> [i \in 0 .. BufferSize - 1 |-> NoEvent], head |-> 0, tail |-> 0]
<1>1. BufferSize \in Nat \ {0} /\ CountMod \in Nat \ {0} /\ 0 \in 0 .. CountMod - 1
  BY InputAssumption
<1>2. BufferOK(b, <<>>)
  <2>1. b \in Buffer
    BY <1>1 DEF Buffer, NoEvent, AnyEvent
  <2>2. Available(b) = 0
    <3>1. 0 % CountMod = 0 /\ 0 - 0 = 0
      BY <1>1, ModSmall
    <3> QED BY <3>1 DEF Available
  <2>3. Len(<<>>) = 0 /\ <<>> \in Seq(AnyEvent) /\ 1 .. Len(<<>>) = {}
    OBVIOUS
  <2> HIDE DEF b
  <2> QED BY <1>1, <2>1, <2>2, <2>3 DEF BufferOK
<1> HIDE DEF b
<1>3. buffers = [h \in Handlers |-> b] /\ accepted = [h \in Handlers |-> <<>>]
  BY DEF InputInit, b
<1>4. Queues \in AnyQueues
  <2>1. b \in Buffer /\ <<>> \in Seq(AnyEvent)
    BY <1>2 DEF BufferOK
  <2> QED BY <1>2, <1>3, <2>1 DEF Queues, AnyQueues, QueuesOK
<1>5. Keyboard \in Keyboards
  <2>1. key_state = {} /\ modifiers = {} /\ told = [k \in AllKeys |-> 0] /\ strays = {}
    BY DEF InputInit
  <2> QED BY <1>4, <2>1 DEF Keyboard, Keyboards, Follows
<1>6. PICK w \in Screens : mouse = [x |-> 0, screen |-> w, pressed |-> 0]
  BY DEF InputInit
<1>7. w \in Int /\ w >= 1
  BY InputAssumption
<1> QED BY <1>5, <1>6, <1>7 DEF InputInv, PointerOnScreen

\* What the buffers, the followers of reports and the screen need of it.
LEMMA InputFacts == InputInv => BufferIsQueue /\ InputFollowed
<1> SUFFICES ASSUME InputInv PROVE BufferIsQueue /\ InputFollowed
  OBVIOUS
<1>1. ASSUME NEW h \in Handlers
      PROVE  /\ Len(accepted[h]) = Available(buffers[h])
             /\ \A i \in 1 .. Len(accepted[h]) : accepted[h][i] = buffers[h].events[SlotIn(buffers[h], i)]
             /\ buffers[h].tail \in Int /\ Len(accepted[h]) \in Nat
  <2>1. BufferOK(buffers[h], accepted[h])
    BY DEF InputInv, Keyboard, Keyboards, Queues, AnyQueues, QueuesOK
  <2>2. accepted[h] \in Seq(AnyEvent) /\ buffers[h].tail \in 0 .. CountMod - 1
    BY <2>1 DEF BufferOK, Buffer
  <2> QED BY <2>1, <2>2, LenProperties DEF BufferOK
<1>2. \A t \in Int, i \in Int : t + i - 1 = t + (i - 1)
  OBVIOUS
<1>3. ASSUME NEW h \in Handlers, NEW i \in 1 .. Len(accepted[h])
      PROVE  ((buffers[h].tail + i - 1) % CountMod) % BufferSize = SlotIn(buffers[h], i)
  <2>1. i \in Int /\ buffers[h].tail \in Int
    BY <1>1, <1>3
  <2> QED BY <1>2, <2>1 DEF SlotIn
<1>4. BufferIsQueue
  BY <1>1, <1>3 DEF BufferIsQueue
<1>5. ReportsFollowKeys
  BY DEF InputInv, Keyboard, Keyboards, Follows, ReportsFollowKeys
<1> QED BY <1>4, <1>5 DEF InputInv, InputFollowed

\* EventsQueued: events arrive once and in order.  What a handler has not read is in
\* its buffer, in the order it was accepted; and as long as no two calls that take
\* events from the rings overlap, what they take is what the device put there, with every
\* descriptor on one side, whatever the device does between their statements, for any
\* sizes of buffers and rings.
THEOREM EventsQueuedCorrect == DevicesSpec => []EventsQueued
<1>1. DevicesInit => InputInv /\ RingsAlways
  BY InputInitial, RingsInitial DEF DevicesInit, PartsInit, RingsAlways
<1>2. InputInv /\ RingsAlways /\ [DevicesNext]_allVars => (InputInv /\ RingsAlways)'
  BY InputStep, RingsStep
<1>3. InputInv /\ RingsAlways => EventsQueued
  BY InputFacts, RingsInvDescs DEF RingsAlways, RingsInv, EventsInOrder, EventsQueued
<1> QED BY <1>1, <1>2, <1>3, PTL DEF DevicesSpec

-----------------------------------------------------------------------------
(* The device list of kernel/input_event.c.                                *)

\* The i-th device of a list of m, Nil behind its end.
Place(q, m, i) == IF i <= m THEN q[i] ELSE Nil

\* List l links the devices of S, each once, in the order of q.
Chain(l, q, m, S) ==
  /\ l = [head |-> l.head, next |-> l.next] /\ l.next \in [Devices -> Devices \cup {Nil}]
  /\ m \in Nat /\ S \in SUBSET Devices /\ q \in [1 .. m -> S]
  /\ \A d \in S : \E i \in 1 .. m : q[i] = d
  /\ \A i, j \in 1 .. m : q[i] = q[j] => i = j
  /\ l.head = Place(q, m, 1)
  /\ \A i \in 1 .. m : l.next[q[i]] = Place(q, m, i + 1)

Listing(l, S) == \E m \in Nat : \E q \in [1 .. m -> S] : Chain(l, q, m, S)

\* What the constants say of the USB devices.
LEMMA DevicesNotNil == Nil \notin Devices /\ IsFiniteSet(Devices) /\ Hids \in SUBSET Devices
                       /\ HidDevs[1] # HidDevs[2]
<1>1. Devices = {HidDevs[1], HidDevs[2]} \cup BootDevs
  BY UsbAssumption DEF Devices
<1>2. IsFiniteSet({HidDevs[1]} \cup {HidDevs[2]})
  BY FS_Singleton, FS_AddElement
<1>3. {HidDevs[1], HidDevs[2]} = {HidDevs[1]} \cup {HidDevs[2]}
  OBVIOUS
<1>4. IsFiniteSet(Devices)
  BY <1>1, <1>2, <1>3, UsbAssumption, FS_Union
<1> QED BY <1>1, <1>4, UsbAssumption DEF Nil, Hids

\* The walk from the head meets the devices in that order.
LEMMA MetIs ==
  ASSUME NEW l, NEW q, NEW m, NEW S, Chain(l, q, m, S), NEW n \in Nat \ {0}
  PROVE  Met(l, n) = Place(q, m, n)
<1> DEFINE Walk(f) == f = [i \in 1 .. n |->
                        IF i = 1 THEN l.head ELSE IF f[i - 1] = Nil THEN Nil ELSE l.next[f[i - 1]]]
           reach == CHOOSE f : Walk(f)
           p  == [i \in 1 .. n |-> Place(q, m, i)]
<1>1. /\ m \in Nat /\ S \in SUBSET Devices /\ q \in [1 .. m -> S]
      /\ l.head = Place(q, m, 1)
      /\ \A i \in 1 .. m : l.next[q[i]] = Place(q, m, i + 1)
  BY DEF Chain
<1>2. \A i \in 1 .. n : i # 1 => (IF Place(q, m, i - 1) = Nil THEN Nil ELSE l.next[Place(q, m, i - 1)])
                                    = Place(q, m, i)
  <2> SUFFICES ASSUME NEW i \in 1 .. n, i # 1
               PROVE  (IF Place(q, m, i - 1) = Nil THEN Nil ELSE l.next[Place(q, m, i - 1)]) = Place(q, m, i)
    OBVIOUS
  <2> DEFINE j == i - 1
  <2>1. j \in Nat \ {0} /\ i = j + 1 /\ i \in Int
    OBVIOUS
  <2> HIDE DEF j
  <2>2. CASE j <= m
    <3>1. j \in 1 .. m
      BY <1>1, <2>1, <2>2
    <3>2. Place(q, m, j) = q[j] /\ q[j] \in Devices
      BY <1>1, <2>2, <3>1 DEF Place
    <3>3. Place(q, m, j) # Nil
      BY <3>2, DevicesNotNil
    <3>4. l.next[Place(q, m, j)] = Place(q, m, j + 1)
      BY <1>1, <3>1, <3>2
    <3>5. (IF Place(q, m, j) = Nil THEN Nil ELSE l.next[Place(q, m, j)]) = Place(q, m, j + 1)
      BY <3>3, <3>4
    <3> QED BY <2>1, <3>5 DEF j
  <2>3. CASE ~(j <= m)
    <3>1. ~(j + 1 <= m)
      BY <1>1, <2>1, <2>3
    <3>2. Place(q, m, j) = Nil /\ Place(q, m, j + 1) = Nil
      BY <2>3, <3>1 DEF Place
    <3> QED BY <2>1, <3>2 DEF j
  <2> QED BY <2>2, <2>3
<1>3. Walk(p)
  <2>1. ASSUME NEW i \in 1 .. n
        PROVE  p[i] = IF i = 1 THEN l.head ELSE IF p[i - 1] = Nil THEN Nil ELSE l.next[p[i - 1]]
    <3>1. CASE i = 1
      BY <1>1, <3>1
    <3>2. CASE i # 1
      <4>1. i - 1 \in 1 .. n
        BY <3>2
      <4>2. p[i - 1] = Place(q, m, i - 1) /\ p[i] = Place(q, m, i)
        BY <4>1
      <4> QED BY <1>2, <3>2, <4>2
    <3> QED BY <3>1, <3>2
  <2> QED BY <2>1
<1>4. Walk(reach)
  <2> HIDE DEF Walk, p
  <2> QED BY <1>3
<1>5. Met(l, n) = reach[n]
  BY Zenon DEF Met
<1>6. \A i \in 1 .. n : reach[i] = IF i = 1 THEN l.head ELSE IF reach[i - 1] = Nil THEN Nil ELSE l.next[reach[i - 1]]
  <2> HIDE DEF reach
  <2> TAKE i \in 1 .. n
  <2> QED BY <1>4, Zenon
<1> HIDE DEF reach
<1> DEFINE Bad == {i \in 1 .. n : reach[i] # Place(q, m, i)}
<1>7. Bad = {}
  <2> SUFFICES ASSUME Bad # {} PROVE FALSE
    OBVIOUS
  <2>1. PICK i \in Bad : \A j \in Bad : i <= j
    <3>1. Bad \in SUBSET Nat
      OBVIOUS
    <3> HIDE DEF Bad
    <3> QED BY <3>1, Least
  <2>2. i \in 1 .. n /\ reach[i] # Place(q, m, i)
    BY <2>1
  <2>3. CASE i = 1
    BY <1>1, <1>6, <2>2, <2>3
  <2>4. CASE i # 1
    <3>1. i - 1 \in 1 .. n /\ ~(i <= i - 1)
      BY <2>2, <2>4
    <3>2. i - 1 \notin Bad
      <4> HIDE DEF Bad
      <4> QED BY <2>1, <3>1
    <3>3. reach[i - 1] = Place(q, m, i - 1)
      BY <3>1, <3>2
    <3>4. reach[i] = IF reach[i - 1] = Nil THEN Nil ELSE l.next[reach[i - 1]]
      BY <1>6, <2>2, <2>4
    <3>5. reach[i] = Place(q, m, i)
      BY <1>2, <2>2, <2>4, <3>3, <3>4
    <3> QED BY <2>2, <3>5
  <2> QED BY <2>3, <2>4
<1>8. reach[n] = Place(q, m, n)
  <2>1. n \in 1 .. n
    OBVIOUS
  <2>2. n \notin Bad
    <3> HIDE DEF Bad
    <3> QED BY <1>7
  <2> QED BY <2>1, <2>2
<1> QED BY <1>5, <1>8

\* Its length is the number of its devices, and at most that of all.
LEMMA ChainLength ==
  ASSUME NEW l, NEW q, NEW m, NEW S, Chain(l, q, m, S)
  PROVE  m = Cardinality(S) /\ m <= Cardinality(Devices) /\ Cardinality(Devices) \in Nat
<1>1. m \in Nat /\ S \in SUBSET Devices
  BY DEF Chain
<1>2. q \in Bijection(1 .. m, S)
  BY DEF Chain, Bijection, Injection, Surjection, IsInjective
<1>3. IsFiniteSet(1 .. m) /\ Cardinality(1 .. m) = m
  BY <1>1, FS_Interval
<1>4. Cardinality(S) = m
  <2>1. ExistsBijection(1 .. m, S)
    BY <1>2 DEF ExistsBijection
  <2> QED BY <1>3, <2>1, FS_Bijection
<1>5. Cardinality(S) <= Cardinality(Devices) /\ Cardinality(Devices) \in Nat
  BY <1>1, DevicesNotNil, FS_Subset, FS_CardinalityType
<1> QED BY <1>4, <1>5

\* input_register_device puts a device that is not in the list before its head.
LEMMA PushedLists ==
  ASSUME NEW l, NEW S, Listing(l, S), NEW d \in Devices, d \notin S
  PROVE  Listing(Pushed(l, d), S \cup {d})
<1>0. PICK m \in Nat : \E q \in [1 .. m -> S] : Chain(l, q, m, S)
  BY DEF Listing
<1>1. PICK q \in [1 .. m -> S] : Chain(l, q, m, S)
  BY <1>0
<1> DEFINE r == [i \in 1 .. m + 1 |-> IF i = 1 THEN d ELSE q[i - 1]]
           c == Pushed(l, d)
           T == S \cup {d}
<1>2. /\ l = [head |-> l.head, next |-> l.next] /\ l.next \in [Devices -> Devices \cup {Nil}]
      /\ S \in SUBSET Devices
      /\ \A e \in S : \E i \in 1 .. m : q[i] = e
      /\ \A i, j \in 1 .. m : q[i] = q[j] => i = j
      /\ l.head = Place(q, m, 1)
      /\ \A i \in 1 .. m : l.next[q[i]] = Place(q, m, i + 1)
  BY <1>1 DEF Chain
<1>3. l.head \in Devices \cup {Nil}
  <2>1. 1 <= m => 1 \in 1 .. m
    OBVIOUS
  <2> QED BY <1>2, <2>1 DEF Place
<1>4. c.head = d /\ c.next = [l.next EXCEPT ![d] = l.head] /\ c = [head |-> c.head, next |-> c.next]
  BY DEF Pushed
<1>5. c.next \in [Devices -> Devices \cup {Nil}]
  BY <1>2, <1>3, <1>4
<1>6. \A i \in 1 .. m + 1 : /\ i # 1 => i - 1 \in 1 .. m
                            /\ i = 1 => r[i] = d
                            /\ i # 1 => r[i] = q[i - 1] /\ q[i - 1] \in S /\ q[i - 1] # d
  <2> TAKE i \in 1 .. m + 1
  <2>1. i # 1 => i - 1 \in 1 .. m
    OBVIOUS
  <2> QED BY <2>1
<1>7. r \in [1 .. m + 1 -> T]
  BY <1>6
<1> HIDE DEF c, r
<1>8. \A e \in T : \E i \in 1 .. m + 1 : r[i] = e
  <2> TAKE e \in T
  <2>1. CASE e = d
    <3>1. 1 \in 1 .. m + 1
      OBVIOUS
    <3> QED BY <1>6, <2>1, <3>1
  <2>2. CASE e # d
    <3>1. PICK i \in 1 .. m : q[i] = e
      BY <1>2, <2>2
    <3>2. i + 1 \in 1 .. m + 1 /\ (i + 1) - 1 = i /\ i + 1 # 1
      OBVIOUS
    <3>3. r[i + 1] = q[i]
      BY <1>6, <3>2
    <3> QED BY <3>1, <3>2, <3>3
  <2> QED BY <2>1, <2>2
<1>9. \A i, j \in 1 .. m + 1 : r[i] = r[j] => i = j
  <2> SUFFICES ASSUME NEW i \in 1 .. m + 1, NEW j \in 1 .. m + 1, r[i] = r[j] PROVE i = j
    OBVIOUS
  <2>1. CASE i = 1 \/ j = 1
    BY <1>6, <2>1
  <2>2. CASE i # 1 /\ j # 1
    <3>1. i - 1 \in 1 .. m /\ j - 1 \in 1 .. m /\ q[i - 1] = q[j - 1]
      BY <1>6, <2>2
    <3>2. i - 1 = j - 1
      BY <1>2, <3>1
    <3> QED BY <3>2
  <2> QED BY <2>1, <2>2
<1>10. c.head = Place(r, m + 1, 1)
  <2>1. 1 \in 1 .. m + 1 /\ 1 <= m + 1
    OBVIOUS
  <2> QED BY <1>4, <1>6, <2>1 DEF Place
<1>11. \A i \in 1 .. m + 1 : Place(r, m + 1, i + 1) = Place(q, m, i)
  <2> TAKE i \in 1 .. m + 1
  <2>1. i + 1 <= m + 1 <=> i <= m
    OBVIOUS
  <2>2. CASE i <= m
    <3>1. i + 1 \in 1 .. m + 1 /\ i + 1 # 1 /\ (i + 1) - 1 = i
      BY <2>2
    <3>2. r[i + 1] = q[i]
      BY <1>6, <3>1
    <3> QED BY <2>1, <2>2, <3>2 DEF Place
  <2>3. CASE ~(i <= m)
    BY <2>1, <2>3 DEF Place
  <2> QED BY <2>2, <2>3
<1>12. \A i \in 1 .. m + 1 : c.next[r[i]] = Place(r, m + 1, i + 1)
  <2> TAKE i \in 1 .. m + 1
  <2>1. CASE i = 1
    <3>1. c.next[r[i]] = l.head
      BY <1>2, <1>4, <1>6, <2>1
    <3> QED BY <1>2, <1>11, <2>1, <3>1
  <2>2. CASE i # 1
    <3>1. i - 1 \in 1 .. m /\ r[i] = q[i - 1] /\ q[i - 1] \in Devices /\ q[i - 1] # d /\ (i - 1) + 1 = i
      BY <1>2, <1>6, <2>2
    <3>2. c.next[r[i]] = l.next[q[i - 1]]
      BY <1>2, <1>4, <3>1
    <3>3. l.next[q[i - 1]] = Place(q, m, i)
      BY <1>2, <3>1
    <3> QED BY <1>11, <3>2, <3>3
  <2> QED BY <2>1, <2>2
<1>13. m + 1 \in Nat /\ T \in SUBSET Devices
  BY <1>2
<1> HIDE DEF T
<1>14. Chain(c, r, m + 1, T)
  BY <1>4, <1>5, <1>7, <1>8, <1>9, <1>10, <1>12, <1>13 DEF Chain
<1>15. Listing(c, T)
  BY <1>7, <1>13, <1>14 DEF Listing
<1> QED BY <1>15 DEF c, T

\* input_unregister_device takes the device out, and leaves a list without it alone.
LEMMA TakenOutLists ==
  ASSUME NEW l, NEW S, Listing(l, S), NEW d \in Devices
  PROVE  Listing(TakenOut(l, d), S \ {d})
<1>0. PICK m \in Nat : \E q \in [1 .. m -> S] : Chain(l, q, m, S)
  BY DEF Listing
<1>1. PICK q \in [1 .. m -> S] : Chain(l, q, m, S)
  BY <1>0
<1> DEFINE links == {i \in Steps : Met(l, i) # Nil /\ l.next[Met(l, i)] = d}
           c == TakenOut(l, d)
<1>2. /\ l = [head |-> l.head, next |-> l.next] /\ l.next \in [Devices -> Devices \cup {Nil}]
      /\ S \in SUBSET Devices
      /\ \A e \in S : \E i \in 1 .. m : q[i] = e
      /\ \A i, j \in 1 .. m : q[i] = q[j] => i = j
      /\ l.head = Place(q, m, 1)
      /\ \A i \in 1 .. m : l.next[q[i]] = Place(q, m, i + 1)
  BY <1>1 DEF Chain
<1>3. \A i \in Steps : i \in Nat \ {0} /\ Met(l, i) = Place(q, m, i)
  <2> TAKE i \in Steps
  <2>1. i \in Nat \ {0}
    BY DEF Steps
  <2> QED BY <1>1, <2>1, MetIs
<1>4. \A i \in Steps : i \in links <=> i \in 1 .. m /\ Place(q, m, i + 1) = d
  <2> TAKE i \in Steps
  <2>1. CASE i \in 1 .. m
    <3>1. Place(q, m, i) = q[i] /\ q[i] \in Devices /\ q[i] # Nil
      BY <1>2, <2>1, DevicesNotNil DEF Place
    <3> QED BY <1>2, <1>3, <2>1, <3>1
  <2>2. CASE i \notin 1 .. m
    <3>1. ~(i <= m)
      BY <1>3, <2>2
    <3>2. Place(q, m, i) = Nil
      BY <3>1 DEF Place
    <3> QED BY <1>3, <2>2, <3>2
  <2> QED BY <2>1, <2>2
<1>5. c = IF l.head = d THEN [l EXCEPT !.head = l.next[d]]
          ELSE IF links = {} THEN l
          ELSE [l EXCEPT !.next[Met(l, CHOOSE i \in links : \A j \in links : i <= j)] = l.next[d]]
  BY Zenon DEF TakenOut
<1> HIDE DEF links, c
<1>6. \A i \in Nat : Place(q, m, i + 1) = d => i + 1 \in 1 .. m /\ q[i + 1] = d /\ d \in S
  <2> TAKE i \in Nat
  <2> SUFFICES ASSUME Place(q, m, i + 1) = d PROVE i + 1 \in 1 .. m /\ q[i + 1] = d /\ d \in S
    OBVIOUS
  <2>1. i + 1 <= m
    BY DevicesNotNil DEF Place
  <2>2. i + 1 \in 1 .. m
    BY <2>1
  <2> QED BY <2>1, <2>2 DEF Place
<1>7. CASE d \notin S
  <2>1. l.head # d
    <3>1. 0 + 1 = 1 /\ 0 \in Nat
      OBVIOUS
    <3> QED BY <1>2, <1>6, <1>7, <3>1
  <2>2. links = {}
    <3>1. \A i \in links : i \in Steps /\ i \in Nat
      BY <1>3 DEF links
    <3> QED BY <1>4, <1>6, <1>7, <3>1
  <2>3. c = l /\ S \ {d} = S
    BY <1>5, <1>7, <2>1, <2>2
  <2> QED BY <2>3 DEF c
<1>8. CASE d \in S
  <2>1. PICK j \in 1 .. m : q[j] = d
    BY <1>2, <1>8
  <2> DEFINE n == m - 1
             r == [i \in 1 .. n |-> IF i < j THEN q[i] ELSE q[i + 1]]
             T == S \ {d}
  <2>2. n \in Nat /\ m = n + 1 /\ j \in Int /\ j >= 1 /\ j <= n + 1 /\ m \in Int
    BY <2>1
  <2>3. \A i \in 1 .. n : i < j => i \in 1 .. m /\ r[i] = q[i] /\ q[i] \in T
    <3> SUFFICES ASSUME NEW i \in 1 .. n, i < j PROVE i \in 1 .. m /\ r[i] = q[i] /\ q[i] \in T
      OBVIOUS
    <3>1. i \in 1 .. m /\ i # j
      BY <2>2
    <3>2. q[i] # d /\ q[i] \in S
      BY <1>2, <2>1, <3>1
    <3> QED BY <3>1, <3>2
  <2>4. \A i \in 1 .. n : ~(i < j) => i + 1 \in 1 .. m /\ r[i] = q[i + 1] /\ q[i + 1] \in T
    <3> SUFFICES ASSUME NEW i \in 1 .. n, ~(i < j) PROVE i + 1 \in 1 .. m /\ r[i] = q[i + 1] /\ q[i + 1] \in T
      OBVIOUS
    <3>1. i + 1 \in 1 .. m /\ i + 1 # j
      BY <2>2
    <3>2. q[i + 1] # d /\ q[i + 1] \in S
      BY <1>2, <2>1, <3>1
    <3> QED BY <3>1, <3>2
  <2>5. r \in [1 .. n -> T]
    <3> HIDE DEF n, T
    <3>1. \A i \in 1 .. n : r[i] \in T
      BY <2>3, <2>4
    <3> QED BY <3>1
  <2> HIDE DEF n, r, T
  <2>6. \A e \in T : \E i \in 1 .. n : r[i] = e
    <3> TAKE e \in T
    <3>1. PICK i \in 1 .. m : q[i] = e
      BY <1>2 DEF T
    <3>2. i # j
      BY <2>1, <3>1 DEF T
    <3>3. CASE i < j
      <4>1. i \in 1 .. n
        BY <2>2, <3>3
      <4> QED BY <2>3, <3>1, <3>3, <4>1
    <3>4. CASE ~(i < j)
      <4>1. i - 1 \in 1 .. n /\ ~(i - 1 < j) /\ (i - 1) + 1 = i
        BY <2>2, <3>2, <3>4
      <4>2. r[i - 1] = q[(i - 1) + 1]
        BY <2>4, <4>1
      <4> QED BY <3>1, <4>1, <4>2
    <3> QED BY <3>3, <3>4
  <2>7. \A i, k \in 1 .. n : r[i] = r[k] => i = k
    <3> SUFFICES ASSUME NEW i \in 1 .. n, NEW k \in 1 .. n, r[i] = r[k] PROVE i = k
      OBVIOUS
    <3>0. i \in Int /\ k \in Int
      BY <2>2
    <3>1. CASE i < j /\ k < j
      BY <1>2, <2>3, <3>1
    <3>2. CASE ~(i < j) /\ ~(k < j)
      <4>1. i + 1 = k + 1
        BY <1>2, <2>4, <3>2
      <4> QED BY <3>0, <4>1
    <3>3. CASE i < j /\ ~(k < j)
      <4>1. i = k + 1
        BY <1>2, <2>3, <2>4, <3>3
      <4> QED BY <2>2, <3>0, <3>3, <4>1
    <3>4. CASE ~(i < j) /\ k < j
      <4>1. i + 1 = k
        BY <1>2, <2>3, <2>4, <3>4
      <4> QED BY <2>2, <3>0, <3>4, <4>1
    <3> QED BY <3>1, <3>2, <3>3, <3>4
  <2>8. \A i \in 1 .. m : Place(r, n, i) = IF i < j THEN q[i] ELSE Place(q, m, i + 1)
    <3> TAKE i \in 1 .. m
    <3>1. CASE i < j
      <4>1. i \in 1 .. n /\ i <= n
        BY <2>2, <3>1
      <4> QED BY <2>3, <3>1, <4>1 DEF Place
    <3>2. CASE ~(i < j)
      <4>1. i <= n <=> i + 1 <= m
        BY <2>2
      <4>2. CASE i <= n
        <5>1. i \in 1 .. n
          BY <2>2, <4>2
        <5> QED BY <2>4, <3>2, <4>1, <4>2, <5>1 DEF Place
      <4>3. CASE ~(i <= n)
        BY <3>2, <4>1, <4>3 DEF Place
      <4> QED BY <4>2, <4>3
    <3> QED BY <3>1, <3>2
  <2>9. l.next[d] = Place(q, m, j + 1) /\ d \in Devices /\ l.next[d] \in Devices \cup {Nil}
    BY <1>2, <2>1
  <2>10. /\ c = [head |-> c.head, next |-> c.next] /\ c.next \in [Devices -> Devices \cup {Nil}]
         /\ c.head = Place(r, n, 1)
         /\ \A i \in 1 .. n : c.next[r[i]] = Place(r, n, i + 1)
    <3>1. CASE j = 1
      <4>1. l.head = d
        <5>1. 1 <= m
          BY <2>2
        <5> QED BY <1>2, <2>1, <3>1, <5>1 DEF Place
      <4>2. c = [head |-> l.next[d], next |-> l.next]
        BY <1>2, <1>5, <4>1
      <4>3. c.head = Place(r, n, 1)
        <5>1. 1 \in 1 .. m /\ ~(1 < j)
          BY <2>2, <3>1
        <5> QED BY <2>8, <2>9, <3>1, <4>2, <5>1
      <4>4. ASSUME NEW i \in 1 .. n
            PROVE  c.next[r[i]] = Place(r, n, i + 1)
        <5>1. ~(i < j) /\ i + 1 \in 1 .. m /\ ~(i + 1 < j)
          BY <2>2, <3>1
        <5>2. c.next[r[i]] = Place(q, m, (i + 1) + 1)
          BY <1>2, <2>4, <4>2, <5>1
        <5> QED BY <2>8, <5>1, <5>2
      <4> QED BY <1>2, <4>2, <4>3, <4>4
    <3>2. CASE j # 1
      <4> DEFINE k == j - 1
      <4>1. k \in 1 .. m /\ k \in Nat /\ j = k + 1 /\ 1 \in 1 .. m /\ 1 <= m /\ 1 < j /\ k < j
        BY <2>2, <3>2
      <4> HIDE DEF k
      <4>2. l.head # d
        BY <1>2, <2>1, <3>2, <4>1 DEF Place
      <4>3. k \in Steps
        <5>1. m <= Cardinality(Devices) /\ Cardinality(Devices) \in Nat
          BY <1>1, ChainLength
        <5> QED BY <2>2, <4>1, <5>1 DEF Steps
      <4>4. k \in links
        <5>1. Place(q, m, k + 1) = d
          BY <2>1, <2>2, <4>1 DEF Place
        <5> QED BY <1>4, <4>1, <4>3, <5>1
      <4>5. \A i \in links : i = k
        <5> TAKE i \in links
        <5>1. i \in Steps
          BY DEF links
        <5>2. i \in Nat /\ i + 1 \in 1 .. m /\ q[i + 1] = d
          BY <1>3, <1>4, <1>6, <5>1
        <5>3. i + 1 = j
          BY <1>2, <2>1, <5>2
        <5> QED BY <4>1, <5>2, <5>3
      <4>6. (CHOOSE i \in links : \A x \in links : i <= x) = k
        <5>1. k <= k
          BY <4>1
        <5>2. \E i \in links : \A x \in links : i <= x
          BY <4>4, <4>5, <5>1
        <5> QED BY <4>5, <5>2
      <4>7. Met(l, k) = q[k]
        <5>1. k <= m
          BY <4>1
        <5> QED BY <1>3, <4>3, <5>1 DEF Place
      <4>8. c = [head |-> l.head, next |-> [l.next EXCEPT ![q[k]] = l.next[d]]]
        <5>1. c = [l EXCEPT !.next[q[k]] = l.next[d]]
          BY <1>5, <4>2, <4>4, <4>6, <4>7
        <5> QED BY <1>2, <5>1
      <4>9. c.next \in [Devices -> Devices \cup {Nil}]
        BY <1>2, <2>9, <4>8
      <4>10. c.head = Place(r, n, 1)
        BY <1>2, <2>8, <4>1, <4>8 DEF Place
      <4>11. ASSUME NEW i \in 1 .. n
             PROVE  c.next[r[i]] = Place(r, n, i + 1)
        <5>0. i + 1 \in 1 .. m /\ i \in Int
          BY <2>2
        <5>1. Place(r, n, i + 1) = IF i + 1 < j THEN q[i + 1] ELSE Place(q, m, (i + 1) + 1)
          BY <2>8, <5>0
        <5>2. CASE i < j
          <6>1. i \in 1 .. m /\ r[i] = q[i] /\ q[i] \in Devices
            BY <1>2, <2>3, <5>2
          <6>2. CASE i = k
            <7>1. c.next[r[i]] = Place(q, m, j + 1)
              BY <1>2, <2>9, <4>8, <6>1, <6>2
            <7>2. i + 1 = j /\ ~(i + 1 < j)
              BY <2>2, <4>1, <6>2
            <7> QED BY <5>1, <7>1, <7>2
          <6>3. CASE i # k
            <7>1. q[i] # q[k]
              BY <1>2, <4>1, <6>1, <6>3
            <7>2. c.next[r[i]] = Place(q, m, i + 1)
              BY <1>2, <4>8, <6>1, <7>1
            <7>3. i + 1 < j /\ i + 1 <= m
              BY <2>2, <4>1, <5>0, <5>2, <6>3
            <7> QED BY <5>1, <7>2, <7>3 DEF Place
          <6> QED BY <6>2, <6>3
        <5>3. CASE ~(i < j)
          <6>1. r[i] = q[i + 1] /\ q[i + 1] \in Devices
            BY <1>2, <2>4, <5>0, <5>3
          <6>2. i + 1 # k /\ ~(i + 1 < j)
            BY <2>2, <4>1, <5>0, <5>3
          <6>3. q[i + 1] # q[k]
            BY <1>2, <4>1, <5>0, <6>2
          <6>4. c.next[r[i]] = Place(q, m, (i + 1) + 1)
            BY <1>2, <4>8, <5>0, <6>1, <6>3
          <6> QED BY <5>1, <6>2, <6>4
        <5> QED BY <5>2, <5>3
      <4> QED BY <4>8, <4>9, <4>10, <4>11
    <3> QED BY <3>1, <3>2
  <2>11. T \in SUBSET Devices
    BY <1>2 DEF T
  <2>12. Chain(c, r, n, T)
    BY <2>2, <2>5, <2>6, <2>7, <2>10, <2>11 DEF Chain
  <2>13. Listing(c, T)
    BY <2>2, <2>5, <2>12 DEF Listing
  <2> QED BY <2>13 DEF c, T
<1> QED BY <1>7, <1>8

\* The list holds each registered device once.
LEMMA ListingOnce ==
  ASSUME NEW l, NEW S, Listing(l, S)
  PROVE  LET n == Cardinality(S)
         IN {Met(l, i) : i \in 1 .. n} = S /\ Met(l, n + 1) = Nil
<1>0. PICK m \in Nat : \E q \in [1 .. m -> S] : Chain(l, q, m, S)
  BY DEF Listing
<1>1. PICK q \in [1 .. m -> S] : Chain(l, q, m, S)
  BY <1>0
<1>2. Cardinality(S) = m
  BY <1>1, ChainLength
<1>3. \A i \in 1 .. m : Met(l, i) = q[i] /\ q[i] \in S
  <2> TAKE i \in 1 .. m
  <2>1. i \in Nat \ {0} /\ i <= m
    OBVIOUS
  <2>2. Met(l, i) = Place(q, m, i)
    BY <1>1, <2>1, MetIs
  <2> QED BY <2>1, <2>2 DEF Place
<1>4. \A d \in S : \E i \in 1 .. m : q[i] = d
  BY <1>1 DEF Chain
<1>5. {Met(l, i) : i \in 1 .. m} = S
  BY <1>3, <1>4
<1>6. Met(l, m + 1) = Nil
  <2>1. m + 1 \in Nat \ {0} /\ ~(m + 1 <= m)
    OBVIOUS
  <2>2. Met(l, m + 1) = Place(q, m, m + 1)
    BY <1>1, <2>1, MetIs
  <2> QED BY <2>1, <2>2 DEF Place
<1> QED BY <1>2, <1>5, <1>6

-----------------------------------------------------------------------------
(* Hot-plug.                                                               *)

\* Steps of the handling of a port whose change the driver saw.
Handling == {"clear", "remove", "reset", "start", "wait", "done"}

\* Behind the place the driver looks at, a change that is not cleared came while it was
\* in the loop, and set the change bit.
ChangesNoticed ==
  \A p \in changed : port = 0 \/ p < port \/ (p = port /\ step \notin {"read", "clear"}) => port_change

\* A port without a change is connected as the driver took it ...
HeardRight == \A p \in Ports \ (changed \cup missed) : p \in heard <=> p \in connected

\* ... and so is the port it handles, as long as nothing came after its read.
ReadRight == step # "read" /\ portsc.csc /\ ~newer => (port \in heard <=> port \in connected)

PortsInv ==
  /\ port \in 0 .. MaxPorts /\ changed \in SUBSET Ports /\ port_change \in BOOLEAN /\ newer \in BOOLEAN
  /\ portsc \in [ccs : BOOLEAN, csc : BOOLEAN, prc : BOOLEAN]
  /\ (port = 0 <=> step = "out") /\ (step \in Handling => portsc.csc)
  /\ ChangesNoticed /\ HeardRight /\ ReadRight

UsbInv ==
  /\ PortsInv
  /\ twice \in BOOLEAN
  /\ ~twice => Listing(List, listed)

\* A list that is set is the list.
LEMMA ListSet ==
  ASSUME NEW l, NEW S, Listing(l, S), SetList(l), listed' = S
  PROVE  Listing(List, listed)'
<1>1. l = [head |-> l.head, next |-> l.next]
  BY DEF Listing, Chain
<1>2. List' = l
  BY <1>1 DEF List, SetList
<1>3. Listing(List', S)
  BY <1>2
<1>4. Listing(List, listed)' <=> Listing(List', listed')
  BY DEF Listing, Chain, Place
<1> QED BY <1>3, <1>4

\* Both HID devices are taken out ...
LEMMA RemovedLists ==
  ASSUME Listing(List, listed), SetList(HidRemoved(List)), listed' = listed \ Hids
  PROVE  Listing(List, listed)'
<1>1. Listing(TakenOut(List, HidDevs[1]), listed \ {HidDevs[1]})
  BY TakenOutLists, DevicesNotNil DEF Hids
<1>2. Listing(TakenOut(TakenOut(List, HidDevs[1]), HidDevs[2]), (listed \ {HidDevs[1]}) \ {HidDevs[2]})
  BY <1>1, TakenOutLists, DevicesNotNil DEF Hids
<1>3. (listed \ {HidDevs[1]}) \ {HidDevs[2]} = listed \ Hids
  BY DEF Hids
<1> QED BY <1>2, <1>3, ListSet DEF HidRemoved

\* ... or put in, when neither is in the list.
LEMMA AddedLists ==
  ASSUME Listing(List, listed), Hids \cap listed = {}, SetList(HidAdded(List)), listed' = listed \cup Hids
  PROVE  Listing(List, listed)'
<1>0. HidDevs[1] \notin listed /\ HidDevs[2] \notin listed \cup {HidDevs[1]}
  BY DevicesNotNil DEF Hids
<1>1. Listing(Pushed(List, HidDevs[1]), listed \cup {HidDevs[1]})
  BY <1>0, PushedLists, DevicesNotNil DEF Hids
<1>2. Listing(Pushed(Pushed(List, HidDevs[1]), HidDevs[2]), (listed \cup {HidDevs[1]}) \cup {HidDevs[2]})
  BY <1>0, <1>1, PushedLists, DevicesNotNil DEF Hids
<1>3. (listed \cup {HidDevs[1]}) \cup {HidDevs[2]} = listed \cup Hids
  BY DEF Hids
<1> QED BY <1>2, <1>3, ListSet DEF HidAdded

\* A step that leaves the USB lists alone leaves them listing the same devices.
LEMMA UnchangedLists ==
  ASSUME UNCHANGED listVars, UsbInv
  PROVE  (~twice => Listing(List, listed))'
<1>1. List' = List /\ listed' = listed /\ twice' = twice
  BY DEF listVars, List
<1>2. Listing(List, listed)' <=> Listing(List', listed')
  BY DEF Listing, Chain, Place
<1> QED BY <1>1, <1>2 DEF UsbInv

\* A write to a port clears its change; what is lost by it is noted.
LEMMA WrittenPorts ==
  ASSUME PortsInv, NEW v, PortWritten(v), port # 0, step \in Handling \cup {"ack"},
         v.csc /\ ~newer => (port \in heard <=> port \in connected),
         UNCHANGED <<connected, heard>>
  PROVE  /\ changed' \in SUBSET changed /\ HeardRight'
<1>1. changed' = (IF v.csc THEN changed \ {port} ELSE changed)
  BY DEF PortWritten
<1>2. missed' = (IF v.csc /\ newer THEN missed \cup {port} ELSE missed)
  BY DEF PortWritten
<1>3. changed' \in SUBSET changed
  BY <1>1
<1>4. ASSUME NEW p \in Ports, p \notin changed', p \notin missed'
      PROVE  p \in heard <=> p \in connected
  <2>1. p \notin missed
    BY <1>2, <1>4
  <2>2. CASE p \notin changed
    BY <1>4, <2>1, <2>2 DEF PortsInv, HeardRight
  <2>3. CASE p \in changed
    <3>1. v.csc /\ p = port
      BY <1>1, <1>4, <2>3
    <3>2. ~newer
      BY <1>2, <1>4, <3>1
    <3> QED BY <3>1, <3>2
  <2> QED BY <2>2, <2>3
<1> QED BY <1>3, <1>4 DEF HeardRight, Ports

\* Every step of the ports and of the loop over them keeps what the driver knows of them.
LEMMA PortsStep == PortsInv /\ [UsbNext]_usbVars => PortsInv'
<1> SUFFICES ASSUME PortsInv, [UsbNext]_usbVars PROVE PortsInv'
  OBVIOUS
<1>0. /\ MaxPorts \in Nat \ {0} /\ Ports = 1 .. MaxPorts /\ Ports' = Ports
      /\ port \in 0 .. MaxPorts /\ changed \in SUBSET Ports
  BY UsbAssumption DEF Ports, PortsInv
<1> USE DEF Handling
<1>1. ASSUME NEW p \in Ports, PortEvent(p)
      PROVE  PortsInv'
  <2>1. /\ changed' = changed \cup {p} /\ port_change' = (port_change \/ p \notin changed)
        /\ newer' = (newer \/ p = port) /\ missed' = missed \ {p}
        /\ UNCHANGED <<heard, port, step, portsc>>
        /\ \A q \in Ports \ {p} : q \in connected' <=> q \in connected
    BY <1>1 DEF PortEvent, Plug, Unplug, Flagged, loopVars
  <2>2. ChangesNoticed'
    BY <2>1 DEF PortsInv, ChangesNoticed
  <2>3. HeardRight'
    BY <1>0, <2>1 DEF PortsInv, HeardRight
  <2>4. ReadRight'
    <3>1. SUFFICES ASSUME step # "read", portsc.csc, ~newer' PROVE port \in heard <=> port \in connected'
      BY <2>1 DEF ReadRight
    <3>2. ~newer /\ p # port
      BY <2>1, <3>1
    <3>3. port \in heard <=> port \in connected
      BY <3>1, <3>2 DEF PortsInv, ReadRight
    <3>4. port \in connected' <=> port \in connected
      BY <1>1, <3>2 DEF PortEvent, Plug, Unplug
    <3> QED BY <3>3, <3>4
  <2> QED BY <1>0, <2>1, <2>2, <2>3, <2>4 DEF PortsInv
<1>2. CASE HandleEvents
  <2>1. /\ port' = 1 /\ step' = "read" /\ port_change' = FALSE
        /\ UNCHANGED <<connected, changed, newer, heard, missed, portsc>>
    BY <1>2 DEF HandleEvents
  <2>2. ChangesNoticed'
    BY <1>0, <2>1 DEF ChangesNoticed
  <2>3. HeardRight' /\ ReadRight'
    BY <1>0, <2>1 DEF PortsInv, HeardRight, ReadRight
  <2>4. port' # 0 /\ port' \in 0 .. MaxPorts
    BY <1>0, <2>1
  <2> QED BY <1>0, <2>1, <2>2, <2>3, <2>4 DEF PortsInv
<1>3. CASE ReadPort
  <2>1. /\ port # 0 /\ step = "read" /\ portsc' = PortRead(port) /\ newer' = FALSE
        /\ step' = (IF port \in changed THEN "clear" ELSE "ack")
        /\ heard' = (IF port \notin changed THEN heard
                     ELSE IF port \in connected THEN heard \cup {port} ELSE heard \ {port})
        /\ UNCHANGED <<connected, changed, port_change, missed, port>>
    BY <1>3 DEF ReadPort
  <2>2. portsc'.csc = (port \in changed) /\ portsc' \in [ccs : BOOLEAN, csc : BOOLEAN, prc : BOOLEAN]
    BY <2>1 DEF PortRead
  <2>3. ChangesNoticed'
    BY <2>1 DEF PortsInv, ChangesNoticed
  <2>4. HeardRight'
    BY <1>0, <2>1 DEF PortsInv, HeardRight
  <2>5. ReadRight'
    BY <2>1, <2>2 DEF ReadRight
  <2> QED BY <1>0, <2>1, <2>2, <2>3, <2>4, <2>5 DEF PortsInv
<1>4. CASE ClearChange
  <2>1. /\ step = "clear" /\ PortWritten(Cleared(portsc))
        /\ step' = (IF portsc.ccs THEN "reset" ELSE "remove")
        /\ UNCHANGED <<connected, port_change, newer, heard, port, portsc>>
    BY <1>4 DEF ClearChange
  <2>2. port # 0 /\ portsc.csc
    BY <2>1 DEF PortsInv
  <2>3. ~newer => (port \in heard <=> port \in connected)
    BY <2>1, <2>2 DEF PortsInv, ReadRight
  <2>4. changed' \in SUBSET changed /\ HeardRight'
    BY <2>1, <2>2, <2>3, WrittenPorts
  <2>5. PICK v : v = Cleared(portsc) /\ PortWritten(v)
    BY <2>1
  <2>6. port \notin changed' 
    <3>0. portsc \in [ccs : BOOLEAN, csc : BOOLEAN, prc : BOOLEAN]
      BY DEF PortsInv
    <3>1. v.csc
      BY <2>5, <3>0, SMT DEF Cleared
    <3>2. changed' = IF v.csc THEN changed \ {port} ELSE changed
      BY <2>5 DEF PortWritten
    <3> QED BY <3>1, <3>2, <2>4
  <2>7. ChangesNoticed'
    BY <2>1, <2>4, <2>6 DEF PortsInv, ChangesNoticed
  <2>8. ReadRight' /\ (step' = "reset" \/ step' = "remove")
    BY <2>1, <2>3 DEF ReadRight
  <2> QED BY <1>0, <2>1, <2>2, <2>4, <2>7, <2>8 DEF PortsInv
<1>5. CASE HandleDisconnect
  <2>1. step = "remove" /\ step' = "ack" /\ UNCHANGED <<portVars, port, portsc>>
    BY <1>5 DEF HandleDisconnect
  <2> QED BY <1>0, <2>1 DEF PortsInv, ChangesNoticed, HeardRight, ReadRight, portVars
<1>6. CASE ResetRead
  <2>1. step = "reset" /\ step' \in {"start", "ack"} /\ UNCHANGED <<portVars, port, portsc>>
    BY <1>6 DEF ResetRead
  <2> QED BY <1>0, <2>1 DEF PortsInv, ChangesNoticed, HeardRight, ReadRight, portVars
<1>7. CASE ResetWrite
  <2>1. /\ step = "start" /\ step' = "wait" /\ PortWritten(again)
        /\ UNCHANGED <<connected, port_change, newer, heard, port, portsc>>
    BY <1>7 DEF ResetWrite
  <2>2. port # 0 /\ portsc.csc
    BY <2>1 DEF PortsInv
  <2>3. ~newer => (port \in heard <=> port \in connected)
    BY <2>1, <2>2 DEF PortsInv, ReadRight
  <2>4. changed' \in SUBSET changed /\ HeardRight'
    BY <2>1, <2>2, <2>3, WrittenPorts
  <2>5. ChangesNoticed'
    BY <2>1, <2>4 DEF PortsInv, ChangesNoticed
  <2>6. ReadRight'
    BY <2>1, <2>3 DEF ReadRight
  <2> QED BY <1>0, <2>1, <2>2, <2>4, <2>5, <2>6 DEF PortsInv
<1>8. CASE ResetDone
  <2>1. /\ step = "wait" /\ step' = "done" /\ port_change' = (port_change \/ port \notin reset_done)
        /\ UNCHANGED <<connected, changed, newer, heard, missed, port, portsc>>
    BY <1>8 DEF ResetDone
  <2> QED BY <1>0, <2>1 DEF PortsInv, ChangesNoticed, HeardRight, ReadRight
<1>9. CASE HandleConnect
  <2>1. step \in {"wait", "done"} /\ step' = "ack" /\ UNCHANGED <<portVars, port, portsc>>
    BY <1>9 DEF HandleConnect
  <2> QED BY <1>0, <2>1 DEF PortsInv, ChangesNoticed, HeardRight, ReadRight, portVars
<1>10. CASE AckReset
  <2>1. /\ step = "ack" /\ port' = NextPort(port) /\ portsc' = NoCopy /\ newer' = FALSE
        /\ step' = (IF NextPort(port) = 0 THEN "out" ELSE "read")
        /\ port_change' = (IF NextPort(port) = 0 THEN AtEnd(port_change) ELSE port_change)
        /\ PortWritten(portsc) \/ UNCHANGED <<changed, missed>>
        /\ UNCHANGED <<connected, heard>>
    BY <1>10 DEF AckReset
  <2>2. port \in 1 .. MaxPorts /\ port_change' = port_change
    BY <1>0, <2>1 DEF PortsInv, AtEnd
  <2>3. portsc.csc /\ ~newer => (port \in heard <=> port \in connected)
    BY <2>1 DEF PortsInv, ReadRight
  <2>4. changed' \in SUBSET changed /\ HeardRight'
    <3>1. CASE PortWritten(portsc)
      BY <2>1, <2>2, <2>3, <3>1, WrittenPorts
    <3>2. CASE UNCHANGED <<changed, missed>>
      BY <2>1, <3>2 DEF PortsInv, HeardRight, Ports
    <3> QED BY <2>1, <3>1, <3>2
  <2>5. /\ port' \in 0 .. MaxPorts
        /\ \A p \in 1 .. MaxPorts : port' = 0 \/ p < port' => p < port \/ p = port
    <3>1. CASE port < MaxPorts
      <4>1. port' = port + 1 /\ port' # 0
        BY <1>0, <2>1, <2>2, <3>1 DEF NextPort
      <4> QED BY <1>0, <2>2, <3>1, <4>1
    <3>2. CASE ~(port < MaxPorts)
      <4>1. port' = 0 /\ port = MaxPorts
        BY <1>0, <2>1, <2>2, <3>2 DEF NextPort
      <4> QED BY <1>0, <4>1
    <3> QED BY <3>1, <3>2
  <2>6. ChangesNoticed'
    <3>1. SUFFICES ASSUME NEW p \in changed', port' = 0 \/ p < port' \/ (p = port' /\ step' \notin {"read", "clear"})
                   PROVE  port_change'
      BY DEF ChangesNoticed
    <3>2. p \in changed /\ p \in 1 .. MaxPorts
      BY <1>0, <2>4, <3>1
    <3>3. port' = 0 \/ p < port'
      BY <2>1, <3>1
    <3>4. p < port \/ p = port
      BY <2>5, <3>2, <3>3
    <3> QED BY <2>1, <2>2, <3>2, <3>4 DEF PortsInv, ChangesNoticed
  <2>7. /\ ReadRight' /\ (step' \in Handling => FALSE) /\ (port' = 0 <=> step' = "out")
        /\ portsc' \in [ccs : BOOLEAN, csc : BOOLEAN, prc : BOOLEAN]
    BY <2>1 DEF ReadRight, NoCopy
  <2> QED BY <1>0, <2>1, <2>2, <2>4, <2>5, <2>6, <2>7 DEF PortsInv
<1>11. CASE UsbHidDisconnect \/ \E d \in Hids : UsbHidProbe(d)
  <2>1. UNCHANGED <<portVars, port, step, portsc>>
    BY <1>11 DEF UsbHidDisconnect, UsbHidProbe, loopVars
  <2> QED BY <1>0, <2>1 DEF PortsInv, ChangesNoticed, HeardRight, ReadRight, portVars
<1>12. CASE UNCHANGED usbVars
  <2>1. UNCHANGED <<portVars, port, step, portsc>>
    BY <1>12 DEF usbVars, portVars, loopVars
  <2> QED BY <1>0, <2>1 DEF PortsInv, ChangesNoticed, HeardRight, ReadRight, portVars
<1> QED BY <1>1, <1>2, <1>3, <1>4, <1>5, <1>6, <1>7, <1>8, <1>9, <1>10, <1>11, <1>12 DEF UsbNext

\* Every step of the devices preserves the invariant of the USB ports and lists.
LEMMA UsbStep == UsbInv /\ [DevicesNext]_allVars => UsbInv'
<1> SUFFICES ASSUME UsbInv, [DevicesNext]_allVars PROVE UsbInv'
  OBVIOUS
<1>1. [UsbNext]_usbVars
  BY DEF DevicesNext, PartsNext, Input, Usb, Rings, Buffers, Heap, Resampler, deviceVars, allVars
<1>2. PortsInv'
  BY <1>1, PortsStep DEF UsbInv
<1>3. CASE UNCHANGED listVars
  <2>1. (~twice => Listing(List, listed))' /\ twice' = twice
    BY <1>3, UnchangedLists DEF listVars
  <2> QED BY <1>2, <2>1 DEF UsbInv
<1>4. CASE HandleDisconnect \/ UsbHidDisconnect
  <2>1. SetList(HidRemoved(List)) /\ listed' = listed \ Hids /\ twice' = twice
    BY <1>4 DEF HandleDisconnect, UsbHidDisconnect
  <2>2. (~twice => Listing(List, listed))'
    BY <2>1, RemovedLists DEF UsbInv
  <2> QED BY <1>2, <2>1, <2>2 DEF UsbInv
<1>5. CASE /\ SetList(HidAdded(List)) /\ listed' = listed \cup Hids
           /\ twice' = (twice \/ Hids \cap listed # {})
  <2>1. twice' \in BOOLEAN
    BY <1>5 DEF UsbInv
  <2>2. ASSUME ~twice' PROVE Listing(List, listed)'
    <3>1. ~twice /\ Hids \cap listed = {}
      BY <1>5, <2>2
    <3> QED BY <1>5, <3>1, AddedLists DEF UsbInv
  <2> QED BY <1>2, <2>1, <2>2 DEF UsbInv
<1>6. ASSUME NEW d \in Hids, UsbHidProbe(d)
      PROVE  UsbInv'
  <2>1. SetList(Pushed(List, d)) /\ listed' = listed \cup {d} /\ twice' = (twice \/ d \in listed)
    BY <1>6 DEF UsbHidProbe
  <2>2. ASSUME ~twice' PROVE Listing(List, listed)'
    <3>1. ~twice /\ d \notin listed /\ d \in Devices
      BY <2>1, <2>2, DevicesNotNil
    <3>2. Listing(Pushed(List, d), listed \cup {d})
      BY <3>1, PushedLists DEF UsbInv
    <3> QED BY <2>1, <3>2, ListSet
  <2>3. twice' \in BOOLEAN
    BY <2>1 DEF UsbInv
  <2> QED BY <1>2, <2>2, <2>3 DEF UsbInv
<1>7. CASE HandleConnect
  BY <1>3, <1>5, <1>7 DEF HandleConnect
<1>8. CASE (\E p \in Ports : PortEvent(p)) \/ HandleEvents \/ ReadPort \/ ClearChange \/ ResetRead
           \/ ResetWrite \/ ResetDone \/ AckReset \/ UNCHANGED usbVars
  <2>1. UNCHANGED listVars
    BY <1>8 DEF PortEvent, HandleEvents, ReadPort, ClearChange, ResetRead, ResetWrite, ResetDone, AckReset, usbVars
  <2> QED BY <1>3, <2>1
<1> QED BY <1>1, <1>4, <1>6, <1>7, <1>8 DEF UsbNext

\* The devices of other drivers, in any order, are listed once.
LEMMA UsbInitial == UsbInit => UsbInv
<1> SUFFICES ASSUME UsbInit PROVE UsbInv
  OBVIOUS
<1> DEFINE m == Cardinality(BootDevs)
<1>1. PICK q \in [1 .. m -> BootDevs] :
        /\ \A d \in BootDevs : \E i \in DOMAIN q : q[i] = d
        /\ dev_head = IF BootDevs = {} THEN Nil ELSE q[1]
        /\ dev_next = [d \in Devices |->
                IF \E i \in DOMAIN q : q[i] = d /\ i < m
                THEN q[1 + CHOOSE i \in DOMAIN q : q[i] = d] ELSE Nil]
  BY Zenon DEF UsbInit
<1>2. IsFiniteSet(BootDevs) /\ m \in Nat /\ BootDevs \in SUBSET Devices
  BY UsbAssumption, FS_CardinalityType DEF Devices
<1>3. \A i, j \in 1 .. m : q[i] = q[j] => i = j
  <2>1. q \in Surjection(1 .. m, BootDevs)
    BY <1>1 DEF Surjection
  <2>2. IsFiniteSet(1 .. m) /\ Cardinality(1 .. m) = m
    BY <1>2, FS_Interval
  <2>3. q \in Injection(1 .. m, BootDevs)
    BY <2>1, <2>2, FS_SurjSameCardinalityImpliesInj
  <2> QED BY <2>3 DEF Injection, IsInjective
<1>4. BootDevs = {} <=> m = 0
  BY <1>2, FS_EmptySet
<1> HIDE DEF m
<1>5. DOMAIN q = 1 .. m
  BY <1>1
<1>6. \A i \in 1 .. m : dev_next[q[i]] = Place(q, m, i + 1)
  <2> TAKE i \in 1 .. m
  <2>1. (CHOOSE j \in DOMAIN q : q[j] = q[i]) = i
    BY <1>3, <1>5
  <2>2. q[i] \in Devices
    BY <1>1, <1>2
  <2>3. dev_next[q[i]] = IF \E j \in DOMAIN q : q[j] = q[i] /\ j < m THEN q[1 + i] ELSE Nil
    <3>1. dev_next[q[i]] = IF \E j \in DOMAIN q : q[j] = q[i] /\ j < m
                           THEN q[1 + CHOOSE j \in DOMAIN q : q[j] = q[i]] ELSE Nil
      BY <1>1, <2>2, Zenon
    <3> QED BY <2>1, <3>1, Zenon
  <2>4. (\E j \in DOMAIN q : q[j] = q[i] /\ j < m) <=> i < m
    BY <1>3, <1>5
  <2>5. (i < m <=> i + 1 <= m) /\ 1 + i = i + 1
    BY <1>2
  <2> QED BY <2>3, <2>4, <2>5 DEF Place
<1>7. dev_head = Place(q, m, 1)
  <2>1. m = 0 <=> ~(1 <= m)
    BY <1>2
  <2> QED BY <1>1, <1>4, <2>1 DEF Place
<1>8. dev_next \in [Devices -> Devices \cup {Nil}]
  <2>1. ASSUME NEW d \in Devices
        PROVE  (IF \E i \in DOMAIN q : q[i] = d /\ i < m
                THEN q[1 + CHOOSE i \in DOMAIN q : q[i] = d] ELSE Nil) \in Devices \cup {Nil}
    <3>1. CASE \E i \in DOMAIN q : q[i] = d /\ i < m
      <4>1. PICK i \in 1 .. m : q[i] = d /\ i < m
        BY <1>5, <3>1
      <4>2. (CHOOSE j \in DOMAIN q : q[j] = d) = i
        BY <1>3, <1>5, <4>1
      <4>3. 1 + i \in 1 .. m
        BY <1>2, <4>1
      <4>4. q[1 + i] \in Devices
        BY <1>1, <1>2, <4>3
      <4> QED BY <4>2, <4>4
    <3> QED BY <3>1
  <2> QED BY <1>1, <2>1
<1>9. Listing(List, BootDevs)
  <2>1. \A d \in BootDevs : \E i \in 1 .. m : q[i] = d
    BY <1>1, <1>5
  <2>2. List = [head |-> List.head, next |-> List.next] /\ List.head = dev_head /\ List.next = dev_next
    BY DEF List
  <2>3. Chain(List, q, m, BootDevs)
    BY <1>1, <1>2, <1>3, <1>6, <1>7, <1>8, <2>1, <2>2 DEF Chain
  <2> QED BY <1>1, <1>2, <2>3 DEF Listing
<1>10. /\ changed = {} /\ port_change = FALSE /\ port = 0 /\ listed = BootDevs /\ twice = FALSE
       /\ connected = {} /\ heard = {} /\ newer = FALSE /\ step = "out" /\ portsc = NoCopy
  BY DEF UsbInit
<1>11. 0 \in 0 .. MaxPorts
  BY UsbAssumption
<1>12. PortsInv
  BY <1>10, <1>11 DEF PortsInv, ChangesNoticed, HeardRight, ReadRight, Handling, NoCopy
<1> QED BY <1>9, <1>10, <1>12 DEF UsbInv

\* DevicesFollowed: the input state is what the devices reported, for any keys,
\* handlers and screens, and devices that come and go are noticed and listed once, for
\* any number of ports and of other devices: until one is registered twice.
THEOREM DevicesFollowedCorrect == DevicesSpec => []DevicesFollowed
<1>1. DevicesInit => InputInv /\ UsbInv
  BY InputInitial, UsbInitial DEF DevicesInit, PartsInit
<1>2. InputInv /\ UsbInv /\ [DevicesNext]_allVars => (InputInv /\ UsbInv)'
  BY InputStep, UsbStep
<1>3. InputInv /\ UsbInv => DevicesFollowed
  <2> SUFFICES ASSUME InputInv, UsbInv PROVE DevicesFollowed
    OBVIOUS
  <2>1. InputFollowed
    BY InputFacts
  <2>2. ChangesPending
    BY DEF UsbInv, PortsInv, ChangesNoticed, HeardRight, ChangesPending
  <2>3. ListedOnce
    BY ListingOnce DEF UsbInv, ListedOnce
  <2> QED BY <2>1, <2>2, <2>3 DEF DevicesFollowed, HotplugFollowed
<1> QED BY <1>1, <1>2, <1>3, PTL DEF DevicesSpec

=============================================================================
