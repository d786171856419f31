--------------------------- MODULE SchedulerProofs ---------------------------
(* Proofs about Scheduler, for every NPROC and both bounds. *)
EXTENDS Scheduler, SequenceTheorems, TLAPS

-----------------------------------------------------------------------------
(* The ready list. *)

(* enqueue keeps the list a list of slots, whatever its shape. *)
LEMMA EnqueueType ==
    ASSUME queue \in Seq(Slots), looped \in BOOLEAN, NEW p \in Slots, Enqueue(p)
    PROVE  queue' \in Seq(Slots) /\ looped' \in BOOLEAN
<1>1. CASE InQueue(p)
  <2> DEFINE k == CHOOSE j \in 1 .. Len(queue) : queue[j] = p
  <2>1. k \in 1 .. Len(queue)
    BY <1>1 DEF InQueue
  <2>2. QueueUpTo(p) = SubSeq(queue, 1, k)
    BY DEF QueueUpTo
  <2> HIDE DEF k
  <2>3. SubSeq(queue, 1, k) \in Seq(Slots)
    BY <2>1, SubSeqProperties
  <2> QED BY <1>1, <2>2, <2>3 DEF Enqueue
<1>2. CASE ~InQueue(p)
  BY <1>2 DEF Enqueue
<1> QED BY <1>1, <1>2

(* enqueue brings in nobody but p, whatever the list's shape. *)
LEMMA EnqueueElements ==
    ASSUME queue \in Seq(Slots), NEW p \in Slots, Enqueue(p), NEW q \in Slots, InQueue(q)'
    PROVE  InQueue(q) \/ q = p
<1>1. PICK i \in 1 .. Len(queue') : queue'[i] = q
  BY DEF InQueue
<1>2. CASE InQueue(p)
  <2> DEFINE k == CHOOSE j \in 1 .. Len(queue) : queue[j] = p
  <2>1. k \in 1 .. Len(queue)
    BY <1>2 DEF InQueue
  <2>2. queue' = SubSeq(queue, 1, k)
    BY <1>2 DEF Enqueue, QueueUpTo
  <2> HIDE DEF k
  <2>3. /\ Len(SubSeq(queue, 1, k)) = k
        /\ \A j \in 1 .. k : SubSeq(queue, 1, k)[j] = queue[j]
    BY <2>1
  <2>4. i \in 1 .. Len(queue) /\ queue[i] = q
    BY <1>1, <2>1, <2>2, <2>3
  <2> QED BY <2>4 DEF InQueue
<1>3. CASE ~InQueue(p)
  BY <1>1, <1>3 DEF Enqueue, InQueue
<1> QED BY <1>2, <1>3

(* enqueue of a process that is not in a sound list adds it and no other. *)
LEMMA EnqueueFresh ==
    ASSUME queue \in Seq(Slots), ListSound, NEW p \in Slots, ~InQueue(p), Enqueue(p)
    PROVE  /\ ListSound'
           /\ \A q \in Slots : InQueue(q)' <=> InQueue(q) \/ q = p
<1>1. queue' = Append(queue, p) /\ ~looped'
  BY DEF Enqueue, ListSound
<1>2. \A j \in 1 .. Len(queue) : queue[j] # p
  BY DEF InQueue
<1>3. ListSound'
  BY <1>1, <1>2 DEF ListSound
<1>4. ASSUME NEW q \in Slots
      PROVE  InQueue(q)' <=> InQueue(q) \/ q = p
  BY <1>1 DEF InQueue
<1> QED BY <1>3, <1>4

(* dequeue keeps the list a list of slots, whatever its shape. *)
LEMMA DequeueType ==
    ASSUME queue \in Seq(Slots), looped \in BOOLEAN, queue # <<>>, Dequeue
    PROVE  queue' \in Seq(Slots) /\ looped' \in BOOLEAN /\ Head(queue) \in Slots
<1>1. Head(queue) \in Slots /\ Tail(queue) \in Seq(Slots)
  OBVIOUS
<1> QED BY <1>1 DEF Dequeue

(* dequeue brings in nobody, whatever the list's shape. *)
LEMMA DequeueElements ==
    ASSUME queue \in Seq(Slots), queue # <<>>, Dequeue, NEW q \in Slots, InQueue(q)'
    PROVE  InQueue(q)
<1>1. PICK i \in 1 .. Len(queue') : queue'[i] = q
  BY DEF InQueue
<1>2. Tail(queue) \in Seq(Slots) /\ Len(Tail(queue)) = Len(queue) - 1
      /\ \A j \in 1 .. Len(Tail(queue)) : Tail(queue)[j] = queue[j + 1]
  OBVIOUS
<1>3. \E j \in 1 .. Len(queue) : queue[j] = q
  BY <1>1, <1>2 DEF Dequeue
<1> QED BY <1>3 DEF InQueue

(* dequeue takes exactly the head out of a sound list. *)
LEMMA DequeueSound ==
    ASSUME queue \in Seq(Slots), ListSound, queue # <<>>, Dequeue
    PROVE  /\ ListSound'
           /\ \A q \in Slots : InQueue(q)' <=> InQueue(q) /\ q # Head(queue)
<1>1. queue' = Tail(queue) /\ ~looped'
  BY DEF Dequeue, ListSound
<1>2. Len(queue') = Len(queue) - 1 /\ \A j \in 1 .. Len(queue') : queue'[j] = queue[j + 1]
  BY <1>1
<1>3. Len(queue) \in Nat /\ Len(queue) > 0 /\ Head(queue) = queue[1]
  OBVIOUS
<1>4. ListSound'
  BY <1>1, <1>2, <1>3 DEF ListSound
<1>5. ASSUME NEW q \in Slots
      PROVE  InQueue(q)' <=> InQueue(q) /\ q # Head(queue)
  <2>1. ASSUME InQueue(q)'
        PROVE  InQueue(q) /\ q # Head(queue)
    <3>1. PICK j \in 1 .. Len(queue') : queue'[j] = q
      BY <2>1 DEF InQueue
    <3>2. j + 1 \in 1 .. Len(queue) /\ queue[j + 1] = q /\ j + 1 # 1
      BY <1>2, <1>3, <3>1
    <3> QED BY <1>3, <3>2 DEF InQueue, ListSound
  <2>2. ASSUME InQueue(q), q # Head(queue)
        PROVE  InQueue(q)'
    <3>1. PICK j \in 1 .. Len(queue) : queue[j] = q
      BY <2>2 DEF InQueue
    <3>2. j # 1
      BY <1>3, <2>2, <3>1
    <3>3. j - 1 \in 1 .. Len(queue') /\ queue'[j - 1] = q
      BY <1>2, <1>3, <3>1, <3>2
    <3> QED BY <3>3 DEF InQueue
  <2> QED BY <2>1, <2>2
<1> QED BY <1>4, <1>5

-----------------------------------------------------------------------------
(* The inductive invariant. *)

(* What context c itself has in hand: InHand(p) is that one of them has p.  *)
Hand(c, p) ==
    \/ c = "thread" /\ pc[c] = "kstack" /\ creating.slot = p
    \/ pc[c] = "wakeq" /\ idx[c] = p
    \/ pc[c] = "putback" /\ held[c] = p
    \/ pc[c] = "dispatch" /\ next[c] = p

(* The list part of Sound, in terms of membership.                          *)
Listed ==
    /\ ListSound
    /\ \A q \in Slots : InQueue(q) => state[q] = "RUNNABLE"
    /\ \A q \in Slots : InQueue(q) => \A c \in Contexts : ~Hand(c, q)
    /\ \A q \in Slots : state[q] = "RUNNABLE" => InQueue(q) \/ \E c \in Contexts : Hand(c, q)

(* What a context has in hand is RUNNABLE, and no other context's.          *)
HandsSound ==
    /\ \A c \in Contexts : \A q \in Slots : Hand(c, q) => state[q] = "RUNNABLE"
    /\ \A q \in Slots : ~(Hand("thread", q) /\ Hand("irq", q))

(* What a context has found out and not used yet is still so.               *)
StillSo(c) ==
    /\ pc[c] = "awake" => state[idx[c]] = "SLEEPING"
    /\ pc[c] \in {"sleeping", "unrun"} => held[c] = current /\ state[current] = "RUNNING"
    /\ pc[c] = "putback" => held[c] = current
    /\ pc[c] = "keep" => queue = <<>>
    /\ pc[c] \notin {"rerun", "hung"}
    /\ pc[c] = "setcurrent" => state[next[c]] = "RUNNING"
NewApart ==
    /\ pc["thread"] = "mark" => state[creating.slot] = "UNUSED"
    /\ pc["thread"] \in {"mark", "kstack"} => creating.slot # current

(* Outside schedule() the current process is RUNNING, so sleep() takes no   *)
(* queued process out of the RUNNABLE state.                                *)
CurrentLive ==
    current # NULL =>
        /\ state[current] # "UNUSED"
        /\ pc["thread"] \in {"off"} \cup InCreate /\ pc["irq"] = "off" => state[current] = "RUNNING"

OnlyOneRuns ==
    \A p \in Slots : state[p] = "RUNNING" =>
        \/ p = current /\ \A c \in Contexts : ~Choosing(c)
        \/ \E c \in Contexts : pc[c] = "setcurrent" /\ next[c] = p

(* An interrupt at a harmful place is recorded. *)
NestingSeen == pc["thread"] \in Harmful /\ pc["irq"] # "off" => reentered

(* Whoever is live, listed, current or in some variable was created.        *)
Created(q) ==
    \/ state[q] # "UNUSED"
    \/ InQueue(q)
    \/ q = current
    \/ \E c \in Contexts : next[c] = q \/ held[c] = q
    \/ \E c \in Contexts : pc[c] \in {"awake", "wakeq"} /\ idx[c] = q
    \/ pc["thread"] \in {"kstack", "ustack"} /\ creating.slot = q
Seen == {q \in Slots : Created(q)}
Counted ==
    /\ \A q \in Seen : q < procCount
    /\ pc["thread"] = "mark" => creating.slot <= procCount

Sound ==
    /\ Listed
    /\ HandsSound
    /\ \A c \in Contexts : StillSo(c)
    /\ NewApart
    /\ CurrentLive
    /\ OnlyOneRuns

IInv ==
    /\ TypeOK
    /\ Counted
    /\ NestingSeen
    /\ Undisturbed => Sound

\* The list of the inductive invariant is the one the properties speak of.
LEMMA ListedIsSound ==
    ASSUME TypeOK, Listed
    PROVE  ListSound /\ QueuedIsRunnable /\ RunnableIsQueued
<1>1. \A k \in 1 .. Len(queue) : queue[k] \in Slots /\ InQueue(queue[k])
  BY DEF TypeOK, InQueue
<1>2. \A q : InHand(q) <=> \E c \in Contexts : Hand(c, q)
  BY DEF InHand, Hand, Contexts
<1> QED BY <1>1, <1>2 DEF Listed, QueuedIsRunnable, RunnableIsQueued

-----------------------------------------------------------------------------
\* The scheduler starts in its invariant.
LEMMA InitIInv == Init => IInv
<1> SUFFICES ASSUME Init
             PROVE  IInv
  OBVIOUS
<1> USE DEF Init
<1>1. queue \in Seq(Slots) /\ Len(queue) = 0
  OBVIOUS
<1>2. TypeOK
  <2>1. /\ state \in [Slots -> ProcStates]
        /\ wait \in [Slots -> Nat]
        /\ procCount \in Nat
    BY DEF ProcStates
  <2>2. /\ pc \in [Contexts -> Places]
        /\ idx \in [Contexts -> 0 .. NPROC]
        /\ held \in [Contexts -> Slots \cup {NULL}]
        /\ next \in [Contexts -> Slots \cup {NULL}]
    BY NPROCAssumption DEF Places
  <2>3. creating \in [slot : Slots \cup {NULL}, user : BOOLEAN]
    BY DEF Nobody
  <2>4. \A c \in Contexts : pc[c] = "off"
    OBVIOUS
  <2>5. "irq" \in Contexts /\ "thread" \in Contexts
    BY DEF Contexts
  <2> QED BY <1>1, <2>1, <2>2, <2>3, <2>4, <2>5 DEF TypeOK, InCreate
<1>3. Counted /\ NestingSeen
  BY <1>1 DEF Counted, Seen, Created, InQueue, NestingSeen, Harmful, Contexts, Slots, NULL
<1>4. Listed
  BY <1>1 DEF Listed, ListSound, InQueue
<1>5. HandsSound /\ NewApart /\ CurrentLive /\ OnlyOneRuns /\ \A c \in Contexts : StillSo(c)
  BY DEF HandsSound, Hand, NewApart, CurrentLive, OnlyOneRuns, StillSo, Contexts, Slots
<1> QED BY <1>2, <1>3, <1>4, <1>5 DEF IInv, Sound

(* Every step keeps the types. *)
LEMMA TypeStep == TypeOK /\ [Next]_vars => TypeOK'
<1> SUFFICES ASSUME TypeOK, [Next]_vars
             PROVE  TypeOK'
  OBVIOUS
<1> USE NPROCAssumption, SleepAssumption
    DEF Contexts, ProcStates, Places, InCreate, InSchedule, At, Go, EnterSchedule, proc, history
<1>0. NULL \notin Slots
  BY DEF NULL, Slots
<1>1. CASE \E user \in BOOLEAN : ProcCreate(user)
  BY <1>0, <1>1 DEF ProcCreate, TypeOK
<1>2. CASE Create
  <2>1. CASE Mark
    BY <2>1 DEF Mark, TypeOK
  <2>2. CASE KernelStackFails
    BY <2>2 DEF KernelStackFails, Nobody, TypeOK
  <2>3. CASE QueueNew
    <3>1. creating.slot \in Slots /\ Enqueue(creating.slot)
      BY <2>3 DEF QueueNew, EnqueueThen, TypeOK
    <3>2. queue' \in Seq(Slots) /\ looped' \in BOOLEAN
      BY <3>1, EnqueueType DEF TypeOK
    <3>3. \/ pc' = [pc EXCEPT !["thread"] = "off"]
          \/ pc' = [pc EXCEPT !["thread"] = "hung"]
          \/ pc' = [pc EXCEPT !["thread"] = "ustack"] /\ creating.user
      BY <2>3 DEF QueueNew, EnqueueThen
    <3>4. creating' = IF creating.user THEN creating ELSE Nobody
      BY <2>3 DEF QueueNew
    <3>5. creating' \in [slot : Slots \cup {NULL}, user : BOOLEAN]
          /\ (creating.user => creating' = creating)
      BY <3>4 DEF Nobody, TypeOK
    <3>6. UNCHANGED <<state, current, wait, procCount, idx, held, next, aborted, reentered>>
      BY <2>3 DEF QueueNew
    <3> QED BY <3>1, <3>2, <3>3, <3>5, <3>6, <1>0 DEF TypeOK
  <2>4. CASE UserStackAllocated
    BY <2>4 DEF UserStackAllocated, Nobody, TypeOK
  <2>5. CASE UserStackFails
    BY <2>5 DEF UserStackFails, Nobody, TypeOK
  <2> QED BY <1>2, <2>1, <2>2, <2>3, <2>4, <2>5 DEF Create
<1>3. CASE Yield
  BY <1>3 DEF Yield, TypeOK
<1>4. ASSUME NEW ms \in 0 .. MaxSleep, Sleep(ms)
      PROVE  TypeOK'
  BY <1>4 DEF Sleep, TypeOK
<1>5. CASE FallAsleep
  BY <1>5 DEF FallAsleep, Reload, TypeOK
<1>6. CASE Tick
  BY <1>6 DEF Tick, TypeOK
<1>7. ASSUME NEW c \in Contexts, Schedule(c)
      PROVE  TypeOK'
  <2>1. CASE NotDue(c) \/ FindDue(c) \/ WakeDone(c)
    <3>1. CASE NotDue(c)
      BY <3>1 DEF NotDue, WakeNext, TypeOK
    <3>2. CASE FindDue(c)
      BY <3>2 DEF FindDue, TypeOK
    <3>3. CASE WakeDone(c)
      BY <3>3 DEF WakeDone, TypeOK
    <3> QED BY <2>1, <3>1, <3>2, <3>3
  <2>2. CASE Wake(c)
    BY <2>2 DEF Wake, TypeOK, Slots
  <2>3. CASE QueueWoken(c)
    <3>1. idx[c] \in Slots /\ Enqueue(idx[c])
      BY <2>3 DEF QueueWoken, EnqueueThen, TypeOK, Slots
    <3>2. queue' \in Seq(Slots) /\ looped' \in BOOLEAN
      BY <3>1, EnqueueType DEF TypeOK
    <3>3. pc' = [pc EXCEPT ![c] = "wake"] \/ pc' = [pc EXCEPT ![c] = "hung"]
      BY <2>3 DEF QueueWoken, EnqueueThen
    <3>4. idx' \in [Contexts -> 0 .. NPROC] /\ \A d \in Contexts : d # c => idx'[d] = idx[d]
      BY <2>3, <3>1 DEF QueueWoken, TypeOK, Slots
    <3>5. UNCHANGED <<state, current, wait, procCount, held, next, creating, aborted, reentered>>
      BY <2>3 DEF QueueWoken
    <3> QED BY <3>2, <3>3, <3>4, <3>5 DEF TypeOK
  <2>4. CASE Requeue(c) \/ RequeueNot(c)
    <3>1. CASE Requeue(c)
      BY <3>1 DEF Requeue, Runs, TypeOK
    <3>2. CASE RequeueNot(c)
      BY <3>2 DEF RequeueNot, TypeOK
    <3> QED BY <2>4, <3>1, <3>2
  <2>5. CASE Unrun(c)
    <3>1. PICK p \in Reload(c) : state' = [state EXCEPT ![p] = "RUNNABLE"]
      BY <2>5 DEF Unrun
    <3>2. state' \in [Slots -> {"UNUSED", "RUNNABLE", "RUNNING", "SLEEPING"}]
      BY <3>1 DEF TypeOK
    <3> QED BY <2>5, <3>2 DEF Unrun, TypeOK
  <2>6. CASE PutBack(c)
    <3>1. PICK p \in Slots : EnqueueThen(c, p, "pick")
      BY <2>6 DEF PutBack, Reload, TypeOK
    <3>2. queue' \in Seq(Slots) /\ looped' \in BOOLEAN
      BY <3>1, EnqueueType DEF EnqueueThen, TypeOK
    <3>3. pc' = [pc EXCEPT ![c] = "pick"] \/ pc' = [pc EXCEPT ![c] = "hung"]
      BY <3>1 DEF EnqueueThen
    <3> QED BY <2>6, <3>2, <3>3 DEF PutBack, TypeOK
  <2>7. CASE Pick(c)
    <3>1. queue' \in Seq(Slots) /\ looped' \in BOOLEAN /\ Head(queue) \in Slots
      BY <2>7, DequeueType DEF Pick, TypeOK
    <3> QED BY <1>0, <2>7, <3>1 DEF Pick, TypeOK
  <2>8. CASE PickNone(c) \/ Keep(c) \/ Idle(c)
    BY <2>8 DEF PickNone, Keep, Idle, TypeOK
  <2>9. CASE Rerun(c)
    <3>1. PICK p \in Reload(c) : state' = [state EXCEPT ![p] = "RUNNING"]
      BY <2>9 DEF Rerun
    <3>2. state' \in [Slots -> {"UNUSED", "RUNNABLE", "RUNNING", "SLEEPING"}]
      BY <3>1 DEF TypeOK
    <3> QED BY <2>9, <3>2 DEF Rerun, TypeOK
  <2>10. CASE Dispatch(c)
    BY <2>10 DEF Dispatch, TypeOK
  <2>11. CASE SetCurrent(c)
    BY <1>0, <2>11 DEF SetCurrent, TypeOK
  <2> QED BY <1>7, <2>1, <2>2, <2>3, <2>4, <2>5, <2>6, <2>7, <2>8, <2>9, <2>10, <2>11 DEF Schedule
<1>8. CASE UNCHANGED vars
  BY <1>8 DEF vars, TypeOK
<1> QED BY <1>1, <1>2, <1>3, <1>4, <1>5, <1>6, <1>7, <1>8 DEF Next

(* Every step keeps the created slots below proc_count. *)
LEMMA CountedStep == TypeOK /\ Counted /\ [Next]_vars => Counted'
<1> SUFFICES ASSUME TypeOK, Counted, [Next]_vars
             PROVE  Counted'
  OBVIOUS
<1> USE DEF At, Go, EnterSchedule, proc, history
<1>1. ASSUME procCount' = procCount, Seen' \subseteq Seen,
             pc'["thread"] # "mark" \/ (pc'["thread"] = pc["thread"] /\ creating' = creating)
      PROVE  Counted'
  BY <1>1 DEF Counted
<1>2. ASSUME NEW user \in BOOLEAN, ProcCreate(user)
      PROVE  Counted'
  <2>1. PICK i \in Slots : FirstUnused(i) /\ creating' = [slot |-> i, user |-> user]
    BY <1>2 DEF ProcCreate
  <2>2. i <= procCount
    <3>1. CASE i = 0
      BY <3>1 DEF TypeOK
    <3>2. CASE i # 0
      <4>1. i - 1 \in Slots /\ state[i - 1] # "UNUSED"
        BY <2>1, <3>2, NPROCAssumption DEF FirstUnused, Slots
      <4>2. i - 1 < procCount
        BY <4>1 DEF Counted, Seen, Created
      <4> QED BY <4>2 DEF TypeOK, Slots
    <3> QED BY <3>1, <3>2
  <2>3. Seen' \subseteq Seen
    BY <1>2 DEF ProcCreate, Seen, Created, InQueue, TypeOK, Contexts
  <2>4. creating'.slot = i /\ procCount' = procCount
    BY <1>2, <2>1 DEF ProcCreate
  <2> QED BY <2>2, <2>3, <2>4 DEF Counted
<1>3. CASE Mark
  <2> DEFINE i == creating.slot
  <2>1. i \in Slots /\ i <= procCount
    BY <1>3 DEF Mark, Counted, TypeOK, InCreate
  <2>2. Seen' \subseteq Seen \cup {i}
    BY <1>3, <2>1 DEF Mark, Seen, Created, InQueue, TypeOK, Contexts
  <2>3. procCount \in Nat /\ procCount' = procCount + 1 /\ pc'["thread"] # "mark"
    BY <1>3 DEF Mark, TypeOK, Contexts
  <2>4. ASSUME NEW q \in Seen'
        PROVE  q < procCount'
    <3>1. CASE q = i
      BY <2>1, <2>3, <3>1, NPROCAssumption DEF Slots
    <3>2. CASE q # i
      <4>1. q < procCount
        BY <2>2, <2>4, <3>2 DEF Counted
      <4>2. q \in Slots
        BY <2>4 DEF Seen
      <4> QED BY <2>3, <4>1, <4>2, NPROCAssumption DEF Slots
    <3> QED BY <3>1, <3>2
  <2> QED BY <2>3, <2>4 DEF Counted
<1>4. CASE KernelStackFails
  <2>1. /\ UNCHANGED <<queue, current, procCount, idx, held, next>>
        /\ pc' = [pc EXCEPT !["thread"] = "off"]
        /\ state' = [state EXCEPT ![creating.slot] = "UNUSED"]
    BY <1>4 DEF KernelStackFails
  <2>2. pc'["thread"] = "off" /\ \A d \in Contexts : pc'[d] = pc[d] \/ pc'[d] = "off"
    BY <2>1 DEF TypeOK, Contexts
  <2>3. \A q \in Slots : state'[q] = state[q] \/ state'[q] = "UNUSED"
    BY <2>1 DEF TypeOK
  <2>4. Seen' \subseteq Seen
    BY <2>1, <2>2, <2>3 DEF Seen, Created, InQueue
  <2> QED BY <1>1, <2>1, <2>2, <2>4
<1>5. CASE QueueNew
  <2>1. creating.slot \in Slots /\ Enqueue(creating.slot) /\ Created(creating.slot)
    BY <1>5 DEF QueueNew, EnqueueThen, TypeOK, InCreate, Created
  <2>2. \A q \in Slots : InQueue(q)' => InQueue(q) \/ q = creating.slot
    BY <2>1, EnqueueElements DEF TypeOK
  <2>3. pc'["thread"] \in {"off", "ustack", "hung"} /\ \A d \in Contexts : d # "thread" => pc'[d] = pc[d]
    BY <1>5 DEF QueueNew, EnqueueThen, TypeOK, Contexts
  <2>4. creating' = creating \/ creating' = Nobody
    BY <1>5 DEF QueueNew
  <2>5. UNCHANGED <<state, current, procCount, idx, held, next>> /\ pc["thread"] = "kstack"
    BY <1>5 DEF QueueNew
  <2>6. Seen' \subseteq Seen
    BY <2>1, <2>2, <2>3, <2>4, <2>5 DEF Seen, Created, Nobody, Contexts, Slots, NULL
  <2>7. procCount' = procCount /\ pc'["thread"] # "mark"
    BY <2>3, <2>5
  <2> QED BY <1>1, <2>6, <2>7
<1>6. CASE UserStackAllocated \/ UserStackFails
  <2>1. /\ UNCHANGED <<queue, current, procCount, idx, held, next>>
        /\ pc' = [pc EXCEPT !["thread"] = "off"]
        /\ state' = state \/ state' = [state EXCEPT ![creating.slot] = "UNUSED"]
    BY <1>6 DEF UserStackAllocated, UserStackFails
  <2>2. pc'["thread"] = "off" /\ \A d \in Contexts : pc'[d] = pc[d] \/ pc'[d] = "off"
    BY <2>1 DEF TypeOK, Contexts
  <2>3. \A q \in Slots : state'[q] = state[q] \/ state'[q] = "UNUSED"
    BY <2>1 DEF TypeOK
  <2>4. Seen' \subseteq Seen
    BY <2>1, <2>2, <2>3 DEF Seen, Created, InQueue
  <2> QED BY <1>1, <2>1, <2>2, <2>4
<1>7. CASE Yield \/ Tick
  BY <1>1, <1>7 DEF Yield, Tick, Seen, Created, InQueue, TypeOK, Contexts
<1>8. ASSUME NEW ms \in 0 .. MaxSleep, Sleep(ms)
      PROVE  Counted'
  BY <1>1, <1>8 DEF Sleep, Seen, Created, InQueue, TypeOK, Contexts
<1>9. CASE FallAsleep
  <2>1. PICK p \in Reload("thread") : state' = [state EXCEPT ![p] = "SLEEPING"]
    BY <1>9 DEF FallAsleep
  <2>2. p \in Slots /\ Created(p)
    BY <1>9 DEF FallAsleep, Reload, TypeOK, Created, Contexts
  <2>3. \A q \in Slots : q # p => state'[q] = state[q]
    BY <2>1 DEF TypeOK
  <2>4. /\ pc'["thread"] = "wake" /\ pc'["irq"] = pc["irq"] /\ idx'["irq"] = idx["irq"]
        /\ held'["thread"] = NULL /\ held'["irq"] = held["irq"]
        /\ UNCHANGED <<queue, current, procCount, next>>
    BY <1>9 DEF FallAsleep, TypeOK, Contexts
  <2>5. Seen' \subseteq Seen
    BY <2>2, <2>3, <2>4 DEF Seen, Created, InQueue, Contexts, Slots, NULL
  <2>6. procCount' = procCount /\ pc'["thread"] # "mark"
    BY <2>4
  <2> QED BY <1>1, <2>4, <2>6, <2>5
<1>10. ASSUME NEW c \in Contexts, Schedule(c)
       PROVE  Counted'
  <2>0. ASSUME procCount' = procCount, creating' = creating, Seen' \subseteq Seen,
               \A d \in Contexts : d # c => pc'[d] = pc[d], pc'[c] # "mark"
        PROVE  Counted'
    <3>1. pc'["thread"] # "mark" \/ (pc'["thread"] = pc["thread"] /\ creating' = creating)
      BY <2>0 DEF Contexts
    <3> QED BY <1>1, <2>0, <3>1
  <2>1. CASE NotDue(c) \/ WakeDone(c)
    BY <2>0, <2>1 DEF NotDue, WakeDone, WakeNext, Seen, Created, InQueue, TypeOK, Contexts
  <2>2. CASE FindDue(c)
    BY <2>0, <2>2 DEF FindDue, Due, Seen, Created, InQueue, TypeOK, Contexts
  <2>3. CASE Wake(c)
    BY <2>0, <2>3 DEF Wake, Seen, Created, InQueue, TypeOK, Contexts, Slots
  <2>4. CASE QueueWoken(c)
    <3>1. idx[c] \in Slots /\ Enqueue(idx[c]) /\ Created(idx[c])
      <4>1. pc[c] = "wakeq" /\ Enqueue(idx[c])
        BY <2>4 DEF QueueWoken, EnqueueThen
      <4>2. idx[c] \in Slots
        BY <4>1, NPROCAssumption DEF TypeOK, Slots
      <4>3. Created(idx[c])
        BY <4>1 DEF Created
      <4> QED BY <4>1, <4>2, <4>3
    <3>2. \A q \in Slots : InQueue(q)' => InQueue(q) \/ q = idx[c]
      BY <3>1, EnqueueElements DEF TypeOK
    <3>3. pc'[c] \in {"wake", "hung"} /\ \A d \in Contexts : d # c => pc'[d] = pc[d] /\ idx'[d] = idx[d]
      BY <2>4 DEF QueueWoken, EnqueueThen, TypeOK, Contexts
    <3>4. UNCHANGED <<state, current, procCount, held, next, creating>>
      BY <2>4 DEF QueueWoken
    <3>5. Seen' \subseteq Seen
      BY <3>1, <3>2, <3>3, <3>4 DEF Seen, Created, Contexts
    <3>6. procCount' = procCount /\ creating' = creating /\ pc'[c] # "mark"
          /\ \A d \in Contexts : d # c => pc'[d] = pc[d]
      BY <3>3, <3>4
    <3> QED BY <2>0, <3>6, <3>5
  <2>5. CASE Requeue(c) \/ RequeueNot(c)
    BY <2>0, <2>5 DEF Requeue, RequeueNot, Seen, Created, InQueue, TypeOK, Contexts
  <2>6. CASE Unrun(c)
    BY <2>0, <2>6 DEF Unrun, Reload, Seen, Created, InQueue, TypeOK, Contexts
  <2>7. CASE PutBack(c)
    <3>1. PICK p \in Reload(c) : EnqueueThen(c, p, "pick")
      BY <2>7 DEF PutBack
    <3>2. p \in Slots /\ Created(p)
      BY <2>7 DEF PutBack, Reload, TypeOK, Created
    <3>3. \A q \in Slots : InQueue(q)' => InQueue(q) \/ q = p
      BY <3>1, <3>2, EnqueueElements DEF EnqueueThen, TypeOK
    <3>4. pc'[c] \in {"pick", "hung"} /\ \A d \in Contexts : d # c => pc'[d] = pc[d]
      BY <3>1 DEF EnqueueThen, TypeOK, Contexts
    <3>5. UNCHANGED <<state, current, procCount, idx, next, creating>>
          /\ \A d \in Contexts : held'[d] = held[d] \/ held'[d] = NULL
      BY <2>7 DEF PutBack, TypeOK
    <3>6. Seen' \subseteq Seen
      BY <3>2, <3>3, <3>4, <3>5 DEF Seen, Created, Contexts, Slots, NULL
    <3>7. procCount' = procCount /\ creating' = creating /\ pc'[c] # "mark"
          /\ \A d \in Contexts : d # c => pc'[d] = pc[d]
      BY <3>4, <3>5
    <3> QED BY <2>0, <3>6, <3>7
  <2>8. CASE Pick(c)
    <3>1. \A q \in Slots : InQueue(q)' => InQueue(q)
      BY <2>8, DequeueElements DEF Pick, TypeOK
    <3>2. Head(queue) \in Slots /\ InQueue(Head(queue))
      BY <2>8 DEF Pick, TypeOK, InQueue
    <3>3. \A d \in Contexts : next'[d] = next[d] \/ next'[d] = Head(queue)
      BY <2>8 DEF Pick, TypeOK
    <3>4. pc'[c] = "dispatch" /\ \A d \in Contexts : d # c => pc'[d] = pc[d]
      BY <2>8 DEF Pick, TypeOK, Contexts
    <3>5. UNCHANGED <<state, current, procCount, idx, held, creating>>
      BY <2>8 DEF Pick
    <3>6. Seen' \subseteq Seen
      BY <3>1, <3>2, <3>3, <3>4, <3>5 DEF Seen, Created, Contexts
    <3>7. procCount' = procCount /\ creating' = creating /\ pc'[c] # "mark"
          /\ \A d \in Contexts : d # c => pc'[d] = pc[d]
      BY <3>4, <3>5
    <3> QED BY <2>0, <3>6, <3>7
  <2>9. CASE PickNone(c) \/ Keep(c) \/ Idle(c)
    BY <2>0, <2>9 DEF PickNone, Keep, Idle, Seen, Created, InQueue, TypeOK, Contexts
  <2>10. CASE Rerun(c)
    BY <2>0, <2>10 DEF Rerun, Reload, Seen, Created, InQueue, TypeOK, Contexts, Slots, NULL
  <2>11. CASE Dispatch(c)
    BY <2>0, <2>11 DEF Dispatch, Seen, Created, InQueue, TypeOK, Contexts
  <2>12. CASE SetCurrent(c)
    BY <2>0, <2>12 DEF SetCurrent, Seen, Created, InQueue, TypeOK, Contexts, Slots, NULL
  <2> QED BY <1>10, <2>1, <2>2, <2>3, <2>4, <2>5, <2>6, <2>7, <2>8, <2>9, <2>10, <2>11, <2>12
          DEF Schedule
<1>11. CASE UNCHANGED vars
  BY <1>1, <1>11 DEF vars, Seen, Created, InQueue
<1> QED
  BY <1>2, <1>3, <1>4, <1>5, <1>6, <1>7, <1>8, <1>9, <1>10, <1>11 DEF Next, Create

(* What a step of schedule() in context c leaves alone.                     *)
LEMMA ScheduleFrame ==
    ASSUME TypeOK, NEW c \in Contexts, Schedule(c)
    PROVE  /\ \A d \in Contexts : d # c =>
                pc'[d] = pc[d] /\ idx'[d] = idx[d] /\ held'[d] = held[d] /\ next'[d] = next[d]
           /\ c = "irq" \/ pc["irq"] = "off"
           /\ pc[c] \notin {"off", "hung", "sleeping"} \cup InCreate
           /\ UNCHANGED <<creating, aborted, reentered>>
<1> USE DEF At, Go, proc, history, InCreate
<1>1. CASE NotDue(c) \/ FindDue(c) \/ Wake(c) \/ QueueWoken(c) \/ WakeDone(c)
  BY <1>1 DEF NotDue, FindDue, Wake, QueueWoken, WakeDone, WakeNext, EnqueueThen, TypeOK
<1>2. CASE Requeue(c) \/ RequeueNot(c) \/ Unrun(c) \/ PutBack(c)
  BY <1>2 DEF Requeue, RequeueNot, Unrun, PutBack, EnqueueThen, TypeOK
<1>3. CASE Pick(c) \/ PickNone(c) \/ Keep(c) \/ Idle(c)
  BY <1>3 DEF Pick, PickNone, Keep, Idle, TypeOK
<1>4. CASE Rerun(c) \/ Dispatch(c) \/ SetCurrent(c)
  BY <1>4 DEF Rerun, Dispatch, SetCurrent, TypeOK
<1> QED BY <1>1, <1>2, <1>3, <1>4 DEF Schedule

(* An interrupt that finds the thread at a harmful place is recorded. *)
LEMMA NestingStep == TypeOK /\ NestingSeen /\ [Next]_vars => NestingSeen'
<1> SUFFICES ASSUME TypeOK, NestingSeen, [Next]_vars
             PROVE  NestingSeen'
  OBVIOUS
<1> USE DEF NestingSeen, At, Go, EnterSchedule
<1>1. CASE Create \/ \E user \in BOOLEAN : ProcCreate(user)
  BY <1>1 DEF Create, ProcCreate, Mark, KernelStackFails, QueueNew, EnqueueThen,
              UserStackAllocated, UserStackFails, TypeOK, Contexts
<1>2. CASE Yield \/ FallAsleep \/ \E ms \in 0 .. MaxSleep : Sleep(ms)
  BY <1>2 DEF Yield, FallAsleep, Sleep, TypeOK, Contexts
<1>3. CASE Tick
  BY <1>3 DEF Tick, TypeOK, Contexts
<1>4. ASSUME NEW c \in Contexts, Schedule(c)
      PROVE  NestingSeen'
  BY <1>4, ScheduleFrame DEF Contexts
<1>5. CASE UNCHANGED vars
  BY <1>5 DEF vars, history
<1> QED BY <1>1, <1>2, <1>3, <1>4, <1>5 DEF Next

-----------------------------------------------------------------------------
(* How processes move between the list and the hands of the contexts.       *)

(* A process that becomes RUNNABLE in a context's hand keeps list and hands sound. *)
LEMMA ToHand ==
    ASSUME TypeOK, Listed, HandsSound, NEW c \in Contexts, NEW p \in Slots,
           state[p] # "RUNNABLE", state' = [state EXCEPT ![p] = "RUNNABLE"],
           UNCHANGED <<queue, looped>>,
           \A d \in Contexts, q \in Slots : Hand(d, q)' <=> Hand(d, q) \/ (d = c /\ q = p)
    PROVE  Listed' /\ HandsSound'
<1>1. \A q \in Slots : InQueue(q)' <=> InQueue(q)
  BY DEF InQueue
<1>2. ~InQueue(p) /\ \A d \in Contexts : ~Hand(d, p)
  BY DEF Listed, HandsSound
<1>3. \A q \in Slots : state'[q] = IF q = p THEN "RUNNABLE" ELSE state[q]
  BY DEF TypeOK
<1>4. Listed'
  BY <1>1, <1>2, <1>3 DEF Listed, ListSound
<1>5. HandsSound'
  BY <1>2, <1>3 DEF HandsSound, Contexts
<1> QED BY <1>4, <1>5

(* enqueue of the process a context has in hand keeps both sound and its walk ends. *)
LEMMA HandToQueue ==
    ASSUME TypeOK, Listed, HandsSound, NEW c \in Contexts, NEW p \in Slots,
           Hand(c, p), Enqueue(p), UNCHANGED state,
           \A d \in Contexts, q \in Slots : Hand(d, q)' <=> Hand(d, q) /\ ~(d = c /\ q = p)
    PROVE  Listed' /\ HandsSound' /\ WalkEnds(p)
<1>1. ~InQueue(p)
  BY DEF Listed
<1>2. ListSound' /\ \A q \in Slots : InQueue(q)' <=> InQueue(q) \/ q = p
  BY <1>1, EnqueueFresh DEF TypeOK, Listed
<1>3. state[p] = "RUNNABLE" /\ \A d \in Contexts : d # c => ~Hand(d, p)
  BY DEF HandsSound, Contexts
<1>4. Listed'
  BY <1>2, <1>3 DEF Listed
<1>5. HandsSound'
  BY DEF HandsSound, Contexts
<1> QED BY <1>4, <1>5 DEF WalkEnds, Listed, ListSound

(* dequeue moves the head into the hand of a context that had none.          *)
LEMMA QueueToHand ==
    ASSUME TypeOK, Listed, HandsSound, NEW c \in Contexts,
           queue # <<>>, Dequeue, UNCHANGED state,
           \A d \in Contexts, q \in Slots : Hand(d, q)' <=> Hand(d, q) \/ (d = c /\ q = Head(queue))
    PROVE  Listed' /\ HandsSound'
<1> DEFINE h == Head(queue)
<1>1. h \in Slots /\ InQueue(h)
  BY DEF TypeOK, InQueue
<1>2. ListSound' /\ \A q \in Slots : InQueue(q)' <=> InQueue(q) /\ q # h
  BY DequeueSound DEF TypeOK, Listed
<1>3. state[h] = "RUNNABLE" /\ \A d \in Contexts : ~Hand(d, h)
  BY <1>1 DEF Listed
<1> HIDE DEF h
<1>4. \A d \in Contexts, q \in Slots : Hand(d, q)' <=> Hand(d, q) \/ (d = c /\ q = h)
  BY DEF h
<1>5. Listed'
  BY <1>1, <1>2, <1>3, <1>4 DEF Listed
<1>6. HandsSound'
  BY <1>1, <1>3, <1>4 DEF HandsSound, Contexts
<1> QED BY <1>5, <1>6

(* A process leaves a hand and the RUNNABLE state in one step.               *)
LEMMA OutOfHand ==
    ASSUME TypeOK, Listed, HandsSound, NEW c \in Contexts, NEW p \in Slots,
           Hand(c, p), NEW s, s # "RUNNABLE", state' = [state EXCEPT ![p] = s],
           UNCHANGED <<queue, looped>>,
           \A d \in Contexts, q \in Slots : Hand(d, q)' <=> Hand(d, q) /\ ~(d = c /\ q = p)
    PROVE  Listed' /\ HandsSound'
<1>1. \A q \in Slots : InQueue(q)' <=> InQueue(q)
  BY DEF InQueue
<1>2. ~InQueue(p) /\ \A d \in Contexts : d # c => ~Hand(d, p)
  BY DEF Listed, HandsSound, Contexts
<1>3. \A q \in Slots : state'[q] = IF q = p THEN s ELSE state[q]
  BY DEF TypeOK
<1>4. Listed'
  BY <1>1, <1>2, <1>3 DEF Listed, ListSound
<1>5. HandsSound'
  BY <1>2, <1>3 DEF HandsSound, Contexts
<1> QED BY <1>4, <1>5

(* A step that makes nobody RUNNABLE or not, and moves nobody.               *)
LEMMA ListedUnchanged ==
    ASSUME TypeOK, Listed, HandsSound, UNCHANGED <<queue, looped>>,
           \A q \in Slots : state'[q] = "RUNNABLE" <=> state[q] = "RUNNABLE",
           \A d \in Contexts, q \in Slots : Hand(d, q)' <=> Hand(d, q)
    PROVE  Listed' /\ HandsSound'
<1>1. \A q \in Slots : InQueue(q)' <=> InQueue(q)
  BY DEF InQueue
<1>2. Listed'
  BY <1>1 DEF Listed, ListSound
<1>3. HandsSound'
  BY DEF HandsSound, Contexts
<1> QED BY <1>2, <1>3

-----------------------------------------------------------------------------
(* While undisturbed, the steps of proc_create keep the state sound.         *)
LEMMA CreateSound ==
    ASSUME TypeOK, Sound, ~UserStackFails,
           Create \/ \E user \in BOOLEAN : ProcCreate(user)
    PROVE  Sound'
<1> USE DEF At, Go, proc, history
<1>1. "thread" \in Contexts /\ "irq" \in Contexts
  BY DEF Contexts
<1>2. pc["irq"] = "off" /\ Listed /\ HandsSound
  BY DEF Create, ProcCreate, Mark, KernelStackFails, QueueNew, UserStackAllocated, Sound
<1>3. \A q : ~Hand("irq", q)
  BY <1>2 DEF Hand
<1>4. CASE \E user \in BOOLEAN : ProcCreate(user)
  <2>1. PICK i \in Slots : state[i] = "UNUSED" /\ creating'.slot = i
    BY <1>4 DEF ProcCreate, FirstUnused
  <2>2. /\ pc["thread"] = "off" /\ pc' = [pc EXCEPT !["thread"] = "mark"]
        /\ UNCHANGED <<state, queue, looped, current, idx, held, next>>
    BY <1>4 DEF ProcCreate
  <2>3. pc'["thread"] = "mark" /\ pc'["irq"] = "off"
    BY <1>1, <1>2, <2>2 DEF TypeOK
  <2>4. \A d \in Contexts, q \in Slots : Hand(d, q)' <=> Hand(d, q)
    BY <1>2, <2>2, <2>3 DEF Hand, Contexts
  <2>5. Listed' /\ HandsSound'
    BY <1>2, <2>2, <2>4, ListedUnchanged
  <2>6. i # current
    BY <2>1 DEF Sound, CurrentLive, Slots, NULL
  <2>7. CurrentLive' /\ NewApart'
    BY <1>2, <2>1, <2>2, <2>3, <2>6 DEF Sound, CurrentLive, NewApart, InCreate
  <2>8. OnlyOneRuns' /\ \A c \in Contexts : StillSo(c)'
    BY <1>2, <2>2, <2>3 DEF Sound, OnlyOneRuns, Choosing, StillSo, Contexts
  <2> QED BY <2>5, <2>7, <2>8 DEF Sound
<1>5. CASE Mark
  <2> DEFINE i == creating.slot
  <2>1. i \in Slots /\ pc["thread"] = "mark" /\ state[i] = "UNUSED" /\ i # current
    BY <1>5 DEF Mark, TypeOK, InCreate, Sound, NewApart
  <2>2. /\ state' = [state EXCEPT ![i] = "RUNNABLE"]
        /\ pc' = [pc EXCEPT !["thread"] = "kstack"]
        /\ UNCHANGED <<queue, looped, current, idx, held, next, creating>>
    BY <1>5 DEF Mark
  <2>3. pc'["thread"] = "kstack" /\ pc'["irq"] = "off"
    BY <1>1, <1>2, <2>2 DEF TypeOK
  <2>4. \A d \in Contexts, q \in Slots : Hand(d, q)' <=> Hand(d, q) \/ (d = "thread" /\ q = i)
    BY <1>2, <2>1, <2>2, <2>3 DEF Hand, Contexts
  <2>5. Listed' /\ HandsSound'
    BY <1>1, <1>2, <2>1, <2>2, <2>4, ToHand
  <2>6. \A q \in Slots : state'[q] = IF q = i THEN "RUNNABLE" ELSE state[q]
    BY <2>2 DEF TypeOK
  <2>7. CurrentLive' /\ NewApart'
    BY <1>2, <2>1, <2>2, <2>3, <2>6 DEF Sound, CurrentLive, NewApart, InCreate, TypeOK
  <2>8. OnlyOneRuns' /\ \A c \in Contexts : StillSo(c)'
    BY <1>2, <2>1, <2>2, <2>3, <2>6 DEF Sound, OnlyOneRuns, Choosing, StillSo, Contexts
  <2> QED BY <2>5, <2>7, <2>8 DEF Sound
<1>6. CASE KernelStackFails
  <2> DEFINE i == creating.slot
  <2>1. i \in Slots /\ pc["thread"] = "kstack" /\ i # current /\ Hand("thread", i)
    BY <1>6 DEF KernelStackFails, TypeOK, InCreate, Sound, NewApart, Hand
  <2>2. /\ state' = [state EXCEPT ![i] = "UNUSED"]
        /\ pc' = [pc EXCEPT !["thread"] = "off"]
        /\ UNCHANGED <<queue, looped, current, idx, held, next>>
    BY <1>6 DEF KernelStackFails
  <2>3. pc'["thread"] = "off" /\ pc'["irq"] = "off"
    BY <1>1, <1>2, <2>2 DEF TypeOK
  <2>4. \A d \in Contexts, q \in Slots : Hand(d, q)' <=> Hand(d, q) /\ ~(d = "thread" /\ q = i)
    BY <1>2, <2>1, <2>2, <2>3 DEF Hand, Contexts
  <2>5. Listed' /\ HandsSound'
    BY <1>1, <1>2, <2>1, <2>2, <2>4, OutOfHand
  <2>6. \A q \in Slots : state'[q] = IF q = i THEN "UNUSED" ELSE state[q]
    BY <2>2 DEF TypeOK
  <2>7. CurrentLive' /\ NewApart'
    BY <1>2, <2>1, <2>2, <2>3, <2>6 DEF Sound, CurrentLive, NewApart, InCreate, TypeOK
  <2>8. OnlyOneRuns' /\ \A c \in Contexts : StillSo(c)'
    BY <1>2, <2>1, <2>2, <2>3, <2>6 DEF Sound, OnlyOneRuns, Choosing, StillSo, Contexts
  <2> QED BY <2>5, <2>7, <2>8 DEF Sound
<1>7. CASE QueueNew
  <2> DEFINE i == creating.slot
  <2>1. i \in Slots /\ pc["thread"] = "kstack" /\ Hand("thread", i)
    BY <1>7 DEF QueueNew, TypeOK, InCreate, Hand
  <2>2. /\ Enqueue(i)
        /\ pc' = [pc EXCEPT !["thread"] = IF WalkEnds(i)
                                            THEN IF creating.user THEN "ustack" ELSE "off"
                                            ELSE "hung"]
        /\ UNCHANGED <<state, current, idx, held, next>>
    BY <1>7 DEF QueueNew, EnqueueThen
  <2>3. pc'["thread"] \in {"off", "ustack", "hung"} /\ pc'["irq"] = "off"
    BY <1>1, <1>2, <2>2 DEF TypeOK
  <2>4. \A d \in Contexts, q \in Slots : Hand(d, q)' <=> Hand(d, q) /\ ~(d = "thread" /\ q = i)
    BY <1>2, <2>1, <2>2, <2>3 DEF Hand, Contexts
  <2>5. Listed' /\ HandsSound' /\ WalkEnds(i)
    BY <1>1, <1>2, <2>1, <2>2, <2>4, HandToQueue
  <2>6. pc'["thread"] \in {"off", "ustack"}
    BY <1>1, <2>2, <2>5 DEF TypeOK
  <2>7. CurrentLive' /\ NewApart'
    BY <1>2, <2>1, <2>2, <2>3, <2>6 DEF Sound, CurrentLive, NewApart, InCreate, TypeOK
  <2>8. OnlyOneRuns' /\ \A c \in Contexts : StillSo(c)'
    BY <1>2, <2>1, <2>2, <2>3, <2>6 DEF Sound, OnlyOneRuns, Choosing, StillSo, Contexts
  <2> QED BY <2>5, <2>7, <2>8 DEF Sound
<1>8. CASE UserStackAllocated
  <2>1. /\ pc["thread"] = "ustack" /\ pc' = [pc EXCEPT !["thread"] = "off"]
        /\ UNCHANGED <<state, queue, looped, current, idx, held, next>>
    BY <1>8 DEF UserStackAllocated
  <2>2. pc'["thread"] = "off" /\ pc'["irq"] = "off"
    BY <1>1, <1>2, <2>1 DEF TypeOK
  <2>3. \A d \in Contexts, q \in Slots : Hand(d, q)' <=> Hand(d, q)
    BY <1>2, <2>1, <2>2 DEF Hand, Contexts
  <2>4. Listed' /\ HandsSound'
    BY <1>2, <2>1, <2>3, ListedUnchanged
  <2>5. CurrentLive' /\ NewApart'
    BY <1>2, <2>1, <2>2 DEF Sound, CurrentLive, NewApart, InCreate
  <2>6. OnlyOneRuns' /\ \A c \in Contexts : StillSo(c)'
    BY <1>2, <2>1, <2>2 DEF Sound, OnlyOneRuns, Choosing, StillSo, Contexts
  <2> QED BY <2>4, <2>5, <2>6 DEF Sound
<1> QED BY <1>4, <1>5, <1>6, <1>7, <1>8 DEF Create

(* So do the entries into schedule(), if the interrupt comes at a harmless place. *)
LEMMA EntrySound ==
    ASSUME TypeOK, Sound,
           \/ Yield
           \/ \E ms \in 0 .. MaxSleep : Sleep(ms)
           \/ FallAsleep
           \/ Tick /\ pc["thread"] \notin Harmful
    PROVE  Sound'
<1> USE DEF At, Go, EnterSchedule, proc, history
<1>1. "thread" \in Contexts /\ "irq" \in Contexts
  BY DEF Contexts
<1>2. pc["irq"] = "off" /\ Listed /\ HandsSound
  BY DEF Yield, Sleep, FallAsleep, Tick, Sound
<1>3. \A d \in Contexts, q \in Slots : Hand(d, q)' <=> Hand(d, q)
  BY <1>2 DEF Yield, Sleep, FallAsleep, Tick, Hand, Contexts, TypeOK
<1>4. CASE Yield
  <2>1. /\ pc["thread"] = "off" /\ pc'["thread"] = "wake" /\ pc'["irq"] = "off"
        /\ UNCHANGED <<state, queue, looped, current, next>>
    BY <1>1, <1>2, <1>4 DEF Yield, TypeOK
  <2>2. Listed' /\ HandsSound'
    BY <1>2, <1>3, <2>1, ListedUnchanged
  <2>3. CurrentLive' /\ NewApart' /\ OnlyOneRuns' /\ \A c \in Contexts : StillSo(c)'
    BY <1>2, <2>1 DEF Sound, CurrentLive, NewApart, InCreate, OnlyOneRuns, Choosing, StillSo, Contexts
  <2> QED BY <2>2, <2>3 DEF Sound
<1>5. CASE \E ms \in 0 .. MaxSleep : Sleep(ms)
  <2>1. /\ pc["thread"] = "off" /\ pc'["thread"] = "sleeping" /\ pc'["irq"] = "off"
        /\ current # NULL /\ held'["thread"] = current
        /\ UNCHANGED <<state, queue, looped, current, next>>
    BY <1>1, <1>2, <1>5 DEF Sleep, TypeOK
  <2>2. Listed' /\ HandsSound'
    BY <1>2, <1>3, <2>1, ListedUnchanged
  <2>3. state[current] = "RUNNING"
    BY <1>2, <2>1 DEF Sound, CurrentLive
  <2>4. CurrentLive' /\ NewApart' /\ OnlyOneRuns'
    BY <1>2, <2>1 DEF Sound, CurrentLive, NewApart, InCreate, OnlyOneRuns, Choosing, Contexts
  <2>5. \A c \in Contexts : StillSo(c)'
    BY <1>2, <2>1, <2>3 DEF StillSo, Contexts
  <2> QED BY <2>2, <2>4, <2>5 DEF Sound
<1>6. CASE FallAsleep
  <2>1. pc["thread"] = "sleeping" /\ current \in Slots /\ state[current] = "RUNNING"
        /\ held["thread"] = current
    BY <1>1, <1>6 DEF FallAsleep, Sound, StillSo, TypeOK
  <2>2. Reload("thread") = {current}
    BY <2>1 DEF Reload
  <2>3. state' = [state EXCEPT ![current] = "SLEEPING"]
    BY <1>6, <2>2 DEF FallAsleep
  <2>4. \A q \in Slots : state'[q] = IF q = current THEN "SLEEPING" ELSE state[q]
    BY <2>3 DEF TypeOK
  <2>5. pc'["thread"] = "wake" /\ pc'["irq"] = "off" /\ UNCHANGED <<queue, looped, current, next>>
    BY <1>1, <1>2, <1>6 DEF FallAsleep, TypeOK
  <2>6. Listed' /\ HandsSound'
    BY <1>2, <1>3, <2>1, <2>4, <2>5, ListedUnchanged
  <2>7. CurrentLive' /\ NewApart' /\ OnlyOneRuns' /\ \A c \in Contexts : StillSo(c)'
    BY <1>2, <2>1, <2>4, <2>5
    DEF Sound, CurrentLive, NewApart, InCreate, OnlyOneRuns, Choosing, StillSo, Contexts
  <2> QED BY <2>6, <2>7 DEF Sound
<1>7. CASE Tick /\ pc["thread"] \notin Harmful
  <2>1. /\ pc'["irq"] = "wake" /\ pc'["thread"] = pc["thread"]
        /\ UNCHANGED <<state, queue, looped, current, held, next, creating>>
    BY <1>1, <1>7 DEF Tick, TypeOK
  <2>2. Listed' /\ HandsSound'
    BY <1>2, <1>3, <2>1, ListedUnchanged
  <2>3. CurrentLive' /\ NewApart'
    BY <1>2, <2>1 DEF Sound, CurrentLive, NewApart
  <2>4. OnlyOneRuns'
    BY <1>2, <2>1 DEF Sound, OnlyOneRuns, Choosing, Contexts
  <2>5. \A c \in Contexts : StillSo(c)'
    BY <1>2, <1>7, <2>1 DEF Sound, StillSo, Contexts, Harmful
  <2> QED BY <2>2, <2>3, <2>4, <2>5 DEF Sound
<1> QED BY <1>4, <1>5, <1>6, <1>7

(* And so do the steps of schedule() in the context that is running.         *)
LEMMA ScheduleSound ==
    ASSUME TypeOK, NestingSeen, ~reentered, Sound, NEW c \in Contexts, Schedule(c)
    PROVE  Sound'
<1> USE DEF At, Go, proc, history
<1>1. /\ Listed /\ HandsSound /\ StillSo(c)
      /\ pc[c] \notin {"off", "hung", "sleeping"} \cup InCreate
      /\ creating' = creating
  BY ScheduleFrame DEF Sound
<1>2. \A d \in Contexts : d # c =>
        /\ pc'[d] = pc[d] /\ idx'[d] = idx[d] /\ held'[d] = held[d] /\ next'[d] = next[d]
        /\ pc[d] \notin Harmful \cup {"rerun", "hung"}
  <2>1. CASE c = "thread"
    BY <2>1, ScheduleFrame DEF Contexts, Harmful
  <2>2. CASE c = "irq"
    BY <1>1, <2>2, ScheduleFrame DEF Contexts, NestingSeen, Sound, StillSo
  <2> QED BY <2>1, <2>2 DEF Contexts
<1>3. \A d \in Contexts : d # c => StillSo(d)' /\ ~Choosing(d) /\ ~Choosing(d)'
  BY <1>2 DEF StillSo, Choosing, Harmful
<1>4. \A d \in Contexts, q \in Slots : d # c =>
        /\ Hand(d, q)' <=> Hand(d, q)
        /\ Hand(d, q) <=> d = "thread" /\ pc["thread"] = "kstack" /\ creating.slot = q
  BY <1>1, <1>2 DEF Hand, Harmful
<1>5. \A q \in Slots : state[q] = "RUNNING" =>
        \/ q = current /\ ~Choosing(c)
        \/ pc[c] = "setcurrent" /\ next[c] = q
  BY <1>2 DEF Sound, OnlyOneRuns, Harmful
<1>6. ASSUME ~Choosing(c)' \/ \A q \in Slots : state'[q] # "RUNNING",
             \A q \in Slots : state'[q] = "RUNNING" => q = current'
      PROVE  OnlyOneRuns'
  BY <1>3, <1>6 DEF OnlyOneRuns
\* Steps that only move the context on.
<1>7. ASSUME UNCHANGED <<state, queue, looped, current, next>>, pc'[c] \in InSchedule,
             pc[c] \notin {"wakeq", "putback", "dispatch"}, pc'[c] \notin {"wakeq", "putback", "dispatch"}
      PROVE  Listed' /\ HandsSound' /\ CurrentLive' /\ NewApart'
  <2>1. \A d \in Contexts, q \in Slots : Hand(d, q)' <=> Hand(d, q)
    BY <1>1, <1>2, <1>4, <1>7 DEF Hand, InCreate, InSchedule
  <2>2. Listed' /\ HandsSound'
    BY <1>1, <1>7, <2>1, ListedUnchanged
  <2>3. CurrentLive' /\ NewApart'
    BY <1>1, <1>2, <1>7 DEF Sound, CurrentLive, NewApart, InCreate, InSchedule, Contexts
  <2> QED BY <2>2, <2>3
<1>8. CASE NotDue(c) \/ WakeDone(c)
  <2>1. /\ UNCHANGED <<state, queue, looped, current, next>> /\ pc[c] = "wake"
        /\ pc'[c] \in {"wake", "requeue"}
    BY <1>8 DEF NotDue, WakeDone, WakeNext, TypeOK
  <2>2. StillSo(c)' /\ OnlyOneRuns'
    BY <1>5, <1>6, <2>1 DEF StillSo, Choosing
  <2>3. \A d \in Contexts : StillSo(d)'
    BY <1>3, <2>2
  <2> QED BY <1>7, <2>1, <2>2, <2>3 DEF Sound, InSchedule
<1>9. CASE FindDue(c)
  <2>1. /\ UNCHANGED <<state, queue, looped, current, idx, next>> /\ pc[c] = "wake"
        /\ pc'[c] = "awake" /\ state[idx[c]] = "SLEEPING"
    BY <1>9 DEF FindDue, Due, TypeOK
  <2>2. StillSo(c)' /\ OnlyOneRuns'
    BY <1>5, <1>6, <2>1 DEF StillSo, Choosing
  <2>3. \A d \in Contexts : StillSo(d)'
    BY <1>3, <2>2
  <2> QED BY <1>7, <2>1, <2>2, <2>3 DEF Sound, InSchedule
<1>10. CASE Wake(c)
  <2> DEFINE p == idx[c]
  <2>1. /\ p \in Slots /\ pc[c] = "awake" /\ state[p] = "SLEEPING"
        /\ state' = [state EXCEPT ![p] = "RUNNABLE"] /\ pc'[c] = "wakeq"
        /\ UNCHANGED <<queue, looped, current, idx, held, next>>
    BY <1>1, <1>10, NPROCAssumption DEF Wake, StillSo, TypeOK, Slots
  <2>2. \A d \in Contexts, q \in Slots : Hand(d, q)' <=> Hand(d, q) \/ (d = c /\ q = p)
    BY <1>1, <1>4, <2>1 DEF Hand
  <2>3. Listed' /\ HandsSound'
    BY <1>1, <2>1, <2>2, ToHand
  <2>4. \A q \in Slots : state'[q] = IF q = p THEN "RUNNABLE" ELSE state[q]
    BY <2>1 DEF TypeOK
  <2>5. CurrentLive' /\ NewApart'
    BY <1>1, <1>2, <2>1, <2>4 DEF Sound, CurrentLive, NewApart, InCreate, TypeOK, Contexts
  <2>6. StillSo(c)' /\ OnlyOneRuns'
    BY <1>5, <1>6, <2>1, <2>4 DEF StillSo, Choosing
  <2>7. \A d \in Contexts : StillSo(d)'
    BY <1>3, <2>6
  <2> QED BY <2>3, <2>5, <2>6, <2>7 DEF Sound
<1>11. CASE QueueWoken(c)
  <2> DEFINE p == idx[c]
  <2>1. /\ p \in Slots /\ pc[c] = "wakeq" /\ Enqueue(p) /\ Hand(c, p)
        /\ UNCHANGED <<state, current, held, next>>
    BY <1>11, NPROCAssumption DEF QueueWoken, EnqueueThen, Hand, TypeOK, Slots
  <2>2. pc' = [pc EXCEPT ![c] = IF WalkEnds(p) THEN "wake" ELSE "hung"]
    BY <1>11 DEF QueueWoken, EnqueueThen
  <2>3. pc'[c] \in {"wake", "hung"}
    BY <2>2 DEF TypeOK
  <2>4. \A d \in Contexts, q \in Slots : Hand(d, q)' <=> Hand(d, q) /\ ~(d = c /\ q = p)
    BY <1>1, <1>4, <2>1, <2>3 DEF Hand
  <2>5. Listed' /\ HandsSound' /\ WalkEnds(p)
    BY <1>1, <2>1, <2>4, HandToQueue
  <2>6. pc'[c] = "wake"
    BY <2>2, <2>5 DEF TypeOK
  <2>7. CurrentLive' /\ NewApart'
    BY <1>1, <1>2, <2>1, <2>6 DEF Sound, CurrentLive, NewApart, InCreate, Contexts
  <2>8. StillSo(c)' /\ OnlyOneRuns'
    BY <1>5, <1>6, <2>1, <2>6 DEF StillSo, Choosing
  <2>9. \A d \in Contexts : StillSo(d)'
    BY <1>3, <2>8
  <2> QED BY <2>5, <2>7, <2>8, <2>9 DEF Sound
<1>12. CASE Requeue(c)
  <2>1. /\ UNCHANGED <<state, queue, looped, current, next>> /\ pc[c] = "requeue"
        /\ pc'[c] = "unrun" /\ held'[c] = current /\ state[current] = "RUNNING"
    BY <1>12 DEF Requeue, Runs, TypeOK
  <2>2. StillSo(c)' /\ OnlyOneRuns'
    BY <1>5, <1>6, <2>1 DEF StillSo, Choosing
  <2>3. \A d \in Contexts : StillSo(d)'
    BY <1>3, <2>2
  <2> QED BY <1>7, <2>1, <2>2, <2>3 DEF Sound, InSchedule
<1>13. CASE RequeueNot(c)
  <2>1. /\ UNCHANGED <<state, queue, looped, current, next>> /\ pc[c] = "requeue"
        /\ pc'[c] = "pick" /\ ~(current # NULL /\ state[current] = "RUNNING")
    BY <1>13 DEF RequeueNot, Runs, TypeOK
  <2>2. \A q \in Slots : state'[q] # "RUNNING"
    BY <1>5, <2>1 DEF Slots, NULL
  <2>3. StillSo(c)' /\ OnlyOneRuns'
    BY <1>6, <2>1, <2>2 DEF StillSo
  <2>4. \A d \in Contexts : StillSo(d)'
    BY <1>3, <2>3
  <2> QED BY <1>7, <2>1, <2>3, <2>4 DEF Sound, InSchedule
<1>14. CASE Unrun(c)
  <2>1. /\ pc[c] = "unrun" /\ held[c] = current /\ current \in Slots /\ state[current] = "RUNNING"
        /\ pc'[c] = "putback" /\ UNCHANGED <<queue, looped, current, idx, held, next>>
    BY <1>1, <1>14 DEF Unrun, StillSo, TypeOK
  <2>2. Reload(c) = {current}
    BY <2>1 DEF Reload
  <2>3. state' = [state EXCEPT ![current] = "RUNNABLE"]
    BY <1>14, <2>2 DEF Unrun
  <2>4. \A d \in Contexts, q \in Slots : Hand(d, q)' <=> Hand(d, q) \/ (d = c /\ q = current)
    <3>1. \A q \in Slots : ~Hand(c, q) /\ (Hand(c, q)' <=> q = current)
      BY <2>1 DEF Hand
    <3> QED BY <1>4, <3>1
  <2>5. Listed' /\ HandsSound'
    BY <1>1, <2>1, <2>3, <2>4, ToHand
  <2>6. \A q \in Slots : state'[q] = IF q = current THEN "RUNNABLE" ELSE state[q]
    BY <2>3 DEF TypeOK
  <2>7. CurrentLive' /\ NewApart'
    BY <1>1, <1>2, <2>1, <2>6 DEF Sound, CurrentLive, NewApart, InCreate, TypeOK, Contexts
  <2>8. StillSo(c)' /\ OnlyOneRuns'
    BY <1>5, <1>6, <2>1, <2>6 DEF StillSo, Choosing
  <2>9. \A d \in Contexts : StillSo(d)'
    BY <1>3, <2>8
  <2> QED BY <2>5, <2>7, <2>8, <2>9 DEF Sound
<1>15. CASE PutBack(c)
  <2>1. pc[c] = "putback" /\ held[c] = current /\ current \in Slots /\ Hand(c, current)
    BY <1>1, <1>15 DEF PutBack, StillSo, TypeOK, Hand
  <2>2. Reload(c) = {current}
    BY <2>1 DEF Reload
  <2>3. /\ Enqueue(current)
        /\ pc' = [pc EXCEPT ![c] = IF WalkEnds(current) THEN "pick" ELSE "hung"]
        /\ UNCHANGED <<state, current, idx, next>>
    BY <1>15, <2>2 DEF PutBack, EnqueueThen
  <2>4. pc'[c] \in {"pick", "hung"}
    BY <2>3 DEF TypeOK
  <2>5. \A d \in Contexts, q \in Slots : Hand(d, q)' <=> Hand(d, q) /\ ~(d = c /\ q = current)
    BY <1>1, <1>4, <2>1, <2>4 DEF Hand
  <2>6. Listed' /\ HandsSound' /\ WalkEnds(current)
    BY <1>1, <2>1, <2>3, <2>5, HandToQueue
  <2>7. pc'[c] = "pick"
    BY <2>3, <2>6 DEF TypeOK
  <2>8. CurrentLive' /\ NewApart'
    BY <1>1, <1>2, <2>3, <2>7 DEF Sound, CurrentLive, NewApart, InCreate, Contexts
  <2>9. \A q \in Slots : state'[q] # "RUNNING"
    BY <1>5, <2>1, <2>3 DEF Choosing
  <2>10. StillSo(c)' /\ OnlyOneRuns'
    BY <1>6, <2>7, <2>9 DEF StillSo
  <2>11. \A d \in Contexts : StillSo(d)'
    BY <1>3, <2>10
  <2> QED BY <2>6, <2>8, <2>10, <2>11 DEF Sound
<1>16. CASE Pick(c)
  <2>1. /\ pc[c] \in {"pick", "idle"} /\ queue # <<>> /\ Dequeue
        /\ pc'[c] = "dispatch" /\ next'[c] = Head(queue)
        /\ UNCHANGED <<state, current, idx, held>>
    BY <1>16 DEF Pick, TypeOK
  <2>2. \A d \in Contexts, q \in Slots : Hand(d, q)' <=> Hand(d, q) \/ (d = c /\ q = Head(queue))
    BY <1>1, <1>4, <2>1 DEF Hand
  <2>3. Listed' /\ HandsSound'
    BY <1>1, <2>1, <2>2, QueueToHand
  <2>4. CurrentLive' /\ NewApart'
    BY <1>1, <1>2, <2>1 DEF Sound, CurrentLive, NewApart, InCreate, Contexts
  <2>5. \A q \in Slots : state'[q] # "RUNNING"
    BY <1>5, <2>1 DEF Choosing
  <2>6. StillSo(c)' /\ OnlyOneRuns'
    BY <1>6, <2>1, <2>5 DEF StillSo
  <2>7. \A d \in Contexts : StillSo(d)'
    BY <1>3, <2>6
  <2> QED BY <2>3, <2>4, <2>6, <2>7 DEF Sound
<1>17. CASE PickNone(c) \/ Idle(c)
  <2>1. /\ UNCHANGED <<state, queue, looped, current, next>> /\ pc[c] \in {"pick", "keep"}
        /\ pc'[c] \in {"keep", "idle"} /\ (pc'[c] = "keep" => queue = <<>>)
    BY <1>17 DEF PickNone, Idle, TypeOK
  <2>2. \A q \in Slots : state'[q] # "RUNNING"
    BY <1>5, <2>1 DEF Choosing
  <2>3. StillSo(c)' /\ OnlyOneRuns'
    BY <1>6, <2>1, <2>2 DEF StillSo
  <2>4. \A d \in Contexts : StillSo(d)'
    BY <1>3, <2>3
  <2> QED BY <1>7, <2>1, <2>3, <2>4 DEF Sound, InSchedule
\* No process is RUNNABLE and current with an empty list.
<1>18. CASE Keep(c)
  <2>1. pc[c] = "keep" /\ current \in Slots /\ state[current] = "RUNNABLE" /\ queue = <<>>
    BY <1>1, <1>18 DEF Keep, StillSo, TypeOK
  <2>2. ~InQueue(current)
    BY <2>1 DEF InQueue
  <2>3. PICK d \in Contexts : Hand(d, current)
    BY <1>1, <2>1, <2>2 DEF Listed
  <2>4. d # c
    BY <1>1, <2>1, <2>3 DEF Hand
  <2> QED BY <1>4, <2>1, <2>3, <2>4 DEF Sound, NewApart
<1>19. CASE Rerun(c)
  BY <1>1, <1>19 DEF Rerun, StillSo
<1>20. CASE Dispatch(c)
  <2> DEFINE n == next[c]
  <2>1. /\ pc[c] = "dispatch" /\ n \in Slots /\ Hand(c, n)
        /\ state' = [state EXCEPT ![n] = "RUNNING"] /\ pc'[c] = "setcurrent"
        /\ UNCHANGED <<queue, looped, current, idx, held, next>>
    BY <1>20 DEF Dispatch, TypeOK, Hand
  <2>2. \A d \in Contexts, q \in Slots : Hand(d, q)' <=> Hand(d, q) /\ ~(d = c /\ q = n)
    BY <1>1, <1>4, <2>1 DEF Hand
  <2>3. Listed' /\ HandsSound'
    BY <1>1, <2>1, <2>2, OutOfHand
  <2>4. \A q \in Slots : state'[q] = IF q = n THEN "RUNNING" ELSE state[q]
    BY <2>1 DEF TypeOK
  <2>5. CurrentLive'
    BY <1>1, <1>2, <2>1, <2>4 DEF Sound, CurrentLive, InCreate, TypeOK, Contexts
  <2>6. NewApart'
    <3>1. state[n] = "RUNNABLE"
      BY <1>1, <2>1 DEF HandsSound
    <3> QED BY <1>1, <1>2, <2>1, <2>4, <3>1 DEF Sound, NewApart, TypeOK, Contexts, InCreate
  <2>7. StillSo(c)'
    BY <2>1, <2>4 DEF StillSo
  <2>8. OnlyOneRuns'
    BY <1>5, <2>1, <2>4 DEF OnlyOneRuns, Choosing
  <2>9. \A d \in Contexts : StillSo(d)'
    BY <1>3, <2>7
  <2> QED BY <2>3, <2>5, <2>6, <2>8, <2>9 DEF Sound
<1>21. CASE SetCurrent(c)
  <2>1. /\ pc[c] = "setcurrent" /\ next[c] \in Slots /\ state[next[c]] = "RUNNING"
        /\ current' = next[c] /\ pc'[c] = "off"
        /\ UNCHANGED <<state, queue, looped, idx, held>>
    BY <1>1, <1>21 DEF SetCurrent, StillSo, TypeOK
  <2>2. \A d \in Contexts, q \in Slots : Hand(d, q)' <=> Hand(d, q)
    BY <1>1, <1>4, <2>1 DEF Hand
  <2>3. Listed' /\ HandsSound'
    BY <1>1, <2>1, <2>2, ListedUnchanged
  <2>4. CurrentLive'
    BY <2>1 DEF CurrentLive
  <2>5. NewApart'
    <3>1. pc["thread"] = "kstack" => Hand("thread", creating.slot) /\ creating.slot \in Slots
      BY DEF Hand, TypeOK, InCreate
    <3>2. pc["thread"] = "kstack" => state[creating.slot] = "RUNNABLE"
      BY <1>1, <3>1 DEF HandsSound, Contexts
    <3> QED BY <1>1, <1>2, <2>1, <3>2 DEF Sound, NewApart, Contexts, InCreate
  <2>6. StillSo(c)' /\ OnlyOneRuns'
    BY <1>5, <1>6, <2>1 DEF StillSo, Choosing
  <2>7. \A d \in Contexts : StillSo(d)'
    BY <1>3, <2>6
  <2> QED BY <2>3, <2>4, <2>5, <2>6, <2>7 DEF Sound
<1> QED
  BY <1>8, <1>9, <1>10, <1>11, <1>12, <1>13, <1>14, <1>15, <1>16, <1>17, <1>18, <1>19, <1>20, <1>21
  DEF Schedule

(* While undisturbed, every step keeps the scheduler's state sound. *)
LEMMA SoundStep ==
    ASSUME TypeOK, NestingSeen, Undisturbed => Sound, [Next]_vars, Undisturbed'
    PROVE  Sound'
<1> USE DEF Undisturbed
<1>1. CASE Create \/ \E user \in BOOLEAN : ProcCreate(user)
  <2>1. UserStackFails => aborted' # {}
    <3>1. UserStackFails => creating.slot \in aborted'
      BY DEF UserStackFails
    <3> QED BY <3>1
  <2>2. ~UserStackFails => aborted' = aborted /\ reentered' = reentered
    BY <1>1 DEF Create, ProcCreate, Mark, KernelStackFails, QueueNew, UserStackAllocated, history
  <2>3. Undisturbed /\ ~UserStackFails
    BY <2>1, <2>2
  <2> QED BY <1>1, <2>3, CreateSound
<1>2. CASE Yield \/ FallAsleep \/ Tick \/ \E ms \in 0 .. MaxSleep : Sleep(ms)
  <2>1. Tick => aborted' = aborted /\ ~reentered /\ pc["thread"] \notin Harmful
    BY DEF Tick
  <2>2. ~Tick => aborted' = aborted /\ reentered' = reentered
    BY <1>2 DEF Yield, FallAsleep, Sleep, history
  <2>3. Undisturbed /\ (Tick => pc["thread"] \notin Harmful)
    BY <2>1, <2>2
  <2> QED BY <1>2, <2>3, EntrySound
<1>3. ASSUME NEW c \in Contexts, Schedule(c)
      PROVE  Sound'
  BY <1>3, ScheduleFrame, ScheduleSound
<1>4. CASE UNCHANGED vars
  BY <1>4 DEF vars, proc, history, Sound, Listed, ListSound, InQueue, HandsSound, Hand, StillSo,
              NewApart, CurrentLive, OnlyOneRuns, Choosing
<1> QED BY <1>1, <1>2, <1>3, <1>4 DEF Next

-----------------------------------------------------------------------------
(* The invariant holds in every reachable state. *)
THEOREM Invariance == Spec => []IInv
<1>1. IInv /\ [Next]_vars => IInv'
  BY TypeStep, CountedStep, NestingStep, SoundStep DEF IInv
<1> QED BY InitIInv, <1>1, PTL DEF Spec

(* Types: no step of the scheduler leaves its variables' types, for every    *)
(* size of the process table.                                               *)
THEOREM TypeCorrect == Spec => []TypeOK
<1>1. IInv => TypeOK
  BY DEF IInv
<1> QED BY Invariance, <1>1, PTL

(* The ready list and the RUNNABLE processes agree, whatever interrupts come *)
(* in proc_create, in the wake loop, after sleep() set the state and before  *)
(* the test of line 118 (kernel/sched.c), for any number of processes.       *)
THEOREM QueueCorrect == Spec => []QueueIsRunnable
<1>1. IInv => QueueIsRunnable
  BY ListedIsSound DEF IInv, Sound, QueueIsRunnable
<1> QED BY Invariance, <1>1, PTL

(* No RUNNING process but `current` or the one being made current, with      *)
(* interrupts at the same places.                                            *)
THEOREM OneRunningCorrect == Spec => []OneRunning
<1>1. IInv => OneRunning
  BY DEF IInv, Sound, OneRunning, OnlyOneRuns
<1> QED BY Invariance, <1>1, PTL


(* The process monitor's listing reaches every live process.                *)
THEOREM MonitorCorrect == Spec => []MonitorCoversLive
<1>1. IInv => MonitorCoversLive
  BY DEF IInv, Counted, Seen, Created, MonitorCoversLive
<1> QED BY Invariance, <1>1, PTL
-----------------------------------------------------------------------------
(* Round robin. *)

(* No process is twice in the list, looped or not: what Dequeue takes is not *)
(* in the list any more.                                                     *)
NoneTwice == \A j, k \in 1 .. Len(queue) : queue[j] = queue[k] => j = k

(* How any step changes the list. *)
ListStep ==
    \/ UNCHANGED queue
    \/ \E p \in Slots : Enqueue(p)
    \/ queue # <<>> /\ Dequeue

(* Only enqueue and dequeue change the list (kernel/sched.c).               *)
LEMMA NextListStep == TypeOK /\ [Next]_vars => ListStep
<1> SUFFICES ASSUME TypeOK, [Next]_vars
             PROVE  ListStep
  OBVIOUS
<1>1. CASE Create
  <2>1. CASE QueueNew
    BY <2>1 DEF QueueNew, EnqueueThen, At, InCreate, TypeOK, ListStep
  <2>2. CASE Mark \/ KernelStackFails \/ UserStackAllocated \/ UserStackFails
    BY <2>2 DEF Mark, KernelStackFails, UserStackAllocated, UserStackFails, proc, ListStep
  <2> QED BY <1>1, <2>1, <2>2 DEF Create
<1>2. CASE \/ \E user \in BOOLEAN : ProcCreate(user)
           \/ Yield \/ FallAsleep \/ Tick
           \/ \E ms \in 0 .. MaxSleep : Sleep(ms)
           \/ UNCHANGED vars
  BY <1>2 DEF ProcCreate, Yield, FallAsleep, Tick, Sleep, vars, proc, ListStep
<1>3. ASSUME NEW c \in Contexts, Schedule(c)
      PROVE  ListStep
  <2>1. CASE QueueWoken(c)
    <3>1. idx[c] \in Slots
      BY <2>1, NPROCAssumption DEF QueueWoken, At, TypeOK, Slots
    <3> QED BY <2>1, <3>1 DEF QueueWoken, EnqueueThen, ListStep
  <2>2. CASE PutBack(c)
    <3>1. Reload(c) \subseteq Slots
      BY <2>2 DEF PutBack, At, Reload, TypeOK
    <3> QED BY <2>2, <3>1 DEF PutBack, EnqueueThen, ListStep
  <2>3. CASE Pick(c)
    BY <2>3 DEF Pick, ListStep
  <2>4. CASE \/ NotDue(c) \/ FindDue(c) \/ Wake(c) \/ WakeDone(c) \/ Requeue(c) \/ RequeueNot(c)
             \/ Unrun(c) \/ PickNone(c) \/ Keep(c) \/ Idle(c) \/ Rerun(c) \/ Dispatch(c)
             \/ SetCurrent(c)
    BY <2>4 DEF NotDue, FindDue, Wake, WakeDone, Requeue, RequeueNot, Unrun, PickNone,
                Keep, Idle, Rerun, Dispatch, SetCurrent, proc, ListStep
  <2> QED BY <1>3, <2>1, <2>2, <2>3, <2>4 DEF Schedule
<1> QED BY <1>1, <1>2, <1>3 DEF Next

(* What a process that is in the list may see of a step: its place or one    *)
(* nearer to the head.                                                       *)
NeverBack ==
    \A p \in Slots :
      \A k \in 1 .. Len(queue) :
        queue[k] = p /\ InQueue(p)' => \E j \in 1 .. k : j <= Len(queue') /\ queue'[j] = p

(* enqueue and dequeue keep the list without repetition and move nobody back. *)
LEMMA ListStepOrder ==
    ASSUME queue \in Seq(Slots), looped \in BOOLEAN, NoneTwice, ListStep
    PROVE  NoneTwice' /\ NeverBack
<1>1. CASE UNCHANGED queue
  BY <1>1 DEF NoneTwice, NeverBack, InQueue
<1>2. ASSUME NEW p \in Slots, Enqueue(p)
      PROVE  NoneTwice' /\ NeverBack
  <2>1. CASE InQueue(p)
    <3> DEFINE m == CHOOSE j \in 1 .. Len(queue) : queue[j] = p
    <3>1. m \in 1 .. Len(queue)
      BY <2>1 DEF InQueue
    <3>2. queue' = SubSeq(queue, 1, m)
      BY <1>2, <2>1 DEF Enqueue, QueueUpTo
    <3> HIDE DEF m
    <3>3. Len(queue') = m /\ \A j \in 1 .. m : queue'[j] = queue[j]
      BY <3>1, <3>2
    <3>4. NoneTwice'
      BY <3>1, <3>3 DEF NoneTwice
    <3>5. ASSUME NEW q \in Slots, NEW k \in 1 .. Len(queue), queue[k] = q, InQueue(q)'
          PROVE  \E j \in 1 .. k : j <= Len(queue') /\ queue'[j] = q
      <4>1. PICK j \in 1 .. m : queue[j] = q
        BY <3>3, <3>5 DEF InQueue
      <4>2. j = k
        BY <3>1, <3>5, <4>1 DEF NoneTwice
      <4> QED BY <3>3, <3>5, <4>1, <4>2
    <3> QED BY <3>4, <3>5 DEF NeverBack
  <2>2. CASE ~InQueue(p)
    <3>1. queue' = queue \/ queue' = Append(queue, p)
      BY <1>2, <2>2 DEF Enqueue
    <3>2. CASE queue' = queue
      BY <3>2 DEF NoneTwice, NeverBack, InQueue
    <3>3. CASE queue' = Append(queue, p)
      <4>1. /\ Len(queue') = Len(queue) + 1 /\ queue'[Len(queue) + 1] = p
            /\ \A j \in 1 .. Len(queue) : queue'[j] = queue[j] /\ queue[j] # p
        BY <2>2, <3>3 DEF InQueue
      <4>2. Len(queue) \in Nat
        OBVIOUS
      <4>3. NoneTwice'
        BY <4>1, <4>2 DEF NoneTwice
      <4>4. NeverBack
        BY <4>1, <4>2 DEF NeverBack
      <4> QED BY <4>3, <4>4
    <3> QED BY <3>1, <3>2, <3>3
  <2> QED BY <2>1, <2>2
<1>3. ASSUME queue # <<>>, Dequeue
      PROVE  NoneTwice' /\ NeverBack
  <2>1. queue' = queue \/ queue' = Tail(queue)
    BY <1>3 DEF Dequeue
  <2>2. CASE queue' = queue
    BY <2>2 DEF NoneTwice, NeverBack, InQueue
  <2>3. CASE queue' = Tail(queue)
    <3>1. /\ Len(queue) \in Nat /\ Len(queue) > 0 /\ Len(queue') = Len(queue) - 1
          /\ \A j \in 1 .. Len(queue') : queue'[j] = queue[j + 1]
      BY <1>3, <2>3
    <3>2. NoneTwice'
      BY <3>1 DEF NoneTwice
    <3>3. ASSUME NEW q \in Slots, NEW k \in 1 .. Len(queue), queue[k] = q, InQueue(q)'
          PROVE  \E j \in 1 .. k : j <= Len(queue') /\ queue'[j] = q
      <4>1. PICK j \in 1 .. Len(queue') : queue'[j] = q
        BY <3>3 DEF InQueue
      <4>2. j + 1 = k
        BY <3>1, <3>3, <4>1 DEF NoneTwice
      <4>3. j \in 1 .. k /\ j <= Len(queue')
        BY <3>1, <4>1, <4>2
      <4> QED BY <4>1, <4>3
    <3> QED BY <3>2, <3>3 DEF NeverBack
  <2> QED BY <2>1, <2>2, <2>3
<1> QED BY <1>1, <1>2, <1>3 DEF ListStep

(* Round robin: a process that stays in the ready list never moves back,     *)
(* disturbed or not.                                                         *)
THEOREM RoundRobin == Spec => NoOvertaking
<1>1. Init => NoneTwice
  BY DEF Init, NoneTwice
<1>2. TypeOK /\ NoneTwice /\ [Next]_vars => NoneTwice' /\ NeverBack
  BY NextListStep, ListStepOrder DEF TypeOK
<1>3. TypeOK /\ NoneTwice /\ [Next]_vars
        => [\A p \in Slots :
             \A k \in 1 .. Len(queue) :
               queue[k] = p /\ InQueue(p)' => \E j \in 1 .. k : j <= Len(queue') /\ queue'[j] = p]_vars
  BY <1>2 DEF NeverBack
<1> QED BY <1>1, <1>2, <1>3, TypeCorrect, PTL DEF Spec, NoOvertaking
=============================================================================
