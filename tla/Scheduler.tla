------------------------------ MODULE Scheduler ------------------------------
(***************************************************************************)
(* kernel/sched.c, with the callers that change its state: irq_handle      *)
(* (kernel/trap.c), syscall sleep (kernel/syscall.c) and user_proc_create  *)
(* (kernel/user.c).                                                        *)
(*                                                                         *)
(* One CPU.  schedule(), sleep() and proc_create() take no lock and mask   *)
(* nothing, so a timer interrupt may run a second schedule() between any   *)
(* two statements of theirs: there are two contexts, "thread" and "irq",   *)
(* each with its own position, one position for every statement that reads *)
(* or writes what the other context uses, and the thread only moves while  *)
(* the irq context is off.  Only enqueue and dequeue are one step each: an *)
(* interrupt in the middle of their few instructions is not modelled.      *)
(*                                                                         *)
(* `current` is not volatile: between two statements the compiler may keep *)
(* the pointer it loaded or load it again, so a later use takes either.    *)
(*                                                                         *)
(* The list threaded through proc_t.next is the sequence `queue`.  enqueue *)
(* of a process that is in the list already cuts the list behind it and    *)
(* then links the process to itself; no other shape is reachable, so the   *)
(* sequence and the flag `looped` (the last element's next is itself)      *)
(* represent the list exactly.                                             *)
(*                                                                         *)
(* jiffies only matters through sleep_until - jiffies, kept as `wait`.     *)
(***************************************************************************)
EXTENDS Integers, Sequences

CONSTANTS
    NPROC,        \* slots of proc_table
    MaxSleep,     \* bound: longest sleep asked for, in ticks
    MaxCreate     \* bound: proc_create calls that find a slot

ASSUME NPROCAssumption == NPROC \in Nat \ {0}
ASSUME SleepAssumption == MaxSleep \in Nat
ASSUME CreateAssumption == MaxCreate \in Nat

VARIABLES
    state,        \* proc_t.state of each slot
    queue,        \* ready_queue, head first
    looped,       \* the last element of the list points to itself
    current,      \* the process the CPU is accounted to
    wait,         \* ticks until sleep_until, of the sleeping slots
    procCount,    \* proc_count
    pc,           \* the statement each context has to execute next
    idx,          \* schedule()'s loop variable i
    held,         \* the value of `current` a context has loaded
    next,         \* schedule()'s local `next`
    creating,     \* proc_create's local p, with the use made of it by its caller
    aborted,      \* history: slots user_proc_create gave up after queueing
    reentered     \* history: an interrupt came at one of the harmful places

proc == <<state, queue, looped, current, wait, procCount>>
history == <<aborted, reentered>>
vars == <<proc, pc, idx, held, next, creating, history>>

Slots == 0 .. NPROC - 1
NULL == -1
Contexts == {"thread", "irq"}
ProcStates == {"UNUSED", "RUNNABLE", "RUNNING", "SLEEPING"}

(* Positions, each before the line of kernel/sched.c it is named for.        *)
InCreate == {"mark",      \* 53
             "kstack",    \* 60
             "ustack"}    \* kernel/user.c:106
InSchedule == {"wake",        \* 109
               "awake",       \* 112
               "wakeq",       \* 113
               "requeue",     \* 118
               "unrun",       \* 119
               "putback",     \* 120
               "pick",        \* 124
               "keep",        \* 127
               "rerun",       \* 128
               "idle",        \* 132
               "dispatch",    \* 136
               "setcurrent"}  \* 137
Places == {"off", "hung", "sleeping"} \cup InCreate \cup InSchedule

(* Where an interrupted thread leaves something half done that the nested    *)
(* schedule() takes for done: a pointer or a test that the interrupt makes   *)
(* stale (before lines 101, 112, 119 and 127), a process that is in no list  *)
(* (113, 120 and 136), or no current process that runs (124, 132 and 137).   *)
(* An interrupt at any other place is harmless.                              *)
Harmful == {"sleeping", "awake", "wakeq", "unrun", "putback", "pick", "keep",
            "idle", "dispatch", "setcurrent"}

-----------------------------------------------------------------------------
(* The ready list. *)

InQueue(p) == \E k \in 1 .. Len(queue) : queue[k] = p

QueueUpTo(p) == LET k == CHOOSE j \in 1 .. Len(queue) : queue[j] = p
                IN  SubSeq(queue, 1, k)

\* The walk to the tail never ends on a list that loops behind p's position.
WalkEnds(p) == InQueue(p) \/ ~looped

\* Mutant: a new process goes to the head of the list.
EnqueueAtHead(p) == queue' = <<p>> \o queue /\ looped' = looped

Enqueue(p) ==
    IF InQueue(p)
      THEN /\ queue' = QueueUpTo(p)
           /\ looped' = TRUE
      ELSE /\ queue' = IF looped THEN queue ELSE Append(queue, p)
           /\ looped' = looped

\* A self-linked head is returned and stays the head; its next is cleared.
Dequeue ==
    LET alone == Len(queue) = 1 IN
    /\ queue' = IF looped /\ alone THEN queue ELSE Tail(queue)
    /\ looped' = (looped /\ ~alone)

-----------------------------------------------------------------------------
Nobody == [slot |-> NULL, user |-> FALSE]

Init ==
    /\ state = [p \in Slots |-> "UNUSED"]
    /\ queue = <<>>
    /\ looped = FALSE
    /\ current = NULL
    /\ wait = [p \in Slots |-> 0]
    /\ procCount = 0
    /\ pc = [c \in Contexts |-> "off"]
    /\ idx = [c \in Contexts |-> 0]
    /\ held = [c \in Contexts |-> NULL]
    /\ next = [c \in Contexts |-> NULL]
    /\ creating = Nobody
    /\ aborted = {}
    /\ reentered = FALSE

\* The interrupt context preempts the thread context.
At(c, place) == pc[c] = place /\ (c = "irq" \/ pc["irq"] = "off")

Go(c, place) == pc' = [pc EXCEPT ![c] = place]

\* One more use of `current`: the value loaded before or the one it has now.
Reload(c) == {held[c], current}

\* The walk of enqueue(p) ends, or it does not.
EnqueueThen(c, p, place) == Enqueue(p) /\ Go(c, IF WalkEnds(p) THEN place ELSE "hung")

-----------------------------------------------------------------------------
(* proc_create, and user_proc_create around it. *)

\* Mutant: the search for a free slot starts anywhere.
AnyUnused(i) == state[i] = "UNUSED"

FirstUnused(i) == state[i] = "UNUSED" /\ \A j \in 0 .. i - 1 : state[j] # "UNUSED"

ProcCreate(user) ==
    /\ At("thread", "off") /\ procCount < MaxCreate
    /\ \E i \in Slots : FirstUnused(i) /\ creating' = [slot |-> i, user |-> user]
    /\ Go("thread", "mark")
    /\ UNCHANGED <<proc, idx, held, next, history>>

\* From here on the process is RUNNABLE and in no list.
Mark ==
    /\ At("thread", "mark")
    /\ procCount' = procCount + 1
    /\ state' = [state EXCEPT ![creating.slot] = "RUNNABLE"]
    /\ Go("thread", "kstack")
    /\ UNCHANGED <<queue, looped, current, wait, idx, held, next, creating, history>>

\* No page for the kernel stack: the slot is given back, the count is not.
KernelStackFails ==
    /\ At("thread", "kstack")
    /\ state' = [state EXCEPT ![creating.slot] = "UNUSED"]
    /\ creating' = Nobody
    /\ Go("thread", "off")
    /\ UNCHANGED <<queue, looped, current, wait, procCount, idx, held, next, history>>

QueueNew ==
    /\ At("thread", "kstack")
    /\ EnqueueThen("thread", creating.slot, IF creating.user THEN "ustack" ELSE "off")
    /\ creating' = IF creating.user THEN creating ELSE Nobody
    /\ UNCHANGED <<state, current, wait, procCount, idx, held, next, history>>

UserStackAllocated ==
    /\ At("thread", "ustack")
    /\ creating' = Nobody
    /\ Go("thread", "off")
    /\ UNCHANGED <<proc, idx, held, next, history>>

\* No page for the user stack: the slot is freed and stays in the list.
UserStackFails ==
    /\ At("thread", "ustack")
    /\ state' = [state EXCEPT ![creating.slot] = "UNUSED"]
    /\ aborted' = aborted \cup {creating.slot}
    /\ creating' = Nobody
    /\ Go("thread", "off")
    /\ UNCHANGED <<queue, looped, current, wait, procCount, idx, held, next, reentered>>

Create == Mark \/ KernelStackFails \/ QueueNew \/ UserStackAllocated \/ UserStackFails

-----------------------------------------------------------------------------
(* Entering schedule(). *)

EnterSchedule(c) == Go(c, "wake") /\ idx' = [idx EXCEPT ![c] = 0]

Yield ==
    /\ At("thread", "off")
    /\ EnterSchedule("thread")
    /\ UNCHANGED <<proc, held, next, creating, history>>

\* sleep() sets the deadline of the current process,
Sleep(ms) ==
    /\ At("thread", "off")
    /\ current # NULL
    /\ wait' = [wait EXCEPT ![current] = ms]
    /\ held' = [held EXCEPT !["thread"] = current]
    /\ Go("thread", "sleeping")
    /\ UNCHANGED <<state, queue, looped, current, procCount, idx, next, creating, history>>

\* and then its state.
FallAsleep ==
    /\ At("thread", "sleeping")
    /\ \E p \in Reload("thread") : state' = [state EXCEPT ![p] = "SLEEPING"]
    /\ held' = [held EXCEPT !["thread"] = NULL]
    /\ EnterSchedule("thread")
    /\ UNCHANGED <<queue, looped, current, wait, procCount, next, creating, history>>

\* jiffies++ brings every deadline one tick nearer; then schedule().
Tick ==
    /\ pc["irq"] = "off"
    /\ wait' = [p \in Slots |-> IF wait[p] > 0 THEN wait[p] - 1 ELSE 0]
    /\ EnterSchedule("irq")
    /\ reentered' = (reentered \/ pc["thread"] \in Harmful)
    /\ UNCHANGED <<state, queue, looped, current, procCount, held, next, creating, aborted>>

-----------------------------------------------------------------------------
(* schedule(), statement by statement.                                        *)
(* The wake loop compares with the jiffies read before it.  A tick inside the *)
(* loop makes that value old, but the nested schedule() has then woken every  *)
(* sleeper that is due, so the loop finds none whichever value it compares    *)
(* with.                                                                      *)

Due(p) == state[p] = "SLEEPING" /\ wait[p] = 0

WakeNext(c) == Go(c, "wake") /\ idx' = [idx EXCEPT ![c] = @ + 1]

NotDue(c) ==
    /\ At(c, "wake") /\ idx[c] < NPROC /\ ~Due(idx[c])
    /\ WakeNext(c)
    /\ UNCHANGED <<proc, held, next, creating, history>>

FindDue(c) ==
    /\ At(c, "wake") /\ idx[c] < NPROC /\ Due(idx[c])
    /\ Go(c, "awake")
    /\ UNCHANGED <<proc, idx, held, next, creating, history>>

Wake(c) ==
    /\ At(c, "awake")
    /\ state' = [state EXCEPT ![idx[c]] = "RUNNABLE"]
    /\ Go(c, "wakeq")
    /\ UNCHANGED <<queue, looped, current, wait, procCount, idx, held, next, creating, history>>

QueueWoken(c) ==
    /\ At(c, "wakeq")
    /\ EnqueueThen(c, idx[c], "wake")
    /\ idx' = [idx EXCEPT ![c] = @ + 1]
    /\ UNCHANGED <<state, current, wait, procCount, held, next, creating, history>>

WakeDone(c) ==
    /\ At(c, "wake") /\ idx[c] = NPROC
    /\ Go(c, "requeue")
    /\ UNCHANGED <<proc, idx, held, next, creating, history>>

\* Mutant: the current process is put back whatever its state.
HasTurn(p) == p # NULL

\* Mutant: the current process is not put back.
NoTurn(p) == p # p

Runs(p) == p # NULL /\ state[p] = "RUNNING"

\* If current still running, put back.
Requeue(c) ==
    /\ At(c, "requeue") /\ Runs(current)
    /\ held' = [held EXCEPT ![c] = current]
    /\ Go(c, "unrun")
    /\ UNCHANGED <<proc, idx, next, creating, history>>

RequeueNot(c) ==
    /\ At(c, "requeue") /\ ~Runs(current)
    /\ Go(c, "pick")
    /\ UNCHANGED <<proc, idx, held, next, creating, history>>

Unrun(c) ==
    /\ At(c, "unrun")
    /\ \E p \in Reload(c) : state' = [state EXCEPT ![p] = "RUNNABLE"]
    /\ Go(c, "putback")
    /\ UNCHANGED <<queue, looped, current, wait, procCount, idx, held, next, creating, history>>

PutBack(c) ==
    /\ At(c, "putback")
    /\ \E p \in Reload(c) : EnqueueThen(c, p, "pick")
    /\ held' = [held EXCEPT ![c] = NULL]
    /\ UNCHANGED <<state, current, wait, procCount, idx, next, creating, history>>

\* Pick next, or go on from the idle loop.
Pick(c) ==
    /\ At(c, "pick") \/ At(c, "idle")
    /\ queue # <<>>
    /\ next' = [next EXCEPT ![c] = Head(queue)]
    /\ Dequeue
    /\ Go(c, "dispatch")
    /\ UNCHANGED <<state, current, wait, procCount, idx, held, creating, history>>

PickNone(c) ==
    /\ At(c, "pick") /\ queue = <<>>
    /\ Go(c, "keep")
    /\ UNCHANGED <<proc, idx, held, next, creating, history>>

\* No runnable - keep current
Keep(c) ==
    /\ At(c, "keep") /\ current # NULL /\ state[current] = "RUNNABLE"
    /\ held' = [held EXCEPT ![c] = current]
    /\ Go(c, "rerun")
    /\ UNCHANGED <<proc, idx, next, creating, history>>

\* or idle: while (!(next = dequeue())) wfi();
Idle(c) ==
    /\ At(c, "keep") /\ ~(current # NULL /\ state[current] = "RUNNABLE")
    /\ Go(c, "idle")
    /\ UNCHANGED <<proc, idx, held, next, creating, history>>

Rerun(c) ==
    /\ At(c, "rerun")
    /\ \E p \in Reload(c) : state' = [state EXCEPT ![p] = "RUNNING"]
    /\ held' = [held EXCEPT ![c] = NULL]
    /\ Go(c, "off")
    /\ UNCHANGED <<queue, looped, current, wait, procCount, idx, next, creating, history>>

Dispatch(c) ==
    /\ At(c, "dispatch")
    /\ state' = [state EXCEPT ![next[c]] = "RUNNING"]
    /\ Go(c, "setcurrent")
    /\ UNCHANGED <<queue, looped, current, wait, procCount, idx, held, next, creating, history>>

SetCurrent(c) ==
    /\ At(c, "setcurrent")
    /\ current' = next[c]
    /\ next' = [next EXCEPT ![c] = NULL]
    /\ Go(c, "off")
    /\ UNCHANGED <<state, queue, looped, wait, procCount, idx, held, creating, history>>

Schedule(c) ==
    \/ NotDue(c) \/ FindDue(c) \/ Wake(c) \/ QueueWoken(c) \/ WakeDone(c)
    \/ Requeue(c) \/ RequeueNot(c) \/ Unrun(c) \/ PutBack(c)
    \/ Pick(c) \/ PickNone(c) \/ Keep(c) \/ Idle(c) \/ Rerun(c)
    \/ Dispatch(c) \/ SetCurrent(c)

Next ==
    \/ \E user \in BOOLEAN : ProcCreate(user)
    \/ Create
    \/ Yield
    \/ \E ms \in 0 .. MaxSleep : Sleep(ms)
    \/ FallAsleep
    \/ Tick
    \/ \E c \in Contexts : Schedule(c)

(* The timer keeps ticking and a handler runs to its end.  The interrupted  *)
(* code resumes after each handler and gets on before the next tick, 10 ms  *)
(* later: it is enabled again and again, not continuously.                  *)
Fairness ==
    /\ WF_vars(Tick)
    /\ WF_vars(Schedule("irq"))
    /\ SF_vars(Schedule("thread") \/ FallAsleep \/ Create)

Spec == Init /\ [][Next]_vars
FairSpec == Spec /\ Fairness

-----------------------------------------------------------------------------
(* Type invariant: every variable has the type its declaration states, and  *)
(* a context that is about to use a local variable has set it.              *)
TypeOK ==
    /\ state \in [Slots -> ProcStates]
    /\ queue \in Seq(Slots)
    /\ looped \in BOOLEAN
    /\ current \in Slots \cup {NULL}
    /\ wait \in [Slots -> Nat]
    /\ procCount \in Nat
    /\ pc \in [Contexts -> Places]
    /\ idx \in [Contexts -> 0 .. NPROC]
    /\ held \in [Contexts -> Slots \cup {NULL}]
    /\ next \in [Contexts -> Slots \cup {NULL}]
    /\ creating \in [slot : Slots \cup {NULL}, user : BOOLEAN]
    /\ aborted \subseteq Slots
    /\ reentered \in BOOLEAN
    /\ pc["irq"] \notin InCreate \cup {"sleeping"}
    /\ pc["thread"] \in InCreate => creating.slot # NULL
    /\ \A c \in Contexts :
          /\ pc[c] \in {"dispatch", "setcurrent"} => next[c] # NULL
          /\ pc[c] \in {"sleeping", "unrun", "putback", "rerun"} => held[c] # NULL /\ current # NULL
          /\ pc[c] \in {"awake", "wakeq"} => idx[c] < NPROC

(* Nothing has gone wrong yet: no user_proc_create failed after its process *)
(* was queued, and no interrupt came at a harmful place.                    *)
Undisturbed == aborted = {} /\ ~reentered

\* p is RUNNABLE and some context is about to queue it or to run it.
InHand(p) ==
    \/ pc["thread"] = "kstack" /\ creating.slot = p
    \/ \E c \in Contexts :
          \/ pc[c] = "wakeq" /\ idx[c] = p
          \/ pc[c] = "putback" /\ held[c] = p
          \/ pc[c] = "dispatch" /\ next[c] = p

(* Interrupts before, after and between the steps of proc_create, in the    *)
(* wake loop between two processes, after sleep() marked its process and    *)
(* before the test of line 118 do no harm, however many come: as long as    *)
(* none came elsewhere, the ready list holds each process at most once, is  *)
(* not cyclic, and holds exactly the RUNNABLE processes that no context has *)
(* in hand.                                                                 *)
ListSound == ~looped /\ \A j, k \in 1 .. Len(queue) : queue[j] = queue[k] => j = k
QueuedIsRunnable == \A k \in 1 .. Len(queue) : state[queue[k]] = "RUNNABLE" /\ ~InHand(queue[k])
RunnableIsQueued == \A p \in Slots : state[p] = "RUNNABLE" => InQueue(p) \/ InHand(p)
QueueIsRunnable == Undisturbed => ListSound /\ QueuedIsRunnable /\ RunnableIsQueued

(* With interrupts at the same harmless places, no process but `current` is *)
(* RUNNING, and while the next one is being picked none is, or the one that *)
(* line 137 is about to make current: a RUNNING process that is not current *)
(* is never requeued, that is, lost.                                        *)
Choosing(c) == pc[c] \in {"putback", "pick", "keep", "rerun", "idle", "dispatch", "setcurrent"}
OneRunning ==
    Undisturbed =>
        \A p \in Slots : state[p] = "RUNNING" =>
            \/ p = current /\ \A c \in Contexts : ~Choosing(c)
            \/ \E c \in Contexts : pc[c] = "setcurrent" /\ next[c] = p

(* The monitor lists slots 0 .. proc_count - 1 (sysmon_show_processes):     *)
(* no live process is past the end of its listing, whatever creations fail. *)
MonitorCoversLive == \A p \in Slots : state[p] # "UNUSED" => p < procCount

(* Round robin: a process that stays in the ready list never moves back     *)
(* (disturbed or not).                                                      *)
NoOvertaking ==
    [][\A p \in Slots :
         \A k \in 1 .. Len(queue) :
            queue[k] = p /\ InQueue(p)' => \E j \in 1 .. k : j <= Len(queue') /\ queue'[j] = p]_vars

(* With interrupts at the harmless places only, every RUNNABLE process gets *)
(* to run, once proc_create has queued it: it may be given up before, and a *)
(* tick in proc_create that finds nothing else to run idles for ever in the *)
(* handler.                                                                 *)
RunnableRuns ==
    \A p \in Slots :
        state[p] = "RUNNABLE" /\ ~(pc["thread"] = "kstack" /\ creating.slot = p)
            ~> state[p] = "RUNNING" \/ ~Undisturbed

(* "Round-robin preemptive with sleep/yield": a sleeping process is woken.  *)
SleeperWakes == \A p \in Slots : state[p] = "SLEEPING" ~> state[p] # "SLEEPING"
=============================================================================
