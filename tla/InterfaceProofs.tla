--------------------------- MODULE InterfaceProofs ---------------------------
(***************************************************************************)
(* Proofs about what programs use and draw.  The parts of MCInterface      *)
(* share no state, so each has an invariant of its own; the text box and   *)
(* the editor are shown to implement TextLine.                             *)
(***************************************************************************)
EXTENDS MCInterface, WellFoundedInduction, FiniteSetTheorems, SequenceTheorems, TLAPS

-----------------------------------------------------------------------------
(* Numbers.                                                                *)

\* A set of natural numbers that is not empty has a least element, its Min.
LEMMA Least ==
  ASSUME NEW S \in SUBSET Nat, S # {}
  PROVE  Min(S) \in S /\ \A j \in S : Min(S) <= j
<1>1. PICK k \in S : \A j \in S : ~(<<j, k>> \in OpToRel(<, Nat))
  BY Zenon, NatLessThanWellFounded, WFMin
<1>2. \A j \in S : k <= j
  <2> TAKE j \in S
  <2>1. j \in Nat /\ k \in Nat /\ <<j, k>> \in Nat \X Nat
    OBVIOUS
  <2>2. ~(j < k)
    BY <1>1, <2>1 DEF OpToRel
  <2> QED BY <2>1, <2>2
<1> QED BY <1>2, Zenon DEF Min

-----------------------------------------------------------------------------
(* The timers of programs.                                                 *)

\* The slots are numbers from one, and a poll goes through them.
LEMMA SlotsAre ==
  /\ Slots \in SUBSET Nat /\ Idle \notin Slots
  /\ Min(Slots) \in Slots
  /\ \A i \in Slots : NextSlot(i) \in Slots \cup {Idle}
<1>1. PICK n \in Nat \ {0} : Slots = 1 .. n
  BY TimersAssumption, FS_CardinalityType, FS_EmptySet
<1>2. Slots \in SUBSET Nat /\ 0 \notin Slots /\ n \in Slots
  BY <1>1
<1>3. Min(Slots) \in Slots
  BY <1>2, Least
<1>4. Max(Slots) \in Slots /\ \A y \in Slots : y <= Max(Slots)
  <2>1. \A y \in Slots : n >= y
    BY <1>1
  <2>2. Max(Slots) \in Slots /\ \A y \in Slots : Max(Slots) >= y
    BY <1>2, <2>1, Zenon DEF Max
  <2> QED BY <2>2, <1>2
<1>5. ASSUME NEW i \in Slots
      PROVE  NextSlot(i) \in Slots \cup {Idle}
  <2>1. CASE i = Max(Slots)
    BY <2>1 DEF NextSlot
  <2>2. CASE i # Max(Slots)
    <3>1. i \in Nat /\ Max(Slots) \in 1 .. n /\ i <= n /\ i # n
      BY <1>1, <1>2, <1>4, <2>2
    <3>2. i + 1 \in Slots
      BY <1>1, <3>1
    <3> QED BY <2>2, <3>2 DEF NextSlot
  <2> QED BY <2>1, <2>2
<1> QED BY <1>2, <1>3, <1>5 DEF Idle

TimersTypes ==
  /\ timers \in [Slots -> [active : BOOLEAN, repeat : BOOLEAN, interval : Nat, next_tick : Nat]]
  /\ jiffies \in Nat
  /\ poll \in [at : Slots \cup {Idle}, now : Nat, calling : BOOLEAN]
  /\ armed \in [Slots -> Nat \cup {NotArmed}]
  /\ replaced \subseteq Slots
  /\ poll.now <= jiffies
  /\ poll.calling => poll.at \in Slots

\* Its user counts on a timer as TimersRing says.
Counted(i) == armed[i] # NotArmed =>
  IF i \in replaced /\ ~InHand(i)
  THEN timers[i].active = timers[i].repeat /\ timers[i].next_tick <= armed[i]
  ELSE timers[i].active /\ timers[i].next_tick = armed[i]

\* Whatever is active or replaced another, somebody counts on; and what replaced the
\* timer whose callback runs will not be moved to a later deadline.
Known(i) ==
  /\ timers[i].active \/ i \in replaced => armed[i] # NotArmed
  /\ i \in replaced /\ InHand(i) => poll.now + timers[i].interval <= timers[i].next_tick

TimersInv == /\ TimersTypes /\ late = {}
             /\ \A i \in Slots : Counted(i) /\ Known(i)

\* At the start no timer runs.
LEMMA TimersStart == TimersInit => TimersInv
<1> SUFFICES ASSUME TimersInit PROVE TimersInv
  OBVIOUS
<1>1. TimersTypes
  BY SlotsAre DEF TimersInit, TimersTypes, NotArmed, Idle
<1>2. \A i \in Slots : armed[i] = NotArmed /\ timers[i].active = FALSE
  BY DEF TimersInit
<1> QED BY <1>1, <1>2 DEF TimersInit, TimersInv, Counted, Known

\* A step that leaves a slot, what its user counts on and its callback as they are
\* leaves what is known of it.
LEMMA SlotKept ==
  ASSUME NEW j \in Slots, Counted(j), Known(j),
         timers'[j] = timers[j], armed'[j] = armed[j],
         j \in replaced' <=> j \in replaced,
         InHand(j)' <=> InHand(j), InHand(j) => poll'.now = poll.now
  PROVE  Counted(j)' /\ Known(j)'
BY DEF Counted, Known

\* No call, tick or callback breaks the invariant of the timers.
LEMMA TimersStep == TimersInv /\ TimersNext => TimersInv'
<1> SUFFICES ASSUME TimersInv, TimersNext PROVE TimersInv'
  OBVIOUS
<1> USE DEF TimersInv
<1>0. TimersTypes /\ late = {} /\ Slots \in SUBSET Nat /\ 0 \notin Slots /\ NotArmed \notin Nat
  BY SlotsAre DEF Idle, NotArmed
<1>1. ASSUME NEW n \in Intervals, NEW repeat \in BOOLEAN, AppTimerStart(n, repeat)
      PROVE  TimersInv'
  <2>1. n \in Nat /\ jiffies + n \in Nat
    BY <1>0, TimersAssumption DEF TimersTypes
  <2>2. Free \in SUBSET Nat /\ Free # {} /\ Free \subseteq Slots
    BY Zenon, <1>0, <1>1 DEF AppTimerStart, Free
  <2>3. PICK i \in Slots : i = Min(Free)
    BY Zenon, <2>2, Least
  <2> DEFINE new == [active |-> TRUE, repeat |-> repeat, interval |-> n, next_tick |-> jiffies + n]
  <2>4. /\ timers' = [timers EXCEPT ![i] = new]
        /\ armed' = [armed EXCEPT ![i] = jiffies + n]
        /\ replaced' = IF InHand(i) THEN replaced \cup {i} ELSE replaced \ {i}
        /\ jiffies' = jiffies /\ poll' = poll /\ late' = late
    BY <1>1, <2>3, Zenon DEF AppTimerStart
  <2>5. TimersTypes'
    BY <1>0, <2>1, <2>4 DEF TimersTypes
  <2>6. ASSUME NEW j \in Slots
        PROVE  Counted(j)' /\ Known(j)'
    <3>1. CASE j # i
      <4>1. /\ timers'[j] = timers[j] /\ armed'[j] = armed[j]
            /\ j \in replaced' <=> j \in replaced
        BY <1>0, <2>4, <3>1 DEF TimersTypes
      <4> QED BY <2>4, <4>1, SlotKept DEF InHand
    <3>2. CASE j = i
      <4>1. /\ timers'[j].active = TRUE /\ timers'[j].interval = n
            /\ timers'[j].next_tick = jiffies + n /\ armed'[j] = jiffies + n
        BY <1>0, <2>4, <3>2 DEF TimersTypes
      <4>2. j \in replaced' => InHand(j)'
        BY <2>4, <3>2 DEF InHand
      <4>3. poll.now + n <= jiffies + n
        BY <1>0, <2>1, TimersAssumption DEF TimersTypes
      <4>4. jiffies + n # NotArmed
        BY <1>0, <2>1
      <4> QED BY <2>4, <4>1, <4>2, <4>3, <4>4 DEF Counted, Known
    <3> QED BY <3>1, <3>2
  <2> QED BY <1>0, <2>4, <2>5, <2>6
<1>2. ASSUME NEW i \in Slots, AppTimerStop(i)
      PROVE  TimersInv'
  <2>1. /\ timers' = [timers EXCEPT ![i].active = FALSE]
        /\ armed' = [armed EXCEPT ![i] = NotArmed]
        /\ replaced' = replaced \ {i}
        /\ jiffies' = jiffies /\ poll' = poll /\ late' = late
    BY <1>2 DEF AppTimerStop
  <2>2. TimersTypes'
    BY Zenon, <1>0, <2>1 DEF TimersTypes
  <2>3. ASSUME NEW j \in Slots
        PROVE  Counted(j)' /\ Known(j)'
    <3>1. CASE j # i
      <4>1. /\ timers'[j] = timers[j] /\ armed'[j] = armed[j]
            /\ j \in replaced' <=> j \in replaced
        BY <1>0, <2>1, <3>1 DEF TimersTypes
      <4> QED BY <2>1, <4>1, SlotKept DEF InHand
    <3>2. CASE j = i
      <4>1. timers'[j].active = FALSE /\ armed'[j] = NotArmed /\ j \notin replaced'
        BY <1>0, <2>1, <3>2 DEF TimersTypes
      <4> QED BY <4>1 DEF Counted, Known
    <3> QED BY <3>1, <3>2
  <2> QED BY <1>0, <2>1, <2>2, <2>3
<1>3. ASSUME PollAll \/ PollSkip
      PROVE  TimersInv'
  <2>1. /\ timers' = timers /\ armed' = armed /\ jiffies' = jiffies /\ late' = late
        /\ replaced' = replaced /\ ~poll.calling /\ ~poll'.calling
    BY <1>0, <1>3 DEF PollAll, PollSkip, TimersTypes, Idle
  <2>2. poll' \in [at : Slots \cup {Idle}, now : Nat, calling : BOOLEAN] /\ poll'.now <= jiffies
    <3>1. CASE PollAll
      BY <1>0, <3>1, SlotsAre DEF PollAll, TimersTypes
    <3>2. CASE PollSkip
      <4>1. poll.at \in Slots
        BY <1>0, <3>2 DEF PollSkip, TimersTypes
      <4>2. NextSlot(poll.at) \in Slots \cup {Idle}
        BY Zenon, <4>1, SlotsAre
      <4> QED BY <1>0, <3>2, <4>2 DEF PollSkip, TimersTypes
    <3> QED BY <1>3, <3>1, <3>2
  <2>3. TimersTypes'
    BY <1>0, <2>1, <2>2 DEF TimersTypes
  <2>4. \A j \in Slots : Counted(j)' /\ Known(j)'
    BY <2>1, SlotKept DEF InHand
  <2> QED BY <1>0, <2>1, <2>3, <2>4
<1>4. ASSUME PollCall
      PROVE  TimersInv'
  <2>0. poll.at \in Slots /\ Due(poll.at) /\ ~poll.calling
    BY <1>0, <1>4 DEF PollCall, TimersTypes
  <2>1. PICK i \in Slots : i = poll.at
    BY <2>0
  <2>2. /\ timers' = timers /\ jiffies' = jiffies
        /\ armed' = [armed EXCEPT ![i] = IF i \in replaced THEN timers[i].next_tick ELSE @]
        /\ poll' = [poll EXCEPT !.calling = TRUE]
        /\ replaced' = replaced \ {i}
        /\ late' = IF armed[i] \in 0 .. jiffies \/ i \in replaced THEN late ELSE late \cup {i}
    BY <1>4, <2>1 DEF PollCall
  <2>3. /\ armed[i] # NotArmed /\ timers[i].active /\ timers[i].next_tick <= poll.now
        /\ i \notin replaced => timers[i].next_tick = armed[i]
    BY <1>0, <2>0, <2>1 DEF Due, Known, Counted, TimersTypes
  <2>4. late' = {}
    <3>1. i \notin replaced => armed[i] \in 0 .. jiffies
      BY <1>0, <2>3 DEF TimersTypes
    <3> QED BY <1>0, <2>2, <3>1
  <2>5. /\ poll'.at = i /\ poll'.now = poll.now /\ poll'.calling = TRUE
        /\ poll' \in [at : Slots \cup {Idle}, now : Nat, calling : BOOLEAN]
    BY <1>0, <2>1, <2>2 DEF TimersTypes
  <2>6. armed' \in [Slots -> Nat \cup {NotArmed}] /\ armed'[i] = timers[i].next_tick
    BY <1>0, <2>2, <2>3 DEF TimersTypes
  <2>7. TimersTypes'
    BY <1>0, <2>2, <2>5, <2>6 DEF TimersTypes
  <2>8. ASSUME NEW j \in Slots
        PROVE  Counted(j)' /\ Known(j)'
    <3>1. CASE j # i
      <4>1. armed'[j] = armed[j] /\ (j \in replaced' <=> j \in replaced)
        BY <1>0, <2>2, <3>1 DEF TimersTypes
      <4>2. ~InHand(j) /\ ~InHand(j)'
        BY <2>0, <2>5, <3>1 DEF InHand
      <4> QED BY <2>2, <4>1, <4>2, SlotKept
    <3>2. CASE j = i
      <4>1. j \notin replaced' /\ armed'[j] = timers'[j].next_tick /\ timers'[j].active
        BY <2>2, <2>3, <2>6, <3>2
      <4>2. armed'[j] # NotArmed
        BY <1>0, <2>2, <4>1 DEF TimersTypes
      <4> QED BY <4>1, <4>2 DEF Counted, Known
    <3> QED BY <3>1, <3>2
  <2> QED BY <2>4, <2>7, <2>8
<1>5. ASSUME PollReturn
      PROVE  TimersInv'
  <2>0. poll.at \in Slots /\ poll.calling
    BY <1>0, <1>5 DEF PollReturn, TimersTypes
  <2>1. PICK i \in Slots : i = poll.at
    BY <2>0
  <2> DEFINE next == poll.now + timers[i].interval
  <2>2. /\ timers' = AfterCall(i)
        /\ armed' = [armed EXCEPT ![i] =
                       IF i \in replaced THEN @
                       ELSE IF timers[i].repeat /\ timers[i].active THEN next ELSE NotArmed]
        /\ poll' = [poll EXCEPT !.at = NextSlot(@), !.calling = FALSE]
        /\ jiffies' = jiffies /\ replaced' = replaced /\ late' = late
    BY <1>5, <2>1 DEF PollReturn
  <2>3. next \in Nat /\ NextSlot(i) \in Slots \cup {Idle}
    BY <1>0, SlotsAre DEF TimersTypes
  <2>4. poll' \in [at : Slots \cup {Idle}, now : Nat, calling : BOOLEAN] /\ poll'.now <= jiffies
        /\ ~poll'.calling
    BY Zenon, <1>0, <2>1, <2>2, <2>3 DEF TimersTypes
  <2>5. /\ timers' \in [Slots -> [active : BOOLEAN, repeat : BOOLEAN, interval : Nat, next_tick : Nat]]
        /\ \A j \in Slots : j # i => timers'[j] = timers[j]
        /\ timers'[i].repeat = timers[i].repeat
        /\ timers[i].repeat => timers'[i].active = timers[i].active /\ timers'[i].next_tick = next
        /\ ~timers[i].repeat => timers'[i].active = FALSE /\ timers'[i].next_tick = timers[i].next_tick
    <3>1. CASE timers[i].repeat
      <4>1. timers' = [timers EXCEPT ![i].next_tick = next]
        BY <2>1, <2>2, <3>1, Zenon DEF AfterCall
      <4> QED BY <1>0, <2>3, <3>1, <4>1 DEF TimersTypes
    <3>2. CASE ~timers[i].repeat
      <4>1. timers' = [timers EXCEPT ![i].active = FALSE]
        BY <2>2, <3>2, Zenon DEF AfterCall
      <4> QED BY <1>0, <3>2, <4>1 DEF TimersTypes
    <3> QED BY <3>1, <3>2
  <2>6. /\ armed' \in [Slots -> Nat \cup {NotArmed}]
        /\ \A j \in Slots : j # i => armed'[j] = armed[j]
        /\ armed'[i] = IF i \in replaced THEN armed[i]
                       ELSE IF timers[i].repeat /\ timers[i].active THEN next ELSE NotArmed
    BY <1>0, <2>2, <2>3 DEF TimersTypes
  <2>7. TimersTypes'
    BY <1>0, <2>2, <2>4, <2>5, <2>6 DEF TimersTypes
  <2>8. ASSUME NEW j \in Slots
        PROVE  Counted(j)' /\ Known(j)'
    <3>0. ~InHand(j)'
      BY <2>4 DEF InHand
    <3>1. CASE j # i
      <4>1. ~InHand(j) /\ ~InHand(j)'
        BY <2>1, <3>0, <3>1 DEF InHand
      <4>2. timers'[j] = timers[j] /\ armed'[j] = armed[j] /\ (j \in replaced' <=> j \in replaced)
        BY <2>2, <2>5, <2>6, <3>1
      <4>3. Counted(j) /\ Known(j)
        OBVIOUS
      <4> QED BY <4>1, <4>2, <4>3, SlotKept
    <3>2. CASE j = i /\ j \in replaced
      <4>1. InHand(i)
        BY <2>0, <2>1 DEF InHand
      <4>2. /\ armed[i] # NotArmed /\ timers[i].active /\ timers[i].next_tick = armed[i]
            /\ next <= timers[i].next_tick
        BY <3>2, <4>1 DEF Counted, Known
      <4>3. armed'[i] = armed[i] /\ i \in replaced'
        BY <2>2, <2>6, <3>2
      <4>4. timers'[i].active = timers'[i].repeat
        BY <2>5, <4>2
      <4>5. timers'[i].next_tick <= armed'[i]
        <5>1. CASE timers[i].repeat
          BY Zenon, <2>5, <4>2, <4>3, <5>1
        <5>2. CASE ~timers[i].repeat
          <6>1. timers'[i].next_tick = armed'[i]
            BY Zenon, <2>5, <4>2, <4>3, <5>2
          <6>2. armed'[i] \in Nat
            BY <1>0, <2>6, <4>2, <4>3 DEF TimersTypes
          <6> QED BY <6>1, <6>2
        <5> QED BY <5>1, <5>2
      <4> QED BY <3>0, <3>2, <4>2, <4>3, <4>4, <4>5 DEF Counted, Known
    <3>3. CASE j = i /\ j \notin replaced
      <4>1. /\ armed'[i] = IF timers[i].repeat /\ timers[i].active THEN next ELSE NotArmed
            /\ i \notin replaced'
        BY <2>2, <2>6, <3>3
      <4>2. next # NotArmed
        BY <1>0, <2>3
      <4> QED BY <2>5, <3>3, <4>1, <4>2 DEF Counted, Known
    <3> QED BY <3>1, <3>2, <3>3
  <2> QED BY <1>0, <2>2, <2>7, <2>8
<1>6. ASSUME TimerTick
      PROVE  TimersInv'
  <2>1. /\ jiffies' = jiffies + 1 /\ timers' = timers /\ poll' = poll /\ armed' = armed
        /\ replaced' = replaced /\ late' = late
    BY <1>6 DEF TimerTick
  <2>2. TimersTypes'
    BY <1>0, <2>1 DEF TimersTypes
  <2>3. \A j \in Slots : Counted(j)' /\ Known(j)'
    BY <2>1, SlotKept DEF InHand
  <2> QED BY <1>0, <2>1, <2>2, <2>3
<1> QED BY <1>1, <1>2, <1>3, <1>4, <1>5, <1>6 DEF TimersNext

-----------------------------------------------------------------------------
(* Programs and their windows.                                             *)

AppsTypes ==
  /\ app_instances \in [Instances -> [active : BOOLEAN, desc : Apps \cup {NULL},
                                      window : Addresses \cup {NULL}]]
  /\ gui \in [active : BOOLEAN, window : Addresses \cup {NULL}]
  /\ opened = [v \in DOMAIN opened |-> opened[v]] /\ DOMAIN opened \subseteq Addresses

\* The windows of the shell are those made for it; the one it uses is not one
\* it forgot.  The others are made for a program of the registry.
ShellsOwn == /\ \A w \in forgotten : opened[w] = Shell
             /\ gui.window # NULL => opened[gui.window] = Shell
             /\ gui.window \notin forgotten
             /\ \A i \in Active : app_instances[i].desc \in Apps
AppsInv == AppsTypes /\ ShellsOwn /\ WindowsHaveOwners

\* The constants keep the shell, the programs and the addresses apart.
LEMMA NamesApart ==
  /\ Instances \in SUBSET Nat /\ NULL \notin Addresses /\ NULL \notin Apps /\ Shell \notin Apps
  /\ NULL # Shell
  BY AppsAssumption DEF NULL, Shell

\* At the start no program runs and no window is open.
LEMMA AppsStart == AppsInit => AppsInv
<1> SUFFICES ASSUME AppsInit PROVE AppsInv
  OBVIOUS
<1>1. AppsTypes
  BY DEF AppsInit, AppsTypes, NoInstance
<1>2. Active = {} /\ forgotten = {} /\ gui.window = NULL /\ DOMAIN opened = {} /\ served = {}
  BY DEF AppsInit, Active, NoInstance
<1>3. ShellsOwn
  BY <1>2 DEF ShellsOwn
<1>4. WindowsHaveOwners
  BY <1>2 DEF WindowsHaveOwners
<1> QED BY <1>1, <1>3, <1>4 DEF AppsInv

\* An active instance has a window of its own that is not the shell's.
LEMMA InstanceWindows ==
  ASSUME AppsInv
  PROVE  /\ Active \subseteq Instances
         /\ \A i \in Active : /\ app_instances[i].window \in DOMAIN opened
                              /\ app_instances[i].window # NULL
                              /\ app_instances[i].window # gui.window
                              /\ app_instances[i].window \notin forgotten
         /\ forgotten \subseteq DOMAIN opened /\ gui.window \in DOMAIN opened \cup {NULL}
         /\ NULL \notin DOMAIN opened
<1> USE DEF AppsInv
<1>1. Active \subseteq Instances
  BY DEF Active
<1>2. forgotten \subseteq DOMAIN opened /\ gui.window \in DOMAIN opened \cup {NULL}
      /\ NULL \notin DOMAIN opened
  BY NamesApart DEF WindowsHaveOwners, AppsTypes
<1>3. ASSUME NEW i \in Active
      PROVE  /\ app_instances[i].window \in DOMAIN opened
             /\ app_instances[i].window # NULL
             /\ app_instances[i].window # gui.window
             /\ app_instances[i].window \notin forgotten
  <2>1. app_instances[i].window \in DOMAIN opened
    BY <1>3 DEF WindowsHaveOwners
  <2>2. opened[app_instances[i].window] \in Apps
    BY <1>3 DEF WindowsHaveOwners, ShellsOwn
  <2> QED BY <1>2, <2>1, <2>2, NamesApart DEF ShellsOwn
<1> QED BY <1>1, <1>2, <1>3

\* Closing an instance destroys its window and leaves the others.
LEMMA ClosesOne ==
  ASSUME AppsInv, NEW i, AppClose(i)
  PROVE  AppsInv'
<1> USE DEF AppsInv
<1>0. i \in Active /\ i \in Instances
  BY DEF AppClose, Active
<1>1. PICK w : w = app_instances[i].window
  OBVIOUS
<1>2. /\ opened' = [v \in DOMAIN opened \ {w} |-> opened[v]]
      /\ app_instances' = [app_instances EXCEPT ![i] = NoInstance]
      /\ gui' = gui /\ served' = served /\ forgotten' = forgotten
  BY <1>0, <1>1, InstanceWindows DEF AppClose, DropWindow, AfterClose
<1>3. AppsTypes'
  <2>1. DOMAIN opened' = DOMAIN opened \ {w}
    BY <1>2
  <2>2. opened' = [v \in DOMAIN opened' |-> opened'[v]]
    BY <1>2
  <2> QED BY <1>0, <1>2, <2>1, <2>2 DEF AppsTypes, NoInstance
<1>4. Active' = Active \ {i} /\ \A j \in Active' : app_instances'[j] = app_instances[j]
  BY <1>0, <1>2 DEF Active, AppsTypes, NoInstance
<1>5. DOMAIN opened' = DOMAIN opened \ {w} /\ \A v \in DOMAIN opened' : opened'[v] = opened[v]
  BY <1>2
<1>6. \A j \in Active' : app_instances[j].window # w
  BY <1>0, <1>1, <1>4 DEF WindowsHaveOwners
<1>7. gui.window # w /\ w \notin forgotten
  BY <1>0, <1>1, InstanceWindows
<1>8. ShellsOwn'
  BY <1>2, <1>4, <1>5, <1>7, InstanceWindows DEF ShellsOwn
<1>9. {app_instances'[j].window : j \in Active'} = {app_instances[j].window : j \in Active} \ {w}
  BY <1>0, <1>1, <1>4, <1>6
<1>10. WindowsHaveOwners'
  <2>1. {app_instances'[j].window : j \in Active'} \cup ({gui.window} \ {NULL}) \cup forgotten
           = DOMAIN opened'
    BY <1>5, <1>7, <1>9 DEF WindowsHaveOwners
  <2>2. \A j \in Active' : opened'[app_instances'[j].window] = app_instances'[j].desc
    BY <1>4, <1>5, <1>6, InstanceWindows DEF WindowsHaveOwners
  <2> QED BY <1>2, <1>4, <2>1, <2>2 DEF WindowsHaveOwners
<1> QED BY <1>3, <1>8, <1>10

\* Opening, closing and polling programs keep every window with its owner.
LEMMA AppsStep == AppsInv /\ AppsNext => AppsInv'
<1> SUFFICES ASSUME AppsInv, AppsNext PROVE AppsInv'
  OBVIOUS
<1> USE DEF AppsInv
<1>0. AppsTypes
  OBVIOUS
<1>1. ASSUME NEW name, AppLaunch(name)
      PROVE  AppsInv'
  <2>1. name \in Apps /\ AppFind(name) = name
    BY <1>1 DEF AppLaunch, AppFind
  <2>2. FreeSlots \in SUBSET Nat /\ FreeSlots # {} /\ FreeSlots \subseteq Instances
    BY Zenon, <1>1, NamesApart DEF AppLaunch, FreeSlots
  <2>3. PICK i \in FreeSlots : i = Min(FreeSlots)
    BY Zenon, <2>2, Least
  <2>4. i \in Instances /\ ~app_instances[i].active /\ i \notin Active
    BY <2>2, <2>3 DEF FreeSlots, Active
  <2>5. gui' = gui /\ served' = served /\ forgotten' = forgotten
    BY <1>1 DEF AppLaunch
  <2>6. CASE \E w \in FreeAddresses :
               /\ MakeWindow(w, name)
               /\ app_instances' = [app_instances EXCEPT
                                      ![i] = [active |-> TRUE, desc |-> AppFind(name), window |-> w]]
    <3>1. PICK w \in FreeAddresses :
               /\ MakeWindow(w, name)
               /\ app_instances' = [app_instances EXCEPT
                                      ![i] = [active |-> TRUE, desc |-> AppFind(name), window |-> w]]
      BY Zenon, <2>6
    <3>2. /\ w \in Addresses /\ w \notin DOMAIN opened
          /\ opened' = [v \in DOMAIN opened \cup {w} |-> IF v = w THEN name ELSE opened[v]]
          /\ app_instances' = [app_instances EXCEPT ![i] = [active |-> TRUE, desc |-> name, window |-> w]]
      BY <2>1, <3>1 DEF FreeAddresses, MakeWindow
    <3>3. /\ DOMAIN opened' = DOMAIN opened \cup {w} /\ opened'[w] = name
          /\ \A v \in DOMAIN opened : opened'[v] = opened[v]
          /\ opened' = [v \in DOMAIN opened' |-> opened'[v]]
      BY <3>2
    <3>4. AppsTypes'
      BY <1>0, <2>1, <2>4, <2>5, <3>2, <3>3 DEF AppsTypes
    <3>5. /\ Active' = Active \cup {i} /\ app_instances'[i].window = w /\ app_instances'[i].desc = name
          /\ \A j \in Active : app_instances'[j] = app_instances[j]
      BY <1>0, <2>4, <3>2 DEF Active, AppsTypes
    <3>6. ShellsOwn'
      BY <2>1, <2>5, <3>2, <3>3, <3>5, InstanceWindows DEF ShellsOwn
    <3>7. {app_instances'[j].window : j \in Active'} = {app_instances[j].window : j \in Active} \cup {w}
      BY <2>4, <3>5
    <3>8. WindowsHaveOwners'
      <4>1. {app_instances'[j].window : j \in Active'} \cup ({gui'.window} \ {NULL}) \cup forgotten'
               = DOMAIN opened'
        BY <2>5, <3>3, <3>7 DEF WindowsHaveOwners
      <4>2. \A j \in Active' : opened'[app_instances'[j].window] = app_instances'[j].desc
        BY <3>3, <3>5, InstanceWindows DEF WindowsHaveOwners
      <4>3. \A j, k \in Active' : app_instances'[j].window = app_instances'[k].window => j = k
        BY <3>2, <3>5, InstanceWindows DEF WindowsHaveOwners
      <4> QED BY <2>5, <4>1, <4>2, <4>3 DEF WindowsHaveOwners
    <3> QED BY <3>4, <3>6, <3>8
  <2>7. CASE app_instances' = [app_instances EXCEPT ![i] = OnNoWindow(i, name)] /\ opened' = opened
    <3>1. app_instances' = app_instances
      BY <1>0, <2>4, <2>7 DEF OnNoWindow, AppsTypes
    <3>2. Active' = Active
      BY <3>1 DEF Active
    <3>3. AppsTypes' /\ ShellsOwn'
      BY Zenon, <1>0, <2>5, <2>7, <3>1, <3>2 DEF AppsTypes, ShellsOwn
    <3>4. WindowsHaveOwners'
      <4>1. {app_instances'[j].window : j \in Active'} = {app_instances[j].window : j \in Active}
        BY <3>1, <3>2
      <4>2. opened' = opened /\ gui' = gui /\ served' = served /\ forgotten' = forgotten
        BY <2>5, <2>7
      <4> QED BY <3>1, <3>2, <4>1, <4>2 DEF WindowsHaveOwners
    <3> QED BY <3>3, <3>4
  <2> QED BY <1>1, <2>3, <2>6, <2>7 DEF AppLaunch
<1>2. ASSUME NEW name, CloseCommand(name)
      PROVE  AppsInv'
  <2>1. PICK i : AppClose(i)
    BY <1>2 DEF CloseCommand
  <2> QED BY <2>1, ClosesOne
<1>3. ASSUME NEW w, AppHandle(w)
      PROVE  AppsInv'
  <2>1. UNCHANGED <<app_instances, opened, gui, forgotten>>
    BY <1>3 DEF AppHandle
  <2>2. \A s \in served' : s[1] = s[2]
    <3>1. CASE Owner(w) = {}
      BY <1>3, <3>1 DEF AppHandle
    <3>2. CASE Owner(w) # {}
      <4>1. Owner(w) \in SUBSET Nat
        BY Zenon, NamesApart DEF Owner, Active
      <4>2. PICK i \in Owner(w) : i = Min(Owner(w))
        BY <3>2, <4>1, Least
      <4>3. served' = {<<app_instances[i].desc, opened[w]>>}
        BY <1>3, <3>2, <4>2 DEF AppHandle
      <4>4. app_instances[i].desc = opened[w]
        BY <4>2 DEF Owner, WindowsHaveOwners
      <4> QED BY <4>3, <4>4
    <3> QED BY <3>1, <3>2
  <2> QED BY <2>1, <2>2 DEF AppsTypes, ShellsOwn, WindowsHaveOwners, Active
<1>4. ASSUME AppPeriodicDraw
      PROVE  AppsInv'
  <2>1. UNCHANGED <<app_instances, opened, gui, forgotten>>
    BY <1>4 DEF AppPeriodicDraw
  <2>2. \A s \in served' : s[1] = s[2]
    BY <1>4 DEF AppPeriodicDraw, WindowsHaveOwners
  <2> QED BY <2>1, <2>2 DEF AppsTypes, ShellsOwn, WindowsHaveOwners, Active
<1>5. ASSUME NEW w, WmShowHide(w)
      PROVE  AppsInv'
  BY <1>5 DEF WmShowHide, AppsTypes, ShellsOwn, WindowsHaveOwners, Active
<1>6. ASSUME ShellGuiToggle
      PROVE  AppsInv'
  <2>1. CASE gui.active
    <3>1. gui' = [gui EXCEPT !.active = FALSE] /\ UNCHANGED <<app_instances, opened, served, forgotten>>
      BY <1>6, <2>1 DEF ShellGuiToggle
    <3>2. gui'.window = gui.window /\ AppsTypes'
      BY Zenon, <1>0, <3>1 DEF AppsTypes
    <3> QED BY <3>1, <3>2 DEF ShellsOwn, WindowsHaveOwners, Active
  <2>2. CASE ~gui.active
    <3>1. PICK g : g = gui.window
      OBVIOUS
    <3>2. /\ forgotten' = forgotten \cup ({g} \ {NULL})
          /\ app_instances' = app_instances /\ served' = served /\ Active' = Active
      BY <1>6, <2>2, <3>1 DEF ShellGuiToggle, ShellGuiInit, Active
    <3>3. CASE \E w \in FreeAddresses : MakeWindow(w, Shell) /\ gui' = [active |-> TRUE, window |-> w]
      <4>1. PICK w \in FreeAddresses : MakeWindow(w, Shell) /\ gui' = [active |-> TRUE, window |-> w]
        BY Zenon, <3>3
      <4>2. /\ w \in Addresses /\ w \notin DOMAIN opened /\ w # NULL
            /\ opened' = [v \in DOMAIN opened \cup {w} |-> IF v = w THEN Shell ELSE opened[v]]
        BY <4>1, NamesApart DEF FreeAddresses, MakeWindow
      <4>3. /\ DOMAIN opened' = DOMAIN opened \cup {w} /\ opened'[w] = Shell
            /\ \A v \in DOMAIN opened : opened'[v] = opened[v]
            /\ opened' = [v \in DOMAIN opened' |-> opened'[v]]
        BY <4>2
      <4>4. AppsTypes'
        BY <1>0, <3>2, <4>1, <4>2, <4>3 DEF AppsTypes
      <4>5. ShellsOwn'
        BY <3>1, <3>2, <4>1, <4>2, <4>3, InstanceWindows DEF ShellsOwn
      <4>6. WindowsHaveOwners'
        <5>1. {app_instances'[j].window : j \in Active'} \cup ({gui'.window} \ {NULL}) \cup forgotten'
                 = DOMAIN opened'
          BY <3>1, <3>2, <4>1, <4>2, <4>3 DEF WindowsHaveOwners
        <5>2. \A j \in Active' : opened'[app_instances'[j].window] = app_instances'[j].desc
          BY <3>2, <4>3, InstanceWindows DEF WindowsHaveOwners
        <5> QED BY <3>2, <5>1, <5>2 DEF WindowsHaveOwners
      <4> QED BY <4>4, <4>5, <4>6
    <3>4. CASE gui' = [gui EXCEPT !.window = NULL] /\ opened' = opened
      <4>1. gui'.window = NULL /\ AppsTypes'
        BY <1>0, <3>2, <3>4 DEF AppsTypes
      <4>2. ShellsOwn'
        BY <3>1, <3>2, <3>4, <4>1, InstanceWindows DEF ShellsOwn
      <4>3. WindowsHaveOwners'
        <5>1. {app_instances'[j].window : j \in Active'} \cup ({gui'.window} \ {NULL}) \cup forgotten'
                 = DOMAIN opened'
          <6>1. {app_instances[j].window : j \in Active} \cup ({g} \ {NULL}) \cup forgotten = DOMAIN opened
            BY Zenon, <3>1 DEF WindowsHaveOwners
          <6>2. {app_instances'[j].window : j \in Active'} = {app_instances[j].window : j \in Active}
            BY Zenon, <3>2
          <6>3. forgotten' = forgotten \cup ({g} \ {NULL}) /\ DOMAIN opened' = DOMAIN opened
                /\ {gui'.window} \ {NULL} = {}
            BY <3>2, <3>4, <4>1
          <6> QED BY <6>1, <6>2, <6>3
        <5>2. \A j \in Active' : opened'[app_instances'[j].window] = app_instances'[j].desc
          BY Zenon, <3>2, <3>4 DEF WindowsHaveOwners
        <5> QED BY Zenon, <3>2, <5>1, <5>2 DEF WindowsHaveOwners
      <4> QED BY <4>1, <4>2, <4>3
    <3> QED BY <1>6, <2>2, <3>3, <3>4 DEF ShellGuiToggle, ShellGuiInit
  <2> QED BY <2>1, <2>2
<1>7. ASSUME ShellGuiExit
      PROVE  AppsInv'
  <2>1. PICK g : g = gui.window
    OBVIOUS
  <2>2. /\ gui' = [active |-> FALSE, window |-> NULL]
        /\ app_instances' = app_instances /\ served' = served /\ Active' = Active /\ forgotten' = forgotten
    BY <1>7 DEF ShellGuiExit, Active
  <2>3. DOMAIN opened' = DOMAIN opened \ {g} /\ opened' = [v \in DOMAIN opened \ {g} |-> opened[v]]
    <3>1. CASE g = NULL
      <4>1. opened' = opened /\ DOMAIN opened \ {g} = DOMAIN opened
        BY <1>7, <2>1, <3>1, InstanceWindows DEF ShellGuiExit
      <4>2. opened = [v \in DOMAIN opened |-> opened[v]]
        BY <1>0 DEF AppsTypes
      <4> QED BY <4>1, <4>2, Zenon
    <3>2. CASE g # NULL
      BY <1>7, <2>1, <3>2 DEF ShellGuiExit, DropWindow
    <3> QED BY <3>1, <3>2
  <2>4. opened' = [v \in DOMAIN opened' |-> opened'[v]] /\ \A v \in DOMAIN opened' : opened'[v] = opened[v]
    BY <2>3
  <2>5. AppsTypes'
    BY <1>0, <2>2, <2>3, <2>4 DEF AppsTypes
  <2>6. ShellsOwn'
    BY <2>1, <2>2, <2>3, <2>4, InstanceWindows DEF ShellsOwn
  <2>7. WindowsHaveOwners'
    <3>1. {app_instances'[j].window : j \in Active'} \cup ({gui'.window} \ {NULL}) \cup forgotten'
             = DOMAIN opened'
      <4>1. g \notin {app_instances[j].window : j \in Active} /\ g \notin forgotten
        BY <2>1, InstanceWindows DEF ShellsOwn
      <4> QED BY <2>1, <2>2, <2>3, <4>1 DEF WindowsHaveOwners
    <3>2. \A j \in Active' : opened'[app_instances'[j].window] = app_instances'[j].desc
      BY <2>1, <2>2, <2>3, <2>4, InstanceWindows DEF WindowsHaveOwners
    <3> QED BY <2>2, <3>1, <3>2 DEF WindowsHaveOwners
  <2> QED BY <2>5, <2>6, <2>7
<1> QED BY <1>1, <1>2, <1>3, <1>4, <1>5, <1>6, <1>7 DEF AppsNext

-----------------------------------------------------------------------------
(* A line of text, as it is in the array and as the editor promises it.     *)

\* A sequence that begins like s and goes on like t is their concatenation.
LEMMA Joined ==
  ASSUME NEW S, NEW s \in Seq(S), NEW t \in Seq(S), NEW u \in Seq(S), Len(u) = Len(s) + Len(t),
         \A i \in 1 .. Len(s) : u[i] = s[i],
         \A i \in 1 .. Len(t) : u[Len(s) + i] = t[i]
  PROVE  u = s \o t
<1>1. PICK w \in Seq(S) : w = s \o t
  BY Zenon, ConcatProperties
<1>2. /\ Len(w) = Len(s) + Len(t)
      /\ \A i \in 1 .. Len(s) + Len(t) : w[i] = IF i <= Len(s) THEN s[i] ELSE t[i - Len(s)]
  BY <1>1, ConcatProperties
<1>3. Len(s) \in Nat /\ Len(t) \in Nat /\ Len(u) \in Nat
  OBVIOUS
<1>4. \A i \in 1 .. Len(u) : u[i] = w[i]
  <2> TAKE i \in 1 .. Len(u)
  <2>0. i \in Nat /\ 1 <= i /\ i <= Len(s) + Len(t) /\ i \in 1 .. Len(s) + Len(t)
    BY <1>3
  <2>1. CASE i <= Len(s)
    <3>1. w[i] = s[i] /\ i \in 1 .. Len(s)
      BY <1>2, <1>3, <2>0, <2>1
    <3> QED BY <3>1
  <2>2. CASE ~(i <= Len(s))
    <3>0. i - Len(s) \in 1 .. Len(t)
      BY <1>3, <2>0, <2>2
    <3>1. PICK k \in 1 .. Len(t) : k = i - Len(s)
      BY Zenon, <3>0
    <3>2. w[i] = t[k] /\ i = Len(s) + k
      BY <1>2, <1>3, <2>0, <2>2, <3>1
    <3> QED BY Zenon, <3>1, <3>2
  <2> QED BY <2>1, <2>2
<1>5. u = w
  BY <1>2, <1>4, SeqEqual
<1> QED BY <1>1, <1>5

\* What is before a place in a sequence
IsBefore(b, t, c) == b = SubSeq(t, 1, c) /\ Len(b) = c /\ \A i \in 1 .. c : b[i] = t[i]

\* The text up to a place, as the editor of a line states it.
LEMMA TextBefore ==
  ASSUME NEW S, NEW t \in Seq(S), NEW c \in 0 .. Len(t)
  PROVE  \E b \in Seq(S) : IsBefore(b, t, c)
<1>1. Len(t) \in Nat /\ c \in Nat /\ c <= Len(t) /\ \A i \in 1 .. Len(t) : t[i] \in S
  OBVIOUS
<1>2. \A i \in 1 .. c : t[i] \in S
  BY <1>1
<1>3. /\ SubSeq(t, 1, c) \in Seq(S)
      /\ Len(SubSeq(t, 1, c)) = IF 1 <= c THEN c - 1 + 1 ELSE 0
      /\ \A i \in 1 .. c - 1 + 1 : SubSeq(t, 1, c)[i] = t[1 + i - 1]
  BY <1>1, <1>2, SubSeqProperties
<1>4. /\ SubSeq(t, 1, c) \in Seq(S) /\ Len(SubSeq(t, 1, c)) = c
      /\ \A i \in 1 .. c : SubSeq(t, 1, c)[i] = t[i]
  BY <1>1, <1>3
<1> QED BY <1>4, Zenon DEF IsBefore

\* What is after it
IsAfter(a, t, c) == /\ a = SubSeq(t, c + 1, Len(t)) /\ Len(a) = Len(t) - c
                    /\ \A i \in 1 .. Len(t) - c : a[i] = t[c + i]

\* The text from a place on, as the editor of a line states it.
LEMMA TextAfter ==
  ASSUME NEW S, NEW t \in Seq(S), NEW c \in 0 .. Len(t)
  PROVE  \E a \in Seq(S) : IsAfter(a, t, c)
<1>1. Len(t) \in Nat /\ c \in Nat /\ c <= Len(t) /\ \A i \in 1 .. Len(t) : t[i] \in S
  OBVIOUS
<1>4. \A i \in c + 1 .. Len(t) : t[i] \in S
  BY <1>1
<1>5. PICK d \in Int : d = c + 1
  BY <1>1
<1>6. /\ SubSeq(t, d, Len(t)) \in Seq(S)
      /\ Len(SubSeq(t, d, Len(t))) = IF d <= Len(t) THEN Len(t) - d + 1 ELSE 0
      /\ \A i \in 1 .. Len(t) - d + 1 : SubSeq(t, d, Len(t))[i] = t[d + i - 1]
  BY <1>1, <1>4, <1>5, SubSeqProperties
<1>7. PICK a \in Seq(S) : a = SubSeq(t, d, Len(t))
  BY Zenon, <1>6
<1>8. Len(a) = Len(t) - c /\ \A i \in 1 .. Len(t) - c : a[i] = t[c + i]
  BY <1>1, <1>5, <1>6, <1>7
<1> QED BY <1>5, <1>7, <1>8, Zenon DEF IsAfter

\* Without the character before the cursor
LEMMA ErasedText ==
  ASSUME NEW S, NEW t \in Seq(S), NEW u \in Seq(S), NEW c \in 1 .. Len(t), Len(u) = Len(t) - 1,
         \A i \in 1 .. c - 1 : u[i] = t[i],
         \A i \in c .. Len(t) - 1 : u[i] = t[i + 1]
  PROVE  u = SubSeq(t, 1, c - 1) \o SubSeq(t, c + 1, Len(t))
<1>1. Len(t) \in Nat /\ c \in Nat /\ 1 <= c /\ c <= Len(t) /\ c \in 0 .. Len(t)
  OBVIOUS
<1>2. PICK k \in 0 .. Len(t) : k = c - 1
  BY <1>1
<1>3. PICK f \in Seq(S) : IsBefore(f, t, k)
  BY TextBefore
<1>4. Len(f) = k /\ \A i \in 1 .. k : f[i] = t[i]
  BY <1>3 DEF IsBefore
<1>5. PICK a \in Seq(S) : IsAfter(a, t, c)
  BY <1>1, TextAfter
<1>6. Len(a) = Len(t) - c /\ \A i \in 1 .. Len(t) - c : a[i] = t[c + i]
  BY Zenon, <1>5 DEF IsAfter
<1>7. \A i \in 1 .. Len(f) : u[i] = f[i]
  BY <1>2, <1>4
<1>8. \A i \in 1 .. Len(a) : u[Len(f) + i] = a[i]
  <2> TAKE i \in 1 .. Len(a)
  <2>1. Len(f) + i \in c .. Len(t) - 1 /\ Len(f) + i + 1 = c + i /\ i \in 1 .. Len(t) - c
    BY <1>1, <1>2, <1>4, <1>6
  <2> QED BY Zenon, <1>6, <2>1
<1>9. Len(u) = Len(f) + Len(a)
  BY <1>1, <1>2, <1>4, <1>6
<1>10. u = f \o a
  BY Zenon, <1>7, <1>8, <1>9, Joined
<1> QED BY Zenon, <1>2, <1>3, <1>5, <1>10 DEF IsBefore, IsAfter

\* Without the character after the cursor
LEMMA DeletedText ==
  ASSUME NEW S, NEW t \in Seq(S), NEW u \in Seq(S), NEW c \in 0 .. Len(t) - 1, Len(u) = Len(t) - 1,
         \A i \in 1 .. c : u[i] = t[i],
         \A i \in c + 1 .. Len(t) - 1 : u[i] = t[i + 1]
  PROVE  u = SubSeq(t, 1, c) \o Tail(SubSeq(t, c + 1, Len(t)))
<1>1. Len(t) \in Nat /\ c \in Nat /\ c <= Len(t) /\ c \in 0 .. Len(t) /\ c < Len(t)
  OBVIOUS
<1>2. PICK b \in Seq(S) : IsBefore(b, t, c)
  BY <1>1, TextBefore
<1>2a. Len(b) = c /\ \A i \in 1 .. c : b[i] = t[i]
  BY <1>2 DEF IsBefore
<1>3. PICK a \in Seq(S) : IsAfter(a, t, c)
  BY <1>1, TextAfter
<1>3a. Len(a) = Len(t) - c /\ \A i \in 1 .. Len(t) - c : a[i] = t[c + i]
  BY Zenon, <1>3 DEF IsAfter
<1>4. Len(a) # 0 /\ a # <<>>
  BY <1>1, <1>3a
<1>5. PICK r : r = Tail(a)
  BY Zenon
<1>5a. r \in Seq(S) /\ Len(r) = Len(a) - 1 /\ \A i \in 1 .. Len(r) : r[i] = a[i + 1]
  BY <1>4, <1>5, HeadTailProperties
<1>5b. Len(r) = Len(t) - c - 1 /\ Len(b) = c /\ Len(r) \in Nat
  BY <1>1, <1>2a, <1>3a, <1>5a
<1>6. \A i \in 1 .. Len(r) : u[Len(b) + i] = r[i]
  <2> TAKE i \in 1 .. Len(r)
  <2>1. /\ Len(b) + i \in c + 1 .. Len(t) - 1 /\ Len(b) + i + 1 = c + (i + 1)
        /\ i + 1 \in 1 .. Len(t) - c
    BY <1>1, <1>5b
  <2>2. u[Len(b) + i] = t[c + (i + 1)]
    BY Zenon, <2>1
  <2>3. r[i] = t[c + (i + 1)]
    BY <1>3a, <1>5a, <2>1
  <2> QED BY <2>2, <2>3
<1>7. Len(u) = Len(b) + Len(r) /\ \A i \in 1 .. Len(b) : u[i] = b[i]
  BY <1>1, <1>2a, <1>5b
<1>8. u = b \o r
  BY Zenon, <1>5a, <1>6, <1>7, Joined
<1> QED BY <1>2, <1>3, <1>5, <1>8 DEF IsBefore, IsAfter

\* With more characters at the cursor
IsPut(t, s, u, c) ==
  /\ Len(u) = Len(t) + Len(s)
  /\ \A i \in 1 .. c : u[i] = t[i]
  /\ \A i \in 1 .. Len(s) : u[c + i] = s[i]
  /\ \A i \in c + 1 .. Len(t) : u[Len(s) + i] = t[i]

\* A text with another put in at a place.
LEMMA PutText ==
  ASSUME NEW S, NEW t \in Seq(S), NEW s \in Seq(S), NEW u \in Seq(S), NEW c \in 0 .. Len(t),
         IsPut(t, s, u, c)
  PROVE  u = SubSeq(t, 1, c) \o s \o SubSeq(t, c + 1, Len(t))
<1>0. /\ Len(u) = Len(t) + Len(s)
      /\ \A i \in 1 .. c : u[i] = t[i]
      /\ \A i \in 1 .. Len(s) : u[c + i] = s[i]
      /\ \A i \in c + 1 .. Len(t) : u[Len(s) + i] = t[i]
  BY DEF IsPut
<1>1. Len(t) \in Nat /\ c \in Nat /\ c <= Len(t) /\ Len(s) \in Nat
  OBVIOUS
<1>2. PICK b \in Seq(S) : IsBefore(b, t, c)
  BY <1>0, <1>1, TextBefore
<1>2a. Len(b) = c /\ \A i \in 1 .. c : b[i] = t[i]
  BY <1>2 DEF IsBefore
<1>3. PICK a \in Seq(S) : IsAfter(a, t, c)
  BY <1>0, <1>1, TextAfter
<1>3a. Len(a) = Len(t) - c /\ \A i \in 1 .. Len(t) - c : a[i] = t[c + i]
  BY Zenon, <1>3 DEF IsAfter
<1>4. PICK m \in Seq(S) : IsBefore(m, u, c + Len(s))
  <2>1. PICK k \in 0 .. Len(u) : k = c + Len(s)
    BY <1>0, <1>1
  <2> QED BY <2>1, TextBefore
<1>4a. Len(m) = c + Len(s) /\ \A i \in 1 .. c + Len(s) : m[i] = u[i]
  BY <1>4 DEF IsBefore
<1>5. m = b \o s
  <2>1. \A i \in 1 .. Len(b) : m[i] = b[i]
    <3> TAKE i \in 1 .. Len(b)
    <3>1. i \in 1 .. c /\ i \in 1 .. c + Len(s)
      BY <1>1, <1>2a
    <3> QED BY Zenon, <1>0, <1>2a, <1>4a, <3>1
  <2>2. \A i \in 1 .. Len(s) : m[Len(b) + i] = s[i]
    <3> TAKE i \in 1 .. Len(s)
    <3>1. c + i \in 1 .. c + Len(s)
      BY <1>1
    <3> QED BY Zenon, <1>0, <1>2a, <1>4a, <3>1
  <2> QED BY Zenon, <1>2a, <1>4a, <2>1, <2>2, Joined
<1>6. u = m \o a
  <2>1. \A i \in 1 .. Len(a) : u[Len(m) + i] = a[i]
    <3> TAKE i \in 1 .. Len(a)
    <3>1. c + i \in c + 1 .. Len(t) /\ Len(m) + i = Len(s) + (c + i) /\ i \in 1 .. Len(t) - c
      BY <1>0, <1>1, <1>3a, <1>4a
    <3> QED BY Zenon, <1>0, <1>3a, <3>1
  <2>2. Len(u) = Len(m) + Len(a)
    BY <1>0, <1>1, <1>3a, <1>4a
  <2>3. \A i \in 1 .. Len(m) : u[i] = m[i]
    BY Zenon, <1>4a
  <2> QED BY Zenon, <2>1, <2>2, <2>3, Joined
<1> QED BY <1>2, <1>3, <1>5, <1>6 DEF IsBefore, IsAfter

\* A buffer with L characters
Holds(b, L) == /\ b \in [0 .. MaxText -> Chars \cup {NUL}] /\ L \in 0 .. MaxText
               /\ \A i \in 0 .. L - 1 : b[i] \in Chars
               /\ b[L] = NUL

\* Its text is what is in it up to the first NUL.
LEMMA TextOf ==
  ASSUME NEW b, NEW L, Holds(b, L)
  PROVE  /\ Strlen(b) = L /\ Shown(b) \in Seq(Chars) /\ Len(Shown(b)) = L
         /\ \A i \in 1 .. L : Shown(b)[i] = b[i - 1]
<1>1. /\ L \in Nat /\ MaxText \in Nat /\ L <= MaxText /\ NUL \notin Chars
      /\ \A i \in 0 .. L - 1 : b[i] \in Chars
      /\ b[L] = NUL /\ DOMAIN b = 0 .. MaxText
  BY TextAssumption DEF Holds
<1>2. Strlen(b) = L
  <2>1. PICK z : z = {i \in DOMAIN b : b[i] = NUL}
    BY Zenon
  <2>2. z \in SUBSET Nat /\ L \in z
    BY <1>1, <2>1
  <2>3. \A i \in z : i \in Nat /\ i >= L
    BY <1>1, <2>1, <2>2
  <2>4. Min(z) \in z /\ Min(z) <= L
    BY <2>2, Least
  <2>5. Min(z) = L
    BY <1>1, <2>3, <2>4
  <2> QED BY <2>1, <2>5 DEF Strlen
<1>3. Shown(b) = [i \in 1 .. L |-> b[i - 1]]
  BY <1>2 DEF Shown
<1>4. \A i \in 1 .. L : b[i - 1] \in Chars
  BY <1>1
<1> QED BY <1>1, <1>2, <1>3, <1>4

\* Closing up takes one character out.
LEMMA ClosedUpIs ==
  ASSUME NEW b, NEW L, Holds(b, L), NEW c \in 0 .. L - 1
  PROVE  /\ Holds(ClosedUp(b, c), L - 1)
         /\ \A i \in 0 .. c - 1 : ClosedUp(b, c)[i] = b[i]
         /\ \A i \in c .. L - 2 : ClosedUp(b, c)[i] = b[i + 1]
<1>1. /\ L \in Nat /\ MaxText \in Nat /\ L <= MaxText /\ c \in Nat /\ c < L
      /\ \A i \in 0 .. L - 1 : b[i] \in Chars
      /\ b[L] = NUL /\ DOMAIN b = 0 .. MaxText
      /\ \A i \in 0 .. MaxText : b[i] \in Chars \cup {NUL}
  BY TextAssumption DEF Holds
<1>2. Strlen(b) = L
  BY TextOf
<1>3. PICK d : d = ClosedUp(b, c)
  OBVIOUS
<1>4. d = [i \in 0 .. MaxText |-> IF i \in c .. c + (L - c) - 1 THEN b[i - c + (c + 1)] ELSE b[i]]
  BY <1>1, <1>2, <1>3 DEF ClosedUp, Moved
<1>5. \A i \in 0 .. MaxText : d[i] = IF c <= i /\ i < L THEN b[i + 1] ELSE b[i]
  <2> TAKE i \in 0 .. MaxText
  <2>1. i \in Nat /\ (i \in c .. c + (L - c) - 1 <=> c <= i /\ i < L) /\ i - c + (c + 1) = i + 1
    BY <1>1
  <2> QED BY <1>4, <2>1
<1>6. d \in [0 .. MaxText -> Chars \cup {NUL}]
  <2>1. \A i \in 0 .. MaxText : d[i] \in Chars \cup {NUL}
    BY <1>1, <1>5
  <2> QED BY <1>4, <2>1
<1>7. \A i \in 0 .. L - 2 : d[i] \in Chars
  BY <1>1, <1>5
<1>8. d[L - 1] = NUL
  BY <1>1, <1>5
<1>9. Holds(d, L - 1)
  BY <1>1, <1>6, <1>7, <1>8 DEF Holds
<1>10. \A i \in 0 .. c - 1 : d[i] = b[i]
  BY <1>1, <1>5
<1>11. \A i \in c .. L - 2 : d[i] = b[i + 1]
  BY <1>1, <1>5
<1> QED BY <1>3, <1>9, <1>10, <1>11

\* What is typed goes in as far as there is room.
LEMMA TypedInIs ==
  ASSUME NEW b, NEW L, Holds(b, L), NEW c \in 0 .. L, NEW s \in Seq(Chars)
  PROVE  \E n \in Nat :
            /\ n = Room(b, s) /\ n <= Len(s) /\ n <= MaxText - L
            /\ Holds(TypedIn(b, c, s), L + n)
            /\ \A i \in 0 .. c - 1 : TypedIn(b, c, s)[i] = b[i]
            /\ \A i \in c .. c + n - 1 : TypedIn(b, c, s)[i] = s[i - c + 1]
            /\ \A i \in c + n .. L + n - 1 : TypedIn(b, c, s)[i] = b[i - n]
            /\ n = 0 => TypedIn(b, c, s) = b
<1>1. /\ L \in Nat /\ MaxText \in Nat /\ L <= MaxText /\ c \in Nat /\ c <= L /\ Len(s) \in Nat
      /\ \A i \in 0 .. L - 1 : b[i] \in Chars
      /\ b[L] = NUL /\ DOMAIN b = 0 .. MaxText /\ b = [i \in 0 .. MaxText |-> b[i]]
      /\ \A i \in 0 .. MaxText : b[i] \in Chars \cup {NUL}
      /\ \A i \in 1 .. Len(s) : s[i] \in Chars
  BY TextAssumption DEF Holds
<1>2. Strlen(b) = L
  BY TextOf
<1>3. PICK n \in Nat : n = Room(b, s) /\ n <= Len(s) /\ n <= MaxText - L
  <2>1. PICK z : z = {Len(s), MaxText - L}
    BY Zenon
  <2>2. z \in SUBSET Nat /\ z # {} /\ Len(s) \in z /\ MaxText - L \in z
    BY <1>1, <2>1
  <2>3. Min(z) \in z /\ Min(z) <= Len(s) /\ Min(z) <= MaxText - L
    BY Zenon, <2>2, Least
  <2>4. Room(b, s) = Min(z)
    BY <1>2, <2>1 DEF Room
  <2> QED BY Zenon, <2>2, <2>3, <2>4
<1>3a. /\ n \in Nat /\ n <= Len(s) /\ n <= MaxText - L /\ c + n \in Nat /\ L + n \in Nat
       /\ L + n <= MaxText /\ c + n <= L + n
  BY <1>1, <1>3
<1>4. PICK d : d = TypedIn(b, c, s)
  OBVIOUS
<1>5. PICK o : o = Moved(b, c, L - c + 1, c + n)
  OBVIOUS
<1>6. d = [i \in 0 .. MaxText |-> IF i \in c .. c + n - 1 THEN s[i - c + 1] ELSE o[i]]
  BY <1>1, <1>2, <1>3, <1>4, <1>5 DEF TypedIn
<1>7. \A i \in 0 .. MaxText : o[i] = IF c + n <= i /\ i <= L + n THEN b[i - n] ELSE b[i]
  <2>0. o = [i \in 0 .. MaxText |-> IF i \in c + n .. c + n + (L - c + 1) - 1
                                    THEN b[i - (c + n) + c] ELSE b[i]]
    BY <1>1, <1>3a, <1>5 DEF Moved
  <2> TAKE i \in 0 .. MaxText
  <2>1. /\ i \in Nat /\ (i \in c + n .. c + n + (L - c + 1) - 1 <=> c + n <= i /\ i <= L + n)
        /\ i - (c + n) + c = i - n
    BY <1>1, <1>3a
  <2> QED BY <2>0, <2>1
<1>8. \A i \in 0 .. MaxText : d[i] = IF c <= i /\ i < c + n THEN s[i - c + 1]
                                     ELSE IF c + n <= i /\ i <= L + n THEN b[i - n] ELSE b[i]
  <2> TAKE i \in 0 .. MaxText
  <2>1. i \in Nat /\ (i \in c .. c + n - 1 <=> c <= i /\ i < c + n)
    BY <1>1, <1>3a
  <2> QED BY <1>6, <1>7, <2>1
<1>9. \A i \in 0 .. c - 1 : d[i] = b[i]
  <2> TAKE i \in 0 .. c - 1
  <2>1. i \in 0 .. MaxText /\ ~(c <= i) /\ ~(c + n <= i)
    BY <1>1, <1>3a
  <2> QED BY <1>8, <2>1
<1>10. \A i \in c .. c + n - 1 : d[i] = s[i - c + 1]
  <2> TAKE i \in c .. c + n - 1
  <2>1. i \in 0 .. MaxText /\ c <= i /\ i < c + n
    BY <1>1, <1>3a
  <2> QED BY Zenon, <1>8, <2>1
<1>11. \A i \in c + n .. L + n : d[i] = b[i - n]
  <2> TAKE i \in c + n .. L + n
  <2>1. i \in 0 .. MaxText /\ ~(i < c + n) /\ c + n <= i /\ i <= L + n
    BY <1>1, <1>3a
  <2> QED BY <1>8, <2>1
<1>12. d \in [0 .. MaxText -> Chars \cup {NUL}]
  <2>1. ASSUME NEW i \in 0 .. MaxText
        PROVE  d[i] \in Chars \cup {NUL}
    <3>0. i \in Nat /\ i <= MaxText
      BY <1>1, <1>3a
    <3>1. CASE c <= i /\ i < c + n
      <4>1. PICK k \in 1 .. Len(s) : k = i - c + 1
        <5>1. i - c + 1 \in 1 .. Len(s)
          BY <1>1, <1>3a, <3>0, <3>1
        <5> QED BY <5>1
      <4> QED BY Zenon, <1>1, <1>3a, <1>8, <3>1, <4>1
    <3>2. CASE c + n <= i /\ i <= L + n
      <4>1. i - n \in 0 .. MaxText
        BY <1>1, <1>3a, <3>0, <3>2
      <4>2. d[i] = b[i - n]
        <5>1. i \in c + n .. L + n
          BY <1>1, <1>3a, <3>0, <3>2
        <5> QED BY <1>11, <5>1
      <4> QED BY <1>1, <1>3a, <4>1, <4>2
    <3>3. CASE ~(c <= i /\ i < c + n) /\ ~(c + n <= i /\ i <= L + n)
      BY Zenon, <1>1, <1>3a, <1>8, <3>3
    <3> QED BY <3>1, <3>2, <3>3
  <2> QED BY <1>6, <2>1
<1>13. \A i \in 0 .. L + n - 1 : d[i] \in Chars
  <2> TAKE i \in 0 .. L + n - 1
  <2>0. i \in Nat /\ i < L + n /\ i <= MaxText
    BY <1>1, <1>3a, <1>3
  <2>1. CASE i < c
    <3>1. i \in 0 .. c - 1 /\ i \in 0 .. L - 1
      BY <1>1, <1>3a, <2>0, <2>1
    <3> QED BY Zenon, <1>1, <1>9, <3>1
  <2>2. CASE c <= i /\ i < c + n
    <3>1. PICK k \in 1 .. Len(s) : k = i - c + 1
      <4>1. i - c + 1 \in 1 .. Len(s)
        BY <1>1, <1>3a, <2>0, <2>2
      <4> QED BY <4>1
    <3>2. i \in c .. c + n - 1
      BY <1>1, <1>3a, <2>0, <2>2
    <3> QED BY Zenon, <1>1, <1>10, <3>1, <3>2
  <2>3. CASE c + n <= i
    <3>1. i - n \in 0 .. L - 1 /\ i \in c + n .. L + n
      BY <1>1, <1>3a, <2>0, <2>3
    <3> QED BY Zenon, <1>1, <1>3a, <1>11, <3>1
  <2> QED BY <1>1, <1>3a, <2>0, <2>1, <2>2, <2>3
<1>14. d[L + n] = NUL
  <2>1. PICK k \in c + n .. L + n : k = L + n
    BY <1>1, <1>3a
  <2>2. k - n = L
    BY <1>1, <1>3a, <2>1
  <2> QED BY Zenon, <1>1, <1>11, <2>1, <2>2
<1>15. Holds(d, L + n)
  BY <1>1, <1>3a, <1>12, <1>13, <1>14 DEF Holds
<1>16. n = 0 => d = b
  <2> SUFFICES ASSUME n = 0 PROVE d = b
    OBVIOUS
  <2>1. \A i \in 0 .. MaxText : d[i] = b[i]
    <3> TAKE i \in 0 .. MaxText
    <3>1. i \in Nat /\ i - 0 = i /\ ~(c <= i /\ i < c + 0)
      BY <1>1, <1>3a
    <3> QED BY Zenon, <1>1, <1>3a, <1>8, <3>1
  <2> QED BY <1>1, <1>3a, <1>12, <2>1
<1>17. \A i \in c + n .. L + n - 1 : d[i] = b[i - n]
  <2> TAKE i \in c + n .. L + n - 1
  <2>1. i \in c + n .. L + n
    BY <1>1, <1>3a
  <2> QED BY <1>11, <2>1
<1> QED BY <1>3, <1>4, <1>9, <1>10, <1>15, <1>16, <1>17

\* A text that is not longer than the buffer has an end there, in characters.
TypesIn(t, c, u, d) ==
  \E n \in 1 .. MaxText - Len(t) : \E s \in [1 .. n -> Chars] :
     u = SubSeq(t, 1, c) \o s \o SubSeq(t, c + 1, Len(t)) /\ d = c + n
Erasing(t, c, u, d) ==
  c > 0 /\ u = SubSeq(t, 1, c - 1) \o SubSeq(t, c + 1, Len(t)) /\ d = c - 1
Deleting(t, c, u, d) == c < Len(t) /\ u = SubSeq(t, 1, c) \o Tail(SubSeq(t, c + 1, Len(t))) /\ d = c
Setting(t, c, u, d) == \E n \in 0 .. MaxText : u \in [1 .. n -> Chars] /\ d = n

\* A buffer into which a character was typed holds the text with it put in.
LEMMA TypesText ==
  ASSUME NEW b, NEW L, Holds(b, L), NEW c \in 0 .. L, NEW s \in Seq(Chars)
  PROVE  /\ \E K : Holds(TypedIn(b, c, s), K) /\ c + Room(b, s) \in 0 .. K
         /\ \/ Room(b, s) = 0 /\ TypedIn(b, c, s) = b
            \/ TypesIn(Shown(b), c, Shown(TypedIn(b, c, s)), c + Room(b, s))
<1>1. PICK n \in Nat :
            /\ n = Room(b, s) /\ n <= Len(s) /\ n <= MaxText - L
            /\ Holds(TypedIn(b, c, s), L + n)
            /\ \A i \in 0 .. c - 1 : TypedIn(b, c, s)[i] = b[i]
            /\ \A i \in c .. c + n - 1 : TypedIn(b, c, s)[i] = s[i - c + 1]
            /\ \A i \in c + n .. L + n - 1 : TypedIn(b, c, s)[i] = b[i - n]
            /\ n = 0 => TypedIn(b, c, s) = b
  BY TypedInIs
<1>2. PICK e : e = TypedIn(b, c, s)
  OBVIOUS
<1>3. /\ Holds(e, L + n) /\ n \in Nat /\ n <= Len(s) /\ n <= MaxText - L /\ n = Room(b, s)
      /\ \A i \in 0 .. c - 1 : e[i] = b[i]
      /\ \A i \in c .. c + n - 1 : e[i] = s[i - c + 1]
      /\ \A i \in c + n .. L + n - 1 : e[i] = b[i - n]
      /\ n = 0 => e = b
  BY <1>1, <1>2
<1>4. L \in Nat /\ c \in Nat /\ c <= L /\ MaxText \in Nat /\ L <= MaxText /\ Len(s) \in Nat
      /\ \A i \in 1 .. Len(s) : s[i] \in Chars
  BY TextAssumption DEF Holds
<1>4a. L \in Nat /\ c \in Nat /\ c <= L /\ n \in Nat
  BY <1>3, <1>4
<1>5. PICK t \in Seq(Chars) : t = Shown(b) /\ Len(t) = L /\ \A i \in 1 .. L : t[i] = b[i - 1]
  BY TextOf
<1>6. PICK K \in Nat : K = L + n
  BY <1>3, <1>4
<1>7. PICK u \in Seq(Chars) : u = Shown(e) /\ Len(u) = K /\ \A i \in 1 .. K : u[i] = e[i - 1]
  BY <1>3, <1>6, TextOf
<1>8. PICK w \in Seq(Chars) : w = [i \in 1 .. n |-> s[i]] /\ Len(w) = n /\ \A i \in 1 .. n : w[i] = s[i]
  <2>1. \A i \in 1 .. n : s[i] \in Chars
    BY <1>3, <1>4
  <2>2. PICK f : f = [i \in 1 .. n |-> s[i]]
    BY Zenon
  <2>3. f \in [1 .. n -> Chars] /\ \A i \in 1 .. n : f[i] = s[i]
    BY <2>1, <2>2
  <2>4. f \in Seq(Chars)
    BY <1>4a, <2>3, SeqDef
  <2>5. DOMAIN f = 1 .. n
    BY <2>3
  <2>6. Len(f) = n
    BY <1>4a, <2>4, <2>5, LenProperties
  <2> QED BY Zenon, <2>2, <2>3, <2>4, <2>6
<1>9. u = SubSeq(t, 1, c) \o w \o SubSeq(t, c + 1, Len(t))
  <2>1. \A i \in 1 .. c : u[i] = t[i]
    <3> TAKE i \in 1 .. c
    <3>1. i - 1 \in 0 .. c - 1 /\ i \in 1 .. L /\ i \in 1 .. K
      BY <1>3, <1>4, <1>6
    <3> QED BY Zenon, <1>3, <1>5, <1>7, <3>1
  <2>2. \A i \in 1 .. Len(w) : u[c + i] = w[i]
    <3> TAKE i \in 1 .. Len(w)
    <3>1. PICK k \in c .. c + n - 1 : k = c + i - 1
      <4>1. c + i - 1 \in c .. c + n - 1
        BY <1>3, <1>4, <1>8
      <4> QED BY <4>1
    <3>2. k - c + 1 = i /\ c + i \in 1 .. K /\ i \in 1 .. n /\ c + i - 1 = k
      BY <1>3, <1>4, <1>6, <1>8, <3>1
    <3>3. e[k] = s[i]
      BY <1>3, <3>1, <3>2
    <3>4. PICK j \in 1 .. K : j = c + i
      BY <3>2
    <3>5. u[j] = e[k]
      <4>1. j - 1 = k
        BY <3>2, <3>4
      <4> QED BY Zenon, <1>7, <4>1
    <3> QED BY <1>8, <3>2, <3>3, <3>4, <3>5
  <2>3. \A i \in c + 1 .. Len(t) : u[Len(w) + i] = t[i]
    <3> TAKE i \in c + 1 .. Len(t)
    <3>1. PICK k \in c + n .. L + n - 1 : k = n + i - 1
      <4>1. n + i - 1 \in c + n .. L + n - 1
        BY <1>3, <1>4, <1>5
      <4> QED BY <4>1
    <3>0. i \in Nat /\ c + 1 <= i /\ i <= L
      BY <1>4, <1>5
    <3>2. k - n = i - 1 /\ n + i \in 1 .. K /\ n + i - 1 = k /\ i \in 1 .. L
      BY <1>4a, <1>6, <3>0, <3>1
    <3>3. e[k] = b[i - 1]
      BY Zenon, <1>3, <3>1, <3>2
    <3>4. PICK j \in 1 .. K : j = n + i
      BY <3>2
    <3>5. u[j] = e[k]
      <4>1. j - 1 = k
        BY <3>2, <3>4
      <4> QED BY Zenon, <1>7, <4>1
    <3> QED BY Zenon, <1>5, <1>8, <3>2, <3>3, <3>4, <3>5
  <2>4. Len(u) = Len(t) + Len(w) /\ c \in 0 .. Len(t)
    BY <1>4, <1>5, <1>6, <1>7, <1>8
  <2>5. IsPut(t, w, u, c)
    BY <2>1, <2>2, <2>3, <2>4 DEF IsPut
  <2> QED BY Zenon, <1>5, <1>7, <1>8, <2>4, <2>5, PutText
<1>10. n # 0 => TypesIn(t, c, u, c + n)
  <2> SUFFICES ASSUME n # 0 PROVE TypesIn(t, c, u, c + n)
    OBVIOUS
  <2>1. n \in 1 .. MaxText - Len(t) /\ w \in [1 .. n -> Chars]
    BY <1>3, <1>4, <1>5, <1>8
  <2> QED BY Zenon, <1>9, <2>1 DEF TypesIn
<1>11. c + n \in 0 .. K
  BY <1>3, <1>4, <1>6
<1> QED BY <1>2, <1>3, <1>5, <1>6, <1>7, <1>10, <1>11

\* A buffer that was closed up holds the text without the character.
LEMMA ClosesText ==
  ASSUME NEW b, NEW L, Holds(b, L), NEW c \in 0 .. L - 1
  PROVE  /\ Holds(ClosedUp(b, c), L - 1)
         /\ Deleting(Shown(b), c, Shown(ClosedUp(b, c)), c)
         /\ Erasing(Shown(b), c + 1, Shown(ClosedUp(b, c)), c)
<1>1. PICK e : e = ClosedUp(b, c)
  OBVIOUS
<1>2. /\ Holds(e, L - 1)
      /\ \A i \in 0 .. c - 1 : e[i] = b[i]
      /\ \A i \in c .. L - 2 : e[i] = b[i + 1]
  BY <1>1, ClosedUpIs
<1>3. L \in Nat /\ c \in Nat /\ c < L
  BY TextAssumption DEF Holds
<1>4. PICK K \in Nat : K = L - 1
  BY <1>3
<1>5. PICK t \in Seq(Chars) : t = Shown(b) /\ Len(t) = L /\ \A i \in 1 .. L : t[i] = b[i - 1]
  BY TextOf
<1>6. PICK u \in Seq(Chars) : u = Shown(e) /\ Len(u) = K /\ \A i \in 1 .. K : u[i] = e[i - 1]
  BY <1>2, <1>4, TextOf
<1>7. \A i \in 1 .. c : u[i] = t[i]
  <2> TAKE i \in 1 .. c
  <2>1. i - 1 \in 0 .. c - 1 /\ i \in 1 .. L /\ i \in 1 .. K
    BY <1>3, <1>4
  <2> QED BY Zenon, <1>2, <1>5, <1>6, <2>1
<1>8. \A i \in c + 1 .. Len(t) - 1 : u[i] = t[i + 1]
  <2> TAKE i \in c + 1 .. Len(t) - 1
  <2>1. PICK k \in c .. L - 2 : k = i - 1
    <3>1. i - 1 \in c .. L - 2
      BY <1>3, <1>5
    <3> QED BY <3>1
  <2>2. k + 1 = i /\ i \in 1 .. K /\ i + 1 \in 1 .. L /\ i + 1 - 1 = i
    BY <1>3, <1>4, <1>5, <2>1
  <2>3. u[i] = e[k] /\ e[k] = b[i] /\ t[i + 1] = b[i]
    BY <1>2, <1>5, <1>6, <2>1, <2>2
  <2> QED BY <2>3
<1>9. PICK d : d = c + 1
  OBVIOUS
<1>10. /\ d \in 1 .. Len(t) /\ c \in 0 .. Len(t) - 1 /\ Len(u) = Len(t) - 1 /\ d - 1 = c /\ d > 0
       /\ c < Len(t)
  BY <1>3, <1>4, <1>5, <1>6, <1>9
<1>11. \A i \in 1 .. d - 1 : u[i] = t[i]
  BY <1>7, <1>10
<1>12. \A i \in d .. Len(t) - 1 : u[i] = t[i + 1]
  BY <1>8, <1>9
<1>13. Erasing(t, d, u, c)
  BY Zenon, <1>10, <1>11, <1>12, ErasedText DEF Erasing
<1>14. Deleting(t, c, u, c)
  <2>1. c \in 0 .. Len(t) - 1 /\ Len(u) = Len(t) - 1 /\ c < Len(t)
    BY <1>10
  <2>2. u = SubSeq(t, 1, c) \o Tail(SubSeq(t, c + 1, Len(t)))
    BY Zenon, <1>7, <1>8, <2>1, DeletedText
  <2> QED BY Zenon, <2>1, <2>2 DEF Deleting
<1> QED BY <1>1, <1>2, <1>5, <1>6, <1>9, <1>13, <1>14

\* A buffer that was filled anew holds the text and the cursor behind it.
LEMMA SetsText ==
  ASSUME NEW s \in Seq(Chars), NEW n \in 0 .. MaxText, n <= Len(s), NEW b,
         b = [i \in 0 .. MaxText |-> IF i < n THEN s[i + 1] ELSE NUL]
  PROVE  Holds(b, n) /\ Shown(b) \in [1 .. n -> Chars]
<1>1. n \in Nat /\ MaxText \in Nat /\ n <= MaxText /\ Len(s) \in Nat /\ \A i \in 1 .. Len(s) : s[i] \in Chars
  BY TextAssumption
<1>2. \A i \in 0 .. n - 1 : b[i] \in Chars
  <2> TAKE i \in 0 .. n - 1
  <2>1. i \in 0 .. MaxText /\ i < n /\ i + 1 \in 1 .. Len(s)
    BY <1>1
  <2> QED BY <1>1, <2>1
<1>3. b[n] = NUL
  BY <1>1
<1>4. b \in [0 .. MaxText -> Chars \cup {NUL}]
  <2>1. ASSUME NEW i \in 0 .. MaxText
        PROVE  b[i] \in Chars \cup {NUL}
    <3>1. CASE i < n
      <4>1. i \in 0 .. n - 1
        BY <1>1, <3>1
      <4> QED BY <1>2, <4>1
    <3>2. CASE ~(i < n)
      BY <3>2
    <3> QED BY <3>1, <3>2
  <2> QED BY <2>1
<1>5. Holds(b, n)
  BY <1>2, <1>3, <1>4 DEF Holds
<1>6. PICK t \in Seq(Chars) : t = Shown(b) /\ Len(t) = n
  BY Zenon, <1>5, TextOf
<1>7. t \in [1 .. n -> Chars]
  <2>1. t \in [1 .. Len(t) -> Chars]
    OBVIOUS
  <2> QED BY Zenon, <1>6, <2>1
<1> QED BY <1>5, <1>6, <1>7

\* The empty buffer holds the empty text.
LEMMA NoText == Holds(EmptyBuffer, 0) /\ Shown(EmptyBuffer) \in [1 .. 0 -> Chars] /\ Shown(EmptyBuffer) = <<>>
<1>1. MaxText \in Nat
  BY TextAssumption
<1>2. Holds(EmptyBuffer, 0)
  BY <1>1 DEF Holds, EmptyBuffer
<1>3. PICK t \in Seq(Chars) : t = Shown(EmptyBuffer) /\ Len(t) = 0
  BY <1>2, TextOf
<1>4. t \in [1 .. 0 -> Chars]
  <2>1. t \in [1 .. Len(t) -> Chars]
    OBVIOUS
  <2> QED BY <1>3, <2>1
<1>5. t = <<>>
  BY <1>3, EmptySeq
<1> QED BY <1>2, <1>3, <1>4, <1>5

\* The cursor is in the text.
IsLine(b, c) == \E L : Holds(b, L) /\ c \in 0 .. L
BoxTypes == box \in [buffer : [0 .. MaxText -> Chars \cup {NUL}], cursor : Nat,
                     multiline : BOOLEAN, read_only : BOOLEAN]
BoxInv    == BoxTypes /\ IsLine(box.buffer, box.cursor)
EditorInv == IsLine(editor.buffer, editor.cursor)

Moving(t, c, u, d) == d \in {c - 1, c + 1, 0, Len(t)} \cap 0 .. Len(t) /\ u = t
EditStep(t, c, u, d) == \/ u = t /\ d = c
                        \/ Moving(t, c, u, d) \/ TypesIn(t, c, u, d) \/ Erasing(t, c, u, d)
                        \/ Deleting(t, c, u, d) \/ Setting(t, c, u, d)

\* What a buffer that holds a line is made of.
LEMMA LineTypes ==
  ASSUME NEW b, NEW c, IsLine(b, c)
  PROVE  b \in [0 .. MaxText -> Chars \cup {NUL}] /\ c \in Nat
  BY TextAssumption DEF IsLine, Holds

\* A box that gets a buffer and a cursor
LEMMA BoxGets ==
  ASSUME BoxTypes, NEW b, NEW c, IsLine(b, c), box' = [box EXCEPT !.buffer = b, !.cursor = c]
  PROVE  BoxInv' /\ box'.buffer = b /\ box'.cursor = c
<1>1. b \in [0 .. MaxText -> Chars \cup {NUL}] /\ c \in Nat
  BY LineTypes
<1>2. BoxTypes' /\ box'.buffer = b /\ box'.cursor = c
  BY Zenon, <1>1 DEF BoxTypes
<1> QED BY <1>2 DEF BoxInv

\* textbox_insert: the characters that fit are put in at the cursor.
LEMMA InsertStep ==
  ASSUME BoxInv, NEW s \in Seq(Chars), TbInsert(s)
  PROVE  BoxInv' /\ EditStep(Shown(box.buffer), box.cursor, Shown(box'.buffer), box'.cursor)
<1>1. PICK b, c : b = box.buffer /\ c = box.cursor
  OBVIOUS
<1>2. PICK L : Holds(b, L) /\ c \in 0 .. L
  BY <1>1 DEF BoxInv, IsLine
<1>3. box' = [box EXCEPT !.buffer = TypedIn(b, c, s), !.cursor = c + Room(b, s)]
  BY <1>1 DEF TbInsert, BoxInv, BoxTypes
<1>4. /\ \E K : Holds(TypedIn(b, c, s), K) /\ c + Room(b, s) \in 0 .. K
      /\ \/ Room(b, s) = 0 /\ TypedIn(b, c, s) = b
         \/ TypesIn(Shown(b), c, Shown(TypedIn(b, c, s)), c + Room(b, s))
  BY <1>2, TypesText
<1>5. PICK e, d : e = TypedIn(b, c, s) /\ d = c + Room(b, s)
  OBVIOUS
<1>6. IsLine(e, d)
  BY <1>4, <1>5 DEF IsLine
<1>7. box' = [box EXCEPT !.buffer = e, !.cursor = d]
  BY <1>3, <1>5
<1>8. BoxInv' /\ box'.buffer = e /\ box'.cursor = d
  BY Zenon, <1>6, <1>7, BoxGets DEF BoxInv
<1>9. Room(b, s) = 0 => d = c
  BY <1>1, <1>5 DEF BoxInv, BoxTypes
<1> QED BY <1>1, <1>4, <1>5, <1>8, <1>9 DEF EditStep

\* Every call of the text box is an edit of its line.
LEMMA BoxStep ==
  BoxInv /\ TextBoxCalls =>
     BoxInv' /\ EditStep(Shown(box.buffer), box.cursor, Shown(box'.buffer), box'.cursor)
<1> SUFFICES ASSUME BoxInv, TextBoxCalls
             PROVE  BoxInv' /\ EditStep(Shown(box.buffer), box.cursor, Shown(box'.buffer), box'.cursor)
  OBVIOUS
<1>a. PICK b, c : b = box.buffer /\ c = box.cursor
  OBVIOUS
<1>b. PICK L : Holds(b, L) /\ c \in 0 .. L
  BY <1>a DEF BoxInv, IsLine
<1>c. PICK t \in Seq(Chars) : t = Shown(b) /\ Len(t) = L /\ Strlen(b) = L
  BY <1>b, TextOf
<1>d. BoxTypes /\ b \in [0 .. MaxText -> Chars \cup {NUL}] /\ c \in Nat /\ L \in Nat /\ L <= MaxText
      /\ c <= L /\ MaxText \in Nat
  BY <1>a, <1>b, TextAssumption DEF BoxInv, BoxTypes, Holds
<1>1. ASSUME NEW s \in Texts, TbInsert(s)
      PROVE  BoxInv' /\ EditStep(Shown(box.buffer), box.cursor, Shown(box'.buffer), box'.cursor)
  <2>1. s \in Seq(Chars)
    BY TextAssumption
  <2> QED BY <1>1, <2>1, InsertStep
<1>2. ASSUME NEW s \in Texts, TbSetText(s)
      PROVE  BoxInv' /\ EditStep(Shown(box.buffer), box.cursor, Shown(box'.buffer), box'.cursor)
  <2>1. s \in Seq(Chars)
    BY TextAssumption
  <2>2. PICK z : z = {Len(s), MaxText}
    BY Zenon
  <2>3. PICK n : n = Min(z)
    OBVIOUS
  <2>4. n \in 0 .. MaxText /\ n <= Len(s)
    <3>1. z \in SUBSET Nat /\ z # {} /\ Len(s) \in z /\ MaxText \in z
      BY <1>d, <2>1, <2>2
    <3>2. n \in z /\ n <= Len(s) /\ n <= MaxText
      BY <2>3, <3>1, Least
    <3> QED BY <1>d, <3>1, <3>2
  <2>5. PICK e : e = [i \in 0 .. MaxText |-> IF i < n THEN s[i + 1] ELSE NUL]
    BY Zenon
  <2>6. box' = [box EXCEPT !.buffer = e, !.cursor = n]
    BY <1>2, <2>2, <2>3, <2>5 DEF TbSetText
  <2>7. Holds(e, n) /\ Shown(e) \in [1 .. n -> Chars]
    BY Zenon, <2>1, <2>4, <2>5, SetsText
  <2>8. IsLine(e, n)
    BY <2>4, <2>7 DEF IsLine
  <2>9. BoxInv' /\ box'.buffer = e /\ box'.cursor = n
    BY Zenon, <1>d, <2>6, <2>8, BoxGets
  <2> QED BY <2>4, <2>7, <2>9 DEF EditStep, Setting
<1>3. ASSUME NEW m \in BOOLEAN, TbSetMultiline(m) \/ TbSetReadonly(m)
      PROVE  BoxInv' /\ EditStep(Shown(box.buffer), box.cursor, Shown(box'.buffer), box'.cursor)
  <2>1. box'.buffer = box.buffer /\ box'.cursor = box.cursor /\ BoxTypes'
    BY Zenon, <1>3, <1>d DEF TbSetMultiline, TbSetReadonly, BoxTypes
  <2> QED BY <2>1 DEF EditStep, BoxInv
<1>4. ASSUME NEW k \in DOMAIN KEY, TbHandleKey(KEY[k])
      PROVE  BoxInv' /\ EditStep(Shown(box.buffer), box.cursor, Shown(box'.buffer), box'.cursor)
  <2>1. ASSUME NEW d \in {c - 1, c + 1, 0, L}, d \in 0 .. L, box' = [box EXCEPT !.cursor = d]
        PROVE  BoxInv' /\ EditStep(Shown(box.buffer), box.cursor, Shown(box'.buffer), box'.cursor)
    <3>1. d \in Nat /\ IsLine(b, d)
      BY <1>b, <1>d, <2>1 DEF IsLine
    <3>2. box'.buffer = b /\ box'.cursor = d /\ BoxTypes'
      BY Zenon, <1>a, <1>d, <2>1, <3>1 DEF BoxTypes
    <3>3. Moving(t, c, t, d)
      BY <1>c, <2>1 DEF Moving
    <3> QED BY <1>a, <1>c, <3>1, <3>2, <3>3 DEF BoxInv, EditStep
  <2>2. CASE \/ box.cursor > 0 /\ box' = [box EXCEPT !.cursor = box.cursor - 1]
             \/ box.cursor < L /\ box' = [box EXCEPT !.cursor = box.cursor + 1]
             \/ box' = [box EXCEPT !.cursor = 0]
             \/ box' = [box EXCEPT !.cursor = L]
    <3>1. PICK d \in {c - 1, c + 1, 0, L} : d \in 0 .. L /\ box' = [box EXCEPT !.cursor = d]
      BY <1>a, <1>d, <2>2
    <3> QED BY Zenon, <2>1, <3>1
  <2>3. CASE /\ box.cursor > 0
             /\ box' = [box EXCEPT !.buffer = ClosedUp(@, box.cursor - 1), !.cursor = @ - 1]
    <3>1. PICK d \in 0 .. L - 1 : d = c - 1
      BY <1>a, <1>d, <2>3
    <3>2. d + 1 = c
      BY <1>d, <3>1
    <3>3. PICK e : e = ClosedUp(b, d)
      OBVIOUS
    <3>4. box' = [box EXCEPT !.buffer = e, !.cursor = d]
      BY <1>a, <1>d, <2>3, <3>1, <3>3 DEF BoxTypes
    <3>5. Holds(e, L - 1) /\ Erasing(t, c, Shown(e), d)
      BY <1>b, <1>c, <3>2, <3>3, ClosesText
    <3>6. IsLine(e, d)
      BY <3>5 DEF IsLine
    <3>7. BoxInv' /\ box'.buffer = e /\ box'.cursor = d
      BY Zenon, <1>d, <3>4, <3>6, BoxGets
    <3> QED BY <1>a, <1>c, <3>5, <3>7 DEF EditStep
  <2>4. CASE box.cursor < L /\ box' = [box EXCEPT !.buffer = ClosedUp(@, box.cursor)]
    <3>1. c \in 0 .. L - 1
      BY <1>a, <1>d, <2>4
    <3>3. PICK e : e = ClosedUp(b, c)
      OBVIOUS
    <3>4. box' = [box EXCEPT !.buffer = e, !.cursor = c]
      BY Zenon, <1>a, <1>d, <2>4, <3>3 DEF BoxTypes
    <3>5. Holds(e, L - 1) /\ Deleting(t, c, Shown(e), c)
      BY <1>b, <1>c, <3>1, <3>3, ClosesText
    <3>6. IsLine(e, c)
      BY <3>1, <3>5 DEF IsLine
    <3>7. BoxInv' /\ box'.buffer = e /\ box'.cursor = c
      BY Zenon, <1>d, <3>4, <3>6, BoxGets
    <3> QED BY <1>a, <1>c, <3>5, <3>7 DEF EditStep
  <2>5. CASE TbInsert(<<"nl">>)
    <3>1. <<"nl">> \in Seq(Chars)
      BY TextAssumption
    <3> QED BY Zenon, <2>5, <3>1, InsertStep
  <2>6. CASE \E x \in Chars : TbInsert(<<x>>)
    <3>1. PICK x \in Chars : TbInsert(<<x>>)
      BY <2>6
    <3>2. <<x>> \in Seq(Chars)
      OBVIOUS
    <3> QED BY Zenon, <3>1, <3>2, InsertStep
  <2>7. CASE box' = box
    BY <2>7 DEF BoxInv, BoxTypes, EditStep
  <2>8. Strlen(box.buffer) = L
    BY <1>a, <1>c
  <2> QED BY <1>4, <2>2, <2>3, <2>4, <2>5, <2>6, <2>7, <2>8, Zenon DEF TbHandleKey
<1> QED BY <1>1, <1>2, <1>3, <1>4 DEF TextBoxCalls

\* Every key of the editor is an edit of its line.
LEMMA EditorStep ==
  EditorInv /\ EditorCalls =>
     EditorInv' /\ EditStep(Shown(editor.buffer), editor.cursor, Shown(editor'.buffer), editor'.cursor)
<1> SUFFICES ASSUME EditorInv, EditorCalls
             PROVE  /\ EditorInv'
                    /\ EditStep(Shown(editor.buffer), editor.cursor, Shown(editor'.buffer), editor'.cursor)
  OBVIOUS
<1>a. PICK b, c : b = editor.buffer /\ c = editor.cursor
  OBVIOUS
<1>b. PICK L : Holds(b, L) /\ c \in 0 .. L
  BY <1>a DEF EditorInv, IsLine
<1>c. PICK t \in Seq(Chars) : t = Shown(b) /\ Len(t) = L /\ Strlen(b) = L
  BY <1>b, TextOf
<1>d. c \in Nat /\ L \in Nat /\ L <= MaxText /\ c <= L /\ MaxText \in Nat
  BY <1>a, <1>b, TextAssumption DEF Holds
<1>1. ASSUME EditorBackspace
      PROVE  /\ EditorInv'
             /\ EditStep(Shown(editor.buffer), editor.cursor, Shown(editor'.buffer), editor'.cursor)
  <2>1. PICK d \in 0 .. L - 1 : d = c - 1
    BY <1>1, <1>a, <1>d DEF EditorBackspace
  <2>2. d + 1 = c
    BY <1>d, <2>1
  <2>3. PICK e : e = ClosedUp(b, d)
    OBVIOUS
  <2>4. editor'.buffer = e /\ editor'.cursor = d
    BY <1>1, <1>a, <2>1, <2>3 DEF EditorBackspace
  <2>5. Holds(e, L - 1) /\ Erasing(t, c, Shown(e), d)
    BY <1>b, <1>c, <2>2, <2>3, ClosesText
  <2>6. IsLine(e, d)
    BY <2>5 DEF IsLine
  <2> QED BY <1>a, <1>c, <2>4, <2>5, <2>6 DEF EditorInv, EditStep
<1>2. ASSUME EditorNew
      PROVE  /\ EditorInv'
             /\ EditStep(Shown(editor.buffer), editor.cursor, Shown(editor'.buffer), editor'.cursor)
  <2>1. editor'.buffer = EmptyBuffer /\ editor'.cursor = 0
    BY <1>2 DEF EditorNew
  <2>2. IsLine(EmptyBuffer, 0)
    BY NoText DEF IsLine
  <2>3. Setting(t, c, Shown(EmptyBuffer), 0)
    BY <1>d, NoText DEF Setting
  <2> QED BY <1>a, <1>c, <2>1, <2>2, <2>3 DEF EditorInv, EditStep
<1>3. ASSUME NEW x \in Chars, EditorKey(x)
      PROVE  /\ EditorInv'
             /\ EditStep(Shown(editor.buffer), editor.cursor, Shown(editor'.buffer), editor'.cursor)
  <2>0. <<x>> \in Seq(Chars) /\ Len(<<x>>) = 1
    OBVIOUS
  <2>1. PICK s \in Seq(Chars) : s = <<x>> /\ Len(s) = 1
    BY Zenon, <2>0
  <2>2. Strlen(b) < MaxText
    BY <1>3, <1>a DEF EditorKey
  <2>3. Room(b, s) = 1
    <3>1. PICK z : z = {Len(s), MaxText - Strlen(b)}
      BY Zenon
    <3>2. z \in SUBSET Nat /\ z # {} /\ 1 \in z /\ \A y \in z : y >= 1
      BY <1>c, <1>d, <2>1, <2>2, <3>1
    <3>3. Min(z) \in z /\ Min(z) <= 1
      BY <3>2, Least
    <3>4. Min(z) = 1
      <4>1. Min(z) \in Nat /\ Min(z) >= 1 /\ Min(z) <= 1
        BY Zenon, <3>2, <3>3
      <4> QED BY <4>1
    <3> QED BY <3>1, <3>4 DEF Room
  <2>4. PICK e, d : e = TypedIn(b, c, s) /\ d = c + Room(b, s)
    OBVIOUS
  <2>5. editor'.buffer = e /\ editor'.cursor = d
    BY <1>3, <1>a, <2>1, <2>3, <2>4 DEF EditorKey
  <2>6. /\ \E K : Holds(TypedIn(b, c, s), K) /\ c + Room(b, s) \in 0 .. K
        /\ \/ Room(b, s) = 0 /\ TypedIn(b, c, s) = b
           \/ TypesIn(Shown(b), c, Shown(TypedIn(b, c, s)), c + Room(b, s))
    BY <1>b, TypesText
  <2>7. IsLine(e, d) /\ TypesIn(t, c, Shown(e), d)
    BY <1>c, <2>3, <2>4, <2>6 DEF IsLine
  <2> QED BY <1>a, <1>c, <2>5, <2>7 DEF EditorInv, EditStep
<1> QED BY <1>1, <1>2, <1>3 DEF EditorCalls

\* Only the part that was chosen takes steps.
LEMMA OnePart ==
  ASSUME [Next]_vars
  PROVE  /\ UNCHANGED timerVars \/ TimersNext
         /\ UNCHANGED appVars \/ AppsNext
         /\ UNCHANGED textVars \/ TextBoxCalls \/ EditorCalls
         /\ UNCHANGED regionVars \/ RegionNext
         /\ UNCHANGED toolkitVars \/ WidgetNext
         /\ UNCHANGED listVars \/ ListNext
         /\ UNCHANGED combo \/ ComboNext
         /\ UNCHANGED <<tree, live, lost>> \/ TreeNext
         /\ UNCHANGED taskbarVars \/ TaskbarNext
         /\ UNCHANGED layoutVars \/ LayoutNext
         /\ UNCHANGED cacheVars \/ GlyphCacheNext
         /\ UNCHANGED imageVars \/ ImagesNext \/ ColumnsNext \/ RowsNext
<1> USE DEF KeepDrawing, KeepWidgets, KeepPrograms, KeepFonts, viewVars
<1>1. CASE UNCHANGED vars
  BY <1>1 DEF vars
<1>2. CASE Next
  <2>1. CASE Drawing
    BY <2>1 DEF Drawing
  <2>2. CASE Typing
    BY <2>2 DEF Typing
  <2>3. CASE Toolkits
    BY <2>3 DEF Toolkits
  <2>4. CASE ViewsStep
    BY <2>4 DEF ViewsStep
  <2>5. CASE Running
    BY <2>5 DEF Running
  <2>6. CASE Fonts
    BY <2>6 DEF Fonts
  <2>7. CASE Pictures
    BY <2>7 DEF Pictures
  <2> QED BY <1>2, <2>1, <2>2, <2>3, <2>4, <2>5, <2>6, <2>7 DEF Next
<1> QED BY <1>1, <1>2

\* An edit of a buffer is one of an editor of a line.
LEMMA BoxImplements ==
  ASSUME EditStep(Shown(box.buffer), box.cursor, Shown(box'.buffer), box'.cursor)
  PROVE  [BoxLine!Move \/ BoxLine!Put \/ BoxLine!Erase \/ BoxLine!Delete \/ BoxLine!Set]_<<Shown(box.buffer), box.cursor>>
<1>1. CASE Moving(Shown(box.buffer), box.cursor, Shown(box'.buffer), box'.cursor)
  BY <1>1 DEF Moving, BoxLine!Move
<1>2. CASE TypesIn(Shown(box.buffer), box.cursor, Shown(box'.buffer), box'.cursor)
  BY <1>2, Zenon DEF TypesIn, BoxLine!Put, BoxLine!Before, BoxLine!After
<1>3. CASE Erasing(Shown(box.buffer), box.cursor, Shown(box'.buffer), box'.cursor)
  BY <1>3, Zenon DEF Erasing, BoxLine!Erase, BoxLine!After
<1>4. CASE Deleting(Shown(box.buffer), box.cursor, Shown(box'.buffer), box'.cursor)
  BY <1>4, Zenon DEF Deleting, BoxLine!Delete, BoxLine!Before, BoxLine!After
<1>5. CASE Setting(Shown(box.buffer), box.cursor, Shown(box'.buffer), box'.cursor)
  BY <1>5, Zenon DEF Setting, BoxLine!Set
<1>6. CASE Shown(box'.buffer) = Shown(box.buffer) /\ box'.cursor = box.cursor
  <2>1. Shown(box.buffer)' = Shown(box'.buffer)
    BY DEF Shown, Strlen
  <2> QED BY <1>6, <2>1
<1> QED BY <1>1, <1>2, <1>3, <1>4, <1>5, <1>6 DEF EditStep

\* An edit of the buffer of the editor is one of an editor of a line.
LEMMA EditorImplements ==
  ASSUME EditStep(Shown(editor.buffer), editor.cursor, Shown(editor'.buffer), editor'.cursor)
  PROVE  [\/ EditorLine!Move \/ EditorLine!Put \/ EditorLine!Erase
          \/ EditorLine!Delete \/ EditorLine!Set]_<<Shown(editor.buffer), editor.cursor>>
<1>1. CASE Moving(Shown(editor.buffer), editor.cursor, Shown(editor'.buffer), editor'.cursor)
  BY <1>1 DEF Moving, EditorLine!Move
<1>2. CASE TypesIn(Shown(editor.buffer), editor.cursor, Shown(editor'.buffer), editor'.cursor)
  BY <1>2, Zenon DEF TypesIn, EditorLine!Put, EditorLine!Before, EditorLine!After
<1>3. CASE Erasing(Shown(editor.buffer), editor.cursor, Shown(editor'.buffer), editor'.cursor)
  BY <1>3, Zenon DEF Erasing, EditorLine!Erase, EditorLine!After
<1>4. CASE Deleting(Shown(editor.buffer), editor.cursor, Shown(editor'.buffer), editor'.cursor)
  BY <1>4, Zenon DEF Deleting, EditorLine!Delete, EditorLine!Before, EditorLine!After
<1>5. CASE Setting(Shown(editor.buffer), editor.cursor, Shown(editor'.buffer), editor'.cursor)
  BY <1>5, Zenon DEF Setting, EditorLine!Set
<1>6. CASE Shown(editor'.buffer) = Shown(editor.buffer) /\ editor'.cursor = editor.cursor
  BY <1>6
<1> QED BY <1>1, <1>2, <1>3, <1>4, <1>5, <1>6 DEF EditStep

-----------------------------------------------------------------------------
(* The taskbar.                                                            *)

TaskbarInv == screen_width \in ScreenWidths /\ \E n \in Nat : DOMAIN window_list = 1 .. n
              /\ window_list = [i \in 1 .. n |-> window_list[i]]

\* At the start the list of windows is empty.
LEMMA TaskbarStart == TaskbarInit => TaskbarInv
  BY DEF TaskbarInit, TaskbarInv

\* The list of windows has each of them once, whatever is opened, raised and closed.
LEMMA TaskbarStep == TaskbarInv /\ TaskbarNext => TaskbarInv'
<1> SUFFICES ASSUME TaskbarInv, TaskbarNext PROVE TaskbarInv'
  OBVIOUS
<1>1. PICK S : window_list \in Seq(S)
  <2>1. PICK n \in Nat : DOMAIN window_list = 1 .. n /\ window_list = [i \in 1 .. n |-> window_list[i]]
    BY DEF TaskbarInv
  <2>2. PICK S : S = {window_list[i] : i \in 1 .. n}
    BY Zenon
  <2>3. window_list \in Seq(S)
    BY <2>1, <2>2
  <2> QED BY <2>3
<1>2. ASSUME NEW R, NEW s \in Seq(R), window_list' = s, screen_width' = screen_width
      PROVE  TaskbarInv'
  <2>1. Len(s) \in Nat /\ DOMAIN s = 1 .. Len(s) /\ s = [i \in 1 .. Len(s) |-> s[i]]
    OBVIOUS
  <2> QED BY <1>2, <2>1 DEF TaskbarInv
<1>3. ASSUME NEW w, WmList(w)
      PROVE  TaskbarInv'
  <2>1. CASE window_list' = Append(window_list, w)
    <3>1. Append(window_list, w) \in Seq(S \cup {w})
      BY <1>1
    <3> QED BY Zenon, <1>2, <1>3, <2>1, <3>1 DEF WmList
  <2>2. CASE \E i \in DOMAIN window_list : window_list' = RemoveAt(window_list, i)
    <3>1. PICK i \in 1 .. Len(window_list) : window_list' = RemoveAt(window_list, i)
      BY <1>1, <2>2
    <3>2. PICK k \in 0 .. Len(window_list) : k = i - 1
      BY <1>1, <3>1
    <3>3. PICK a \in Seq(S) : IsBefore(a, window_list, k)
      BY <1>1, TextBefore
    <3>4. PICK b \in Seq(S) : IsAfter(b, window_list, i)
      <4>1. i \in 0 .. Len(window_list)
        BY <1>1, <3>1
      <4> QED BY <1>1, <4>1, TextAfter
    <3>5. window_list' = a \o b
      BY <3>1, <3>2, <3>3, <3>4 DEF IsBefore, IsAfter, RemoveAt
    <3>6. a \o b \in Seq(S)
      BY ConcatProperties
    <3> QED BY Zenon, <1>2, <1>3, <3>5, <3>6 DEF WmList
  <2> QED BY <1>3, <2>1, <2>2 DEF WmList
<1>4. ASSUME NEW w, WmState(w)
      PROVE  TaskbarInv'
  BY <1>4 DEF WmState, TaskbarInv
<1>5. ASSUME NEW x, NEW b, DesktopShellClick(x, b)
      PROVE  TaskbarInv'
  BY <1>5 DEF DesktopShellClick, TaskbarInv
<1> QED BY <1>3, <1>4, <1>5 DEF TaskbarNext

\* The buttons that are drawn are the first ones.
LEMMA DrawnAre ==
  ASSUME TaskbarInv
  PROVE  /\ screen_width \in Nat /\ screen_width > 64
         /\ \E n, k \in Nat : /\ Buttons = 1 .. n /\ Drawn = 1 .. k /\ k <= n
                              /\ Cardinality(Drawn) = k
<1>1. screen_width \in Nat /\ screen_width > 64
  BY TaskbarAssumption DEF TaskbarInv, StartEnd
<1>2. PICK n \in Nat : n = Cardinality(OnTaskbar) /\ Buttons = 1 .. n
  <2>1. PICK m \in Nat : DOMAIN window_list = 1 .. m
    BY DEF TaskbarInv
  <2>2. OnTaskbar \subseteq 1 .. m
    BY <2>1 DEF OnTaskbar
  <2>3. IsFiniteSet(1 .. m)
    BY FS_Interval
  <2>4. Cardinality(OnTaskbar) \in Nat
    BY Zenon, <2>2, <2>3, FS_Subset, FS_CardinalityType
  <2> QED BY <2>4 DEF Buttons
<1>3. \A i \in 1 .. n : i \in Drawn <=> 74 + (i - 1) * 122 + 120 <= screen_width - 90
  BY <1>1, <1>2 DEF Drawn, DrawnAt, FirstBtn, StartEnd, Step, BtnWidth, BtnGap, ClockX
<1>4. Drawn \subseteq 1 .. n
  BY <1>2 DEF Drawn
<1>5. PICK d \in Int : d = (screen_width - 162) \div 122
  BY <1>1
<1>6. \A i \in 1 .. n : i \in Drawn <=> i <= d
  <2> TAKE i \in 1 .. n
  <2>1. i \in Nat
    BY <1>2
  <2>2. 74 + (i - 1) * 122 + 120 <= screen_width - 90 <=> i <= d
    BY <1>1, <1>5, <2>1
  <2> QED BY <1>3, <2>2
<1>7. PICK k \in Nat : k = IF d <= 0 THEN 0 ELSE IF d <= n THEN d ELSE n
  BY <1>5
<1>8. Drawn = 1 .. k /\ k <= n
  <2>1. k <= n /\ \A i \in 1 .. n : i <= d <=> i \in 1 .. k
    BY <1>2, <1>5, <1>7
  <2>2. 1 .. k \subseteq 1 .. n
    BY <1>2, <2>1
  <2> QED BY Zenon, <1>4, <1>6, <2>1, <2>2
<1>9. Cardinality(1 .. k) = k
  BY <1>7, FS_Interval
<1> QED BY <1>1, <1>2, <1>7, <1>8, <1>9

\* Then what is drawn at a place of the taskbar is what a click there meets.
LEMMA TaskbarSafe == TaskbarInv => DrawnIsHit
<1> SUFFICES ASSUME TaskbarInv PROVE DrawnIsHit
  OBVIOUS
<1>1. screen_width \in Nat /\ screen_width > 64
  BY DrawnAre
<1>2. PICK n, k : /\ n \in Nat /\ k \in Nat
                  /\ Buttons = 1 .. n /\ Drawn = 1 .. k /\ k <= n
                  /\ Cardinality(Drawn) = k
  BY DrawnAre
<1>3. \A i \in 1 .. n : DrawnAt(i) = 74 + (i - 1) * 122
  BY <1>2 DEF DrawnAt, FirstBtn, StartEnd, Step, BtnWidth, BtnGap
<1>4. \A i \in 1 .. k : 74 + (i - 1) * 122 + 120 <= screen_width - 90
  <2> TAKE i \in 1 .. k
  <2>1. i \in 1 .. n /\ i \in Drawn
    BY <1>2
  <2>2. DrawnAt(i) + BtnWidth <= ClockX(screen_width) - 10
    BY <2>1 DEF Drawn
  <2> QED BY <1>1, <1>3, <2>1, <2>2 DEF ClockX, BtnWidth
<1>5. ASSUME NEW x \in Int
      PROVE  HitTest(x) = IF x >= 4 /\ x < 64 THEN "START"
                          ELSE IF x >= screen_width - 90 THEN "CLOCK"
                          ELSE IF \E i \in 1 .. n : x >= 74 + (i - 1) * 122 /\ x < 74 + (i - 1) * 122 + 120
                          THEN "WINDOW_BTN" ELSE "TASKBAR"
  BY <1>1, <1>2 DEF HitTest, StartX, StartEnd, ClockX, FirstBtn, BtnWidth, BtnGap
<1>6. ASSUME NEW i \in Drawn, NEW x \in DrawnAt(i) .. DrawnAt(i) + BtnWidth - 1
      PROVE  HitTest(x) = "WINDOW_BTN"
  <2>1. i \in 1 .. k /\ i \in 1 .. n /\ i \in Nat /\ i >= 1
    BY <1>2
  <2>2. x \in Int /\ x >= 74 + (i - 1) * 122 /\ x < 74 + (i - 1) * 122 + 120
    BY <1>3, <2>1 DEF BtnWidth
  <2>3. ~(x < 64) /\ ~(x >= screen_width - 90)
    BY <1>1, <1>4, <2>1, <2>2
  <2> QED BY <1>5, <2>1, <2>2, <2>3
<1>7. ASSUME NEW x \in FirstBtn .. DrawnEnd - 1, HitTest(x) = "WINDOW_BTN"
      PROVE  \E i \in Drawn : x \in Button(i)
  <2>1. x \in Int /\ x >= 74 /\ x < 74 + k * 122
    BY <1>2 DEF DrawnEnd, FirstBtn, StartEnd, BtnWidth, BtnGap
  <2>2. PICK i \in 1 .. n : x >= 74 + (i - 1) * 122 /\ x < 74 + (i - 1) * 122 + 120
    BY <1>5, <1>7, <2>1
  <2>3. i \in Nat /\ i <= k
    BY <1>2, <2>1, <2>2
  <2>4. i \in Drawn
    BY <1>2, <2>2, <2>3
  <2>5. x \in Button(i)
    BY <1>3, <2>1, <2>2 DEF Button, BtnWidth
  <2> QED BY <2>4, <2>5
<1>8. HitTest(StartX) = "START"
  BY <1>5 DEF StartX
<1>9. HitTest(screen_width - 1) = "CLOCK"
  BY <1>1, <1>5
<1>10. \A i \in Drawn : \A x \in Button(i) : HitTest(x) = "WINDOW_BTN"
  BY <1>6, Zenon DEF Button
<1>11. \A x \in FirstBtn .. DrawnEnd - 1 :
          HitTest(x) = "WINDOW_BTN" => \E i \in Drawn : x \in Button(i)
  BY <1>7
<1> QED BY <1>8, <1>9, <1>10, <1>11, Zenon DEF DrawnIsHit

-----------------------------------------------------------------------------
(* Lines of a text.                                                        *)

\* Until the pass is over, the line that it is in starts behind the blank that
\* ended the last one; and the last blank in it is one.
EndOf(s) == IF s = <<>> THEN 0 ELSE s[Len(s)][2]
LayoutTypes ==
  /\ text \in Seq(Nat) /\ max_width \in Nat
  /\ lines \in Seq(Nat \X Nat)
  /\ scan.i \in Nat /\ scan.start \in Nat /\ scan.last_break \in Nat
Follow ==
  /\ \A k \in 1 .. Len(lines) - 1 : /\ lines[k][2] + 1 = lines[k + 1][1]
                                    /\ text[lines[k][2] + 1] = Blank
  /\ lines # <<>> => lines[1][1] = 0
  /\ max_width > 0 => \A k \in 1 .. Len(lines) : lines[k][1] < lines[k][2]
InPass ==
  /\ scan.i <= Len(text) /\ scan.start <= scan.i
  /\ scan.last_break > scan.start => scan.last_break < scan.i /\ text[scan.last_break + 1] = Blank
  /\ scan.i = 0 => lines = <<>>
  /\ IF lines = <<>> THEN scan.start = 0
     ELSE scan.start = EndOf(lines) + 1 /\ text[EndOf(lines) + 1] = Blank
Ended == EndOf(lines) = Len(text) \/ (EndOf(lines) = Len(text) - 1 /\ text[Len(text)] = Blank)
LayoutInv == /\ LayoutTypes
             /\ Len(lines) < MaxLines => Follow /\ (IF Done THEN Ended ELSE InPass)

\* At the start of the pass there is no line.
LEMMA LayoutStart == LayoutInit => LayoutInv
<1> SUFFICES ASSUME LayoutInit PROVE LayoutInv
  OBVIOUS
<1>1. LayoutTypes
  BY LayoutAssumption DEF LayoutInit, LayoutTypes
<1>2. Len(text) \in Nat /\ lines = <<>> /\ scan.i = 0 /\ scan.start = 0 /\ scan.last_break = 0
  BY <1>1 DEF LayoutInit, LayoutTypes
<1>3. Len(lines) = 0
  BY <1>2
<1>4. Follow
  BY <1>2, <1>3 DEF Follow
<1>5. ~Done /\ InPass
  BY <1>2 DEF Done, InPass
<1> QED BY <1>1, <1>4, <1>5 DEF LayoutInv

\* A line that is added
IsLaid(s, from, to) ==
  /\ s \in Seq(Nat \X Nat)
  /\ Len(s) < MaxLines =>
        /\ Len(lines) < MaxLines /\ Len(s) = Len(lines) + 1 /\ s # <<>>
        /\ \A k \in 1 .. Len(lines) : s[k] = lines[k]
        /\ s[Len(lines) + 1] = <<from, to>>

\* A line that is added is the last one, or there was no room for it.
LEMMA LaidLine ==
  ASSUME LayoutTypes, NEW from \in Nat, NEW to \in Nat
  PROVE  IsLaid(Laid(from, to), from, to)
<1>0. PICK s : s = Laid(from, to)
  OBVIOUS
<1>1. lines \in Seq(Nat \X Nat) /\ Len(lines) \in Nat /\ MaxLines \in Nat
  BY LayoutAssumption DEF LayoutTypes
<1>2. CASE Len(lines) < MaxLines
  <2>1. s = Append(lines, <<from, to>>)
    BY <1>0, <1>2 DEF Laid
  <2> QED BY <1>0, <1>1, <1>2, <2>1 DEF IsLaid
<1>3. CASE ~(Len(lines) < MaxLines)
  <2>1. s = lines
    BY <1>0, <1>3 DEF Laid
  <2> QED BY <1>0, <1>1, <1>3, <2>1 DEF IsLaid
<1> QED BY <1>2, <1>3

\* Where a line starts behind the one before and is not empty, the lines follow.
LEMMA LaidFollows ==
  ASSUME LayoutTypes, Follow, InPass, NEW to \in Nat, scan.start < to, max_width' = max_width, text' = text,
         lines' = Laid(scan.start, to), Len(lines') < MaxLines
  PROVE  Follow' /\ EndOf(lines') = to /\ lines' # <<>>
<1>1. PICK from \in Nat : from = scan.start
  BY DEF LayoutTypes
<1>2. PICK s : s = lines'
  OBVIOUS
<1>3. /\ s \in Seq(Nat \X Nat) /\ Len(s) = Len(lines) + 1 /\ s # <<>>
      /\ \A k \in 1 .. Len(lines) : s[k] = lines[k]
      /\ s[Len(lines) + 1] = <<from, to>>
  <2>1. IsLaid(Laid(from, to), from, to)
    BY <1>1, LaidLine
  <2>2. s = Laid(from, to) /\ Len(s) < MaxLines
    BY <1>1, <1>2
  <2> QED BY <2>1, <2>2 DEF IsLaid
<1>4. lines \in Seq(Nat \X Nat)
  BY DEF LayoutTypes
<1>5. PICK n \in Nat : n = Len(lines)
  BY <1>4
<1>6. Len(s) = n + 1 /\ s[n + 1][1] = from /\ s[n + 1][2] = to /\ \A k \in 1 .. n : s[k] = lines[k]
  BY <1>3, <1>5
<1>7. EndOf(s) = to
  BY <1>3, <1>6 DEF EndOf
<1>8. n # 0 => lines[n][2] + 1 = from /\ text[lines[n][2] + 1] = Blank /\ lines[1][1] = 0
  BY <1>1, <1>4, <1>5 DEF InPass, EndOf, Follow
<1>9. n = 0 => from = 0
  <2>1. n = 0 => lines = <<>>
    BY Zenon, <1>4, <1>5, EmptySeq
  <2> QED BY <1>1, <2>1 DEF InPass
<1>10. \A k \in 1 .. n : s[k][2] + 1 = s[k + 1][1] /\ text[s[k][2] + 1] = Blank
  <2> TAKE k \in 1 .. n
  <2>1. CASE k = n
    BY <1>5, <1>6, <1>8, <2>1
  <2>2. CASE k # n
    <3>1. k \in 1 .. n - 1 /\ k + 1 \in 1 .. n
      BY <1>5, <2>2
    <3>2. lines[k][2] + 1 = lines[k + 1][1] /\ text[lines[k][2] + 1] = Blank
      BY <1>5, <3>1 DEF Follow
    <3> QED BY <1>6, <3>1, <3>2
  <2> QED BY <2>1, <2>2
<1>11. s[1][1] = 0
  <2>1. CASE n = 0
    BY <1>6, <1>9, <2>1
  <2>2. CASE n # 0
    <3>1. 1 \in 1 .. n
      BY <1>5, <2>2
    <3> QED BY <1>6, <1>8, <2>2, <3>1
  <2> QED BY <2>1, <2>2
<1>12. max_width > 0 => \A k \in 1 .. n + 1 : s[k][1] < s[k][2]
  <2> SUFFICES ASSUME max_width > 0, NEW k \in 1 .. n + 1 PROVE s[k][1] < s[k][2]
    OBVIOUS
  <2>1. CASE k = n + 1
    BY <1>1, <1>6, <2>1
  <2>2. CASE k # n + 1
    <3>1. k \in 1 .. n
      BY <1>5, <2>2
    <3> QED BY <1>5, <1>6, <3>1 DEF Follow
  <2> QED BY <2>1, <2>2
<1>13. Len(s) - 1 = n
  BY <1>5, <1>6
<1>14. Follow'
  BY <1>2, <1>6, <1>10, <1>11, <1>12, <1>13 DEF Follow
<1> QED BY <1>2, <1>3, <1>7, <1>14 DEF EndOf

\* No character of the text breaks the invariant of the pass.
LEMMA LayoutSteps == LayoutInv /\ LayoutNext => LayoutInv'
<1> SUFFICES ASSUME LayoutInv, LayoutNext PROVE LayoutInv'
  OBVIOUS
<1>0. LayoutTypes /\ text' = text /\ max_width' = max_width /\ Len(text) \in Nat
  BY DEF LayoutInv, LayoutNext, LayoutTypes
<1>1. CASE SingleLine
  <2>1. /\ max_width = 0 /\ lines' = << <<0, Len(text)>> >>
        /\ scan' = [scan EXCEPT !.i = Len(text) + 1]
    BY <1>1 DEF SingleLine
  <2>2. scan'.i = Len(text) + 1 /\ scan'.start = scan.start /\ scan'.last_break = scan.last_break
    BY <2>1
  <2>3. LayoutTypes'
    BY <1>0, <2>1, <2>2 DEF LayoutTypes
  <2>4. Len(lines') = 1 /\ lines' # <<>> /\ lines'[1][1] = 0 /\ lines'[1][2] = Len(text)
    BY <1>0, <2>1
  <2>5. Follow'
    BY <1>0, <2>1, <2>4 DEF Follow
  <2>6. Done' /\ Ended'
    BY <1>0, <2>2, <2>4 DEF Done, Ended, EndOf
  <2> QED BY <2>3, <2>5, <2>6 DEF LayoutInv
<1>2. CASE LayoutStep
  <2>1. max_width > 0 /\ scan.i < Len(text)
    BY <1>2 DEF LayoutStep
  <2>2. Len(lines) < MaxLines => Follow /\ InPass
    BY <1>0, <2>1 DEF LayoutInv, Done, LayoutTypes
  <2>3. Break \in Nat
    BY <1>0 DEF Break, LayoutTypes
  <2>4. CASE Full
    <3>1. PICK b \in Nat : b = Break /\ b > scan.start
      BY <2>3, <2>4 DEF Full
    <3>2. /\ lines' = Laid(scan.start, b) /\ scan'.i = scan.i + 1
          /\ scan'.start = b + 1 /\ scan'.last_break = b + 1
      BY <1>2, <2>4, <3>1 DEF LayoutStep, NextStart
    <3>3. LayoutTypes'
      <4>1. PICK from \in Nat : from = scan.start
        BY <1>0 DEF LayoutTypes
      <4>2. lines' = Laid(from, b)
        BY <3>2, <4>1
      <4>3. lines' \in Seq(Nat \X Nat)
        BY Zenon, <1>0, <4>1, <4>2, LaidLine DEF IsLaid
      <4> QED BY <1>0, <3>2, <4>1, <4>3 DEF LayoutTypes
    <3>4. ASSUME Len(lines') < MaxLines
          PROVE  Follow' /\ ~Done' /\ InPass'
      <4>1. Len(lines) < MaxLines
        BY <3>2, <3>4 DEF Laid
      <4>2. Follow' /\ EndOf(lines') = b /\ lines' # <<>>
        BY <1>0, <2>2, <3>1, <3>2, <3>4, <4>1, LaidFollows
      <4>3. b <= scan.i /\ text[b + 1] = Blank
        <5>1. CASE text[scan.i + 1] = Blank
          <6>1. b = scan.i
            BY <3>1, <5>1 DEF Break
          <6> QED BY <1>0, <5>1, <6>1 DEF LayoutTypes
        <5>2. CASE text[scan.i + 1] # Blank
          <6>1. b = scan.last_break
            BY <3>1, <5>2 DEF Break
          <6> QED BY <1>0, <2>2, <3>1, <4>1, <6>1 DEF InPass, LayoutTypes
        <5> QED BY <5>1, <5>2
      <4>4. ~Done'
        BY <1>0, <2>1, <3>2 DEF Done, LayoutTypes
      <4>5. InPass'
        BY <1>0, <2>1, <3>1, <3>2, <4>2, <4>3 DEF InPass, LayoutTypes
      <4> QED BY <4>2, <4>4, <4>5
    <3> QED BY <3>3, <3>4 DEF LayoutInv
  <2>5. CASE ~Full
    <3>1. /\ lines' = lines /\ scan'.i = scan.i + 1
          /\ scan'.start = scan.start /\ scan'.last_break = Break
      <4>1. lines' = lines /\ scan' = [scan EXCEPT !.i = @ + 1, !.last_break = Break,
                                                  !.pen_x = @ + Advance(scan.i)]
        BY <1>2, <2>5 DEF LayoutStep
      <4> QED BY <4>1
    <3>2. LayoutTypes'
      BY <1>0, <2>3, <3>1 DEF LayoutTypes
    <3>3. ASSUME Len(lines) < MaxLines
          PROVE  Follow' /\ ~Done' /\ InPass'
      <4>1. Follow'
        BY <1>0, <2>2, <3>1, <3>3 DEF Follow
      <4>2. ~Done'
        BY <1>0, <2>1, <3>1 DEF Done, LayoutTypes
      <4>3. Break > scan.start => Break < scan.i + 1 /\ text[Break + 1] = Blank
        <5>1. CASE text[scan.i + 1] = Blank
          <6>1. Break = scan.i
            BY <5>1 DEF Break
          <6> QED BY <1>0, <5>1, <6>1 DEF LayoutTypes
        <5>2. CASE text[scan.i + 1] # Blank
          <6>1. Break = scan.last_break
            BY <5>2 DEF Break
          <6> QED BY <1>0, <2>2, <3>3, <6>1 DEF InPass, LayoutTypes
        <5> QED BY <5>1, <5>2
      <4>4. InPass'
        BY <1>0, <2>1, <2>2, <2>3, <3>1, <3>3, <4>3 DEF InPass, LayoutTypes
      <4> QED BY <4>1, <4>2, <4>4
    <3> QED BY <3>1, <3>2, <3>3 DEF LayoutInv
  <2> QED BY <2>4, <2>5
<1>3. CASE LayoutEnd
  <2>1. max_width > 0 /\ scan.i = Len(text)
    BY <1>3 DEF LayoutEnd
  <2>2. Len(lines) < MaxLines => Follow /\ InPass
    BY <1>0, <2>1 DEF LayoutInv, Done
  <2>3. scan'.i = scan.i + 1 /\ scan'.start = scan.start /\ scan'.last_break = scan.last_break
    BY <1>3 DEF LayoutEnd
  <2>4. Done'
    BY <1>0, <2>1, <2>3 DEF Done
  <2>5. CASE scan.start < Len(text)
    <3>1. lines' = Laid(scan.start, Len(text))
      BY <1>3, <2>5 DEF LayoutEnd
    <3>2. LayoutTypes'
      <4>1. PICK from \in Nat, to \in Nat : from = scan.start /\ to = Len(text)
        BY <1>0 DEF LayoutTypes
      <4>2. lines' = Laid(from, to)
        BY <3>1, <4>1
      <4>3. lines' \in Seq(Nat \X Nat)
        BY Zenon, <1>0, <4>1, <4>2, LaidLine DEF IsLaid
      <4> QED BY <1>0, <2>3, <4>3 DEF LayoutTypes
    <3>3. ASSUME Len(lines') < MaxLines
          PROVE  Follow' /\ Ended'
      <4>1. Len(lines) < MaxLines
        BY <3>1, <3>3 DEF Laid
      <4>2. Follow' /\ EndOf(lines') = Len(text)
        BY <1>0, <2>2, <2>5, <3>1, <3>3, <4>1, LaidFollows
      <4> QED BY <1>0, <4>2 DEF Ended
    <3> QED BY <2>4, <3>2, <3>3 DEF LayoutInv
  <2>6. CASE ~(scan.start < Len(text))
    <3>1. lines' = lines
      BY <1>3, <2>6 DEF LayoutEnd
    <3>2. LayoutTypes'
      BY <1>0, <2>3, <3>1 DEF LayoutTypes
    <3>3. ASSUME Len(lines) < MaxLines
          PROVE  Follow' /\ Ended'
      <4>1. Follow'
        BY <1>0, <2>2, <3>1, <3>3 DEF Follow
      <4>2. scan.start = Len(text)
        BY <1>0, <2>1, <2>2, <2>6, <3>3 DEF InPass, LayoutTypes
      <4>3. CASE lines = <<>>
        <5>1. scan.start = 0 /\ EndOf(lines) = 0
          BY <2>2, <3>3, <4>3 DEF InPass, EndOf
        <5> QED BY <1>0, <3>1, <4>1, <4>2, <5>1 DEF Ended, EndOf
      <4>4. CASE lines # <<>>
        <5>1. Len(lines) \in 1 .. Len(lines) /\ lines[Len(lines)] \in Nat \X Nat
          BY <1>0, <4>4 DEF LayoutTypes
        <5>2. EndOf(lines) \in Nat
          BY <4>4, <5>1 DEF EndOf
        <5>3. Len(text) = EndOf(lines) + 1 /\ text[Len(text)] = Blank
          BY <2>2, <3>3, <4>2, <4>4 DEF InPass
        <5> QED BY <1>0, <3>1, <4>1, <5>2, <5>3 DEF Ended
      <4> QED BY <4>1, <4>3, <4>4
    <3> QED BY <2>4, <3>1, <3>2, <3>3 DEF LayoutInv
  <2> QED BY <2>5, <2>6
<1> QED BY <1>1, <1>2, <1>3 DEF LayoutNext

\* Then the lines have every character but the blanks they were broken at.
LEMMA LayoutSafe == LayoutInv => TextLaidOut
<1> SUFFICES ASSUME LayoutInv, Len(lines) < MaxLines PROVE TextLaidOut
  BY DEF TextLaidOut
<1>1. Follow /\ LayoutTypes /\ (Done => Ended)
  BY DEF LayoutInv
<1>2. DOMAIN lines = 1 .. Len(lines)
  BY <1>1 DEF LayoutTypes
<1>3. EndOf(lines) = IF lines = <<>> THEN 0 ELSE Last(lines)[2]
  BY DEF EndOf, Last
<1> QED BY <1>1, <1>2, <1>3 DEF TextLaidOut, Follow, Ended

-----------------------------------------------------------------------------
(* The cache of glyphs.                                                    *)

InUse == {i \in Entries : glyph_cache[i].bitmap # NoBitmap}
CacheTypes ==
  /\ glyph_cache \in [Entries -> [glyph_id : {NoGlyph, 0} \cup GlyphIds, bitmap : Bitmaps \cup {NoBitmap},
                                  last_used : Nat]]
  /\ clock \in Nat /\ DOMAIN bitmaps \subseteq Bitmaps /\ cache_initialized \in BOOLEAN

\* A picture in the cache is one of its entry's glyph, and none is lost that is
\* in the cache; until the cache is initialised it has none.
CacheKept == /\ \A i \in InUse : bitmaps[glyph_cache[i].bitmap][1] = glyph_cache[i].glyph_id
             /\ \A i \in InUse : glyph_cache[i].bitmap \notin leaked
             /\ ~cache_initialized => InUse = {}
CacheInv == CacheTypes /\ CacheKept /\ CacheHoldsCopies

\* What the constants of the cache are.
LEMMA CacheConstants == NoBitmap \notin Bitmaps /\ Entries \in SUBSET Nat /\ Entries # {}
<1>1. CacheSize \in Nat \ {0}
  BY CacheAssumption
<1>2. 0 \in Entries /\ Entries \in SUBSET Nat
  BY <1>1 DEF Entries
<1> QED BY <1>2, CacheAssumption

\* The property, with its local name spelled out.
LEMMA Copies ==
  CacheHoldsCopies <=>
    /\ {glyph_cache[i].bitmap : i \in InUse} \cup leaked = DOMAIN bitmaps
    /\ \A i, j \in InUse : i # j => /\ glyph_cache[i].glyph_id # glyph_cache[j].glyph_id
                                    /\ glyph_cache[i].bitmap # glyph_cache[j].bitmap
    /\ drawn.picture[1] = drawn.asked
  BY Zenon DEF CacheHoldsCopies, InUse

\* At the start the cache has no picture.
LEMMA CacheStart == GlyphCacheInit => CacheInv
<1> SUFFICES ASSUME GlyphCacheInit PROVE CacheInv
  OBVIOUS
<1>1. CacheTypes /\ InUse = {}
  BY Zenon DEF GlyphCacheInit, CacheTypes, InUse
<1>2. CacheKept
  BY <1>1 DEF CacheKept
<1>3. CacheHoldsCopies
  BY <1>1, Copies DEF GlyphCacheInit, Nothing
<1> QED BY <1>1, <1>2, <1>3 DEF CacheInv

\* The entry that gives way is one of the cache.
LEMMA OldestIs == CacheTypes => Oldest \in Entries
<1> SUFFICES ASSUME CacheTypes PROVE Oldest \in Entries
  OBVIOUS
<1>1. PICK U : U = {glyph_cache[i].last_used : i \in Entries}
  BY Zenon
<1>2. U \in SUBSET Nat /\ U # {}
  <2>1. \A i \in Entries : glyph_cache[i].last_used \in Nat
    BY DEF CacheTypes
  <2>2. Entries # {}
    BY CacheConstants
  <2> QED BY Zenon, <1>1, <2>1, <2>2
<1>3. PICK least \in U : least = Min(U)
  BY Zenon, <1>2, Least
<1>4. PICK V : V = {i \in Entries : glyph_cache[i].last_used = least}
  BY Zenon
<1>5. V \in SUBSET Nat /\ V # {} /\ V \subseteq Entries
  BY Zenon, <1>1, <1>3, <1>4, CacheConstants
<1>6. Min(V) \in V
  BY <1>5, Least
<1>7. Oldest = Min(V)
  BY <1>1, <1>3, <1>4 DEF Oldest
<1> QED BY Zenon, <1>5, <1>6, <1>7

\* Whichever entry gives way, the cache holds its copies and each once.
LEMMA CacheStep == CacheInv /\ GlyphCacheNext => CacheInv'
<1> SUFFICES ASSUME CacheInv, GlyphCacheNext PROVE CacheInv'
  OBVIOUS
<1>0. CacheTypes /\ CacheKept /\ CacheHoldsCopies
  BY DEF CacheInv
<1>00. /\ {glyph_cache[i].bitmap : i \in InUse} \cup leaked = DOMAIN bitmaps
       /\ \A i, j \in InUse : i # j => /\ glyph_cache[i].glyph_id # glyph_cache[j].glyph_id
                                       /\ glyph_cache[i].bitmap # glyph_cache[j].bitmap
       /\ drawn.picture[1] = drawn.asked
  BY <1>0, Copies
<1>H. ASSUME /\ {glyph_cache'[i].bitmap : i \in InUse'} \cup leaked' = DOMAIN bitmaps'
             /\ \A i, j \in InUse' : i # j => /\ glyph_cache'[i].glyph_id # glyph_cache'[j].glyph_id
                                              /\ glyph_cache'[i].bitmap # glyph_cache'[j].bitmap
             /\ drawn'.picture[1] = drawn'.asked
      PROVE  CacheHoldsCopies'
  BY <1>H, Zenon DEF CacheHoldsCopies, InUse
<1>1. CASE FontCacheInit
  <2>1. /\ ~cache_initialized /\ cache_initialized' = TRUE
        /\ glyph_cache' = [i \in Entries |-> [glyph_id |-> NoGlyph, bitmap |-> NoBitmap, last_used |-> 0]]
        /\ bitmaps' = bitmaps /\ drawn' = drawn /\ leaked' = leaked /\ clock' = clock
    BY <1>1 DEF FontCacheInit
  <2>2. InUse = {} /\ InUse' = {}
    BY <1>0, <2>1 DEF CacheKept, InUse
  <2>3. CacheTypes'
    BY <1>0, <2>1 DEF CacheTypes
  <2>4. CacheKept'
    BY <2>1, <2>2 DEF CacheKept
  <2>5. CacheHoldsCopies'
    BY <1>00, <1>H, <2>1, <2>2
  <2> QED BY <2>3, <2>4, <2>5 DEF CacheInv
<1>2. CASE GlyphTick
  <2>1. clock' = clock + 1 /\ UNCHANGED <<glyph_cache, cache_initialized, bitmaps, drawn, leaked>>
    BY <1>2 DEF GlyphTick
  <2>2. CacheTypes' /\ InUse' = InUse
    BY <1>0, <2>1 DEF CacheTypes, InUse
  <2>3. CacheKept' /\ CacheHoldsCopies'
    BY <1>0, <1>00, <1>H, <2>1, <2>2 DEF CacheKept
  <2> QED BY <2>2, <2>3 DEF CacheInv
<1>3. ASSUME NEW gid \in GlyphIds, NEW size, FontDrawGlyph(gid, size)
      PROVE  CacheInv'
  <2>0. cache_initialized' = cache_initialized /\ clock' = clock
    BY <1>3 DEF FontDrawGlyph
  <2>1. CASE Cached(gid) # {}
    <3>1. Cached(gid) \in SUBSET Nat
      BY Zenon, CacheConstants DEF Cached
    <3>2. PICK i \in Cached(gid) : i = Min(Cached(gid))
      BY <2>1, <3>1, Least
    <3>3. i \in Entries /\ i \in InUse /\ glyph_cache[i].glyph_id = gid
      BY <3>2 DEF Cached, InUse
    <3>4. /\ drawn' = [asked |-> gid, picture |-> bitmaps[glyph_cache[i].bitmap]]
          /\ glyph_cache' = [glyph_cache EXCEPT ![i].last_used = clock]
          /\ bitmaps' = bitmaps /\ leaked' = leaked
      BY <1>3, <2>1, <3>2 DEF FontDrawGlyph
    <3>5. CacheTypes'
      BY <1>0, <2>0, <3>3, <3>4 DEF CacheTypes
    <3>6. \A j \in Entries : /\ glyph_cache'[j].bitmap = glyph_cache[j].bitmap
                             /\ glyph_cache'[j].glyph_id = glyph_cache[j].glyph_id
      BY <1>0, <3>4 DEF CacheTypes
    <3>7. InUse' = InUse /\ InUse \subseteq Entries
      BY <3>6 DEF InUse
    <3>8. CacheKept'
      BY <1>0, <2>0, <3>4, <3>6, <3>7 DEF CacheKept
    <3>9. drawn'.picture[1] = drawn'.asked
      BY <1>0, <3>3, <3>4 DEF CacheKept
    <3>10. {glyph_cache'[j].bitmap : j \in InUse'} = {glyph_cache[j].bitmap : j \in InUse}
      BY <3>6, <3>7
    <3>11. {glyph_cache'[j].bitmap : j \in InUse'} \cup leaked' = DOMAIN bitmaps'
      BY Zenon, <1>00, <3>4, <3>10
    <3>12. \A j, k \in InUse' : j # k => /\ glyph_cache'[j].glyph_id # glyph_cache'[k].glyph_id
                                         /\ glyph_cache'[j].bitmap # glyph_cache'[k].bitmap
      <4> SUFFICES ASSUME NEW j \in InUse, NEW k \in InUse, j # k
                   PROVE  /\ glyph_cache'[j].glyph_id # glyph_cache'[k].glyph_id
                          /\ glyph_cache'[j].bitmap # glyph_cache'[k].bitmap
        BY <3>7
      <4>1. j \in Entries /\ k \in Entries
        BY <3>7
      <4> QED BY <1>00, <3>6, <4>1
    <3>13. CacheHoldsCopies'
      BY <1>H, <3>9, <3>11, <3>12
    <3> QED BY <3>5, <3>8, <3>13 DEF CacheInv
  <2>2. CASE Cached(gid) = {} /\ UNCHANGED <<glyph_cache, bitmaps, leaked>>
             /\ drawn' \in {Nothing, [asked |-> gid, picture |-> <<gid, size>>]}
    <3>1. CacheTypes' /\ InUse' = InUse /\ drawn'.picture[1] = drawn'.asked
      BY <1>0, <2>0, <2>2 DEF CacheTypes, InUse, Nothing
    <3>2. CacheKept' /\ CacheHoldsCopies'
      BY <1>0, <1>00, <1>H, <2>0, <2>2, <3>1 DEF CacheKept
    <3> QED BY <3>1, <3>2 DEF CacheInv
  <2>3. ASSUME Cached(gid) = {}, drawn' = [asked |-> gid, picture |-> <<gid, size>>],
               NEW b \in Bitmaps \ DOMAIN bitmaps, cache_initialized,
               glyph_cache' = [glyph_cache EXCEPT ![Oldest] = Newest(Oldest, gid, b)],
               bitmaps' = Holding([c \in {b} |-> <<gid, size>>], Freed(Oldest)), leaked' = leaked
        PROVE  CacheInv'
    <3>1. PICK o \in Entries : o = Oldest
      BY <1>0, OldestIs
    <3>2. PICK old : old = glyph_cache[o].bitmap
      OBVIOUS
    <3>3. b # NoBitmap /\ NoBitmap \notin DOMAIN bitmaps /\ b \in Bitmaps /\ b \notin DOMAIN bitmaps
      BY <1>0, <2>3, CacheConstants DEF CacheTypes
    <3>4. glyph_cache' = [glyph_cache EXCEPT ![o] = [glyph_id |-> gid, bitmap |-> b, last_used |-> clock]]
      BY <2>3, <3>1 DEF Newest
    <3>5. bitmaps' = [c \in (DOMAIN bitmaps \cup {b}) \ ({old} \ {NoBitmap}) |->
                        IF c \in {b} THEN <<gid, size>> ELSE bitmaps[c]]
      BY <2>3, <3>1, <3>2 DEF Holding, Freed
    <3>6. /\ \A j \in Entries : j # o => glyph_cache'[j] = glyph_cache[j]
          /\ glyph_cache'[o].glyph_id = gid /\ glyph_cache'[o].bitmap = b
      BY <1>0, <3>4 DEF CacheTypes
    <3>7. InUse' = InUse \cup {o} /\ InUse \subseteq Entries
      BY <3>3, <3>6 DEF InUse
    <3>8. \A j \in InUse : j # o => /\ glyph_cache[j].bitmap # old /\ glyph_cache[j].bitmap \in DOMAIN bitmaps
                                    /\ glyph_cache[j].bitmap # b
      BY <1>00, <3>2, <3>3 DEF InUse
    <3>9. o \in InUse <=> old # NoBitmap
      BY <3>2 DEF InUse
    <3>10. old # NoBitmap => old \notin leaked /\ old \in DOMAIN bitmaps
      BY <1>0, <1>00, <3>2, <3>9 DEF CacheKept
    <3>11. DOMAIN bitmaps' = (DOMAIN bitmaps \cup {b}) \ ({old} \ {NoBitmap})
           /\ bitmaps'[b] = <<gid, size>>
           /\ \A c \in DOMAIN bitmaps : c # old => bitmaps'[c] = bitmaps[c]
      BY <3>3, <3>5, <3>10
    <3>12. CacheTypes'
      BY <1>0, <2>0, <3>3, <3>4, <3>11 DEF CacheTypes
    <3>13. {glyph_cache'[j].bitmap : j \in InUse'} \cup leaked' = DOMAIN bitmaps'
      <4>1. {glyph_cache'[j].bitmap : j \in InUse'} = ({glyph_cache[j].bitmap : j \in InUse} \ {old}) \cup {b}
        BY <3>2, <3>6, <3>7, <3>8, <3>9
      <4>2. old \notin leaked \/ old = NoBitmap
        BY <3>10
      <4>3. PICK U, D, E : /\ U = {glyph_cache[j].bitmap : j \in InUse} /\ D = DOMAIN bitmaps
                           /\ E = DOMAIN bitmaps'
        BY Zenon
      <4>4. U \cup leaked = D /\ E = (D \cup {b}) \ ({old} \ {NoBitmap}) /\ NoBitmap \notin D /\ b \notin D
            /\ (old # NoBitmap => old \in D)
        BY <1>00, <3>3, <3>10, <3>11, <4>3
      <4>5. (U \ {old}) \cup {b} \cup leaked = E
        <5>1. CASE old = NoBitmap
          BY <4>4, <5>1
        <5>2. CASE old # NoBitmap /\ old \notin leaked
          BY <4>4, <5>2
        <5> QED BY <4>2, <5>1, <5>2
      <4> QED BY Zenon, <2>3, <4>1, <4>3, <4>5
    <3>14. \A j \in InUse : j # o => glyph_cache[j].glyph_id # gid
      BY <2>3, <3>7 DEF Cached, InUse
    <3>15. \A j, k \in InUse' : j # k => /\ glyph_cache'[j].glyph_id # glyph_cache'[k].glyph_id
                                         /\ glyph_cache'[j].bitmap # glyph_cache'[k].bitmap
      <4> SUFFICES ASSUME NEW j \in InUse \cup {o}, NEW k \in InUse \cup {o}, j # k
                   PROVE  /\ glyph_cache'[j].glyph_id # glyph_cache'[k].glyph_id
                          /\ glyph_cache'[j].bitmap # glyph_cache'[k].bitmap
        BY <3>7
      <4>1. CASE j = o
        <5>1. k \in InUse /\ k \in Entries /\ k # o
          BY <3>7, <4>1
        <5> QED BY <3>6, <3>8, <3>14, <4>1, <5>1
      <4>2. CASE k = o
        <5>1. j \in InUse /\ j \in Entries /\ j # o
          BY <3>7, <4>2
        <5> QED BY <3>6, <3>8, <3>14, <4>2, <5>1
      <4>3. CASE j # o /\ k # o
        <5>1. j \in InUse /\ k \in InUse /\ j \in Entries /\ k \in Entries
          BY <3>7, <4>3
        <5> QED BY <1>00, <3>6, <4>3, <5>1
      <4> QED BY <4>1, <4>2, <4>3
    <3>16. CacheKept'
      <4>1. \A j \in InUse' : bitmaps'[glyph_cache'[j].bitmap][1] = glyph_cache'[j].glyph_id
        <5> SUFFICES ASSUME NEW j \in InUse \cup {o}
                     PROVE  bitmaps'[glyph_cache'[j].bitmap][1] = glyph_cache'[j].glyph_id
          BY <3>7
        <5>1. CASE j = o
          BY <3>6, <3>11, <5>1
        <5>2. CASE j # o
          BY <1>0, <3>6, <3>7, <3>8, <3>11, <5>2 DEF CacheKept
        <5> QED BY <5>1, <5>2
      <4>2. \A j \in InUse' : glyph_cache'[j].bitmap \notin leaked'
        <5>1. b \notin leaked
          BY <1>00, <3>3
        <5> SUFFICES ASSUME NEW j \in InUse \cup {o} PROVE glyph_cache'[j].bitmap \notin leaked
          BY <2>3, <3>7
        <5>2. CASE j = o
          BY <3>6, <5>1, <5>2
        <5>3. CASE j # o
          BY <1>0, <3>6, <3>7, <5>3 DEF CacheKept
        <5> QED BY <5>2, <5>3
      <4> QED BY <2>0, <2>3, <4>1, <4>2 DEF CacheKept
    <3>17. drawn'.picture[1] = drawn'.asked
      BY <2>3
    <3>18. CacheHoldsCopies'
      BY <1>H, <3>13, <3>15, <3>17
    <3> QED BY <3>12, <3>16, <3>18 DEF CacheInv
  <2>4. ASSUME Cached(gid) = {}, drawn' = [asked |-> gid, picture |-> <<gid, size>>],
               NEW b \in Bitmaps \ DOMAIN bitmaps, ~cache_initialized,
               bitmaps' = Holding([c \in {b} |-> <<gid, size>>], {}),
               leaked' = leaked \cup {b}, glyph_cache' = glyph_cache
        PROVE  CacheInv'
    <3>1. InUse = {} /\ InUse' = {}
      BY <1>0, <2>4 DEF CacheKept, InUse
    <3>2. DOMAIN bitmaps' = DOMAIN bitmaps \cup {b}
      BY <2>4 DEF Holding
    <3>3. CacheTypes'
      BY <1>0, <2>0, <2>4, <3>2 DEF CacheTypes
    <3>4. CacheKept'
      BY <3>1 DEF CacheKept
    <3>5. CacheHoldsCopies'
      BY <1>00, <1>H, <2>4, <3>1, <3>2
    <3> QED BY <3>3, <3>4, <3>5 DEF CacheInv
  <2> QED BY Zenon, <1>3, <2>1, <2>2, <2>3, <2>4 DEF FontDrawGlyph
<1> QED BY <1>1, <1>2, <1>3 DEF GlyphCacheNext

-----------------------------------------------------------------------------
(* The blocks of images.                                                   *)

ImagesTypes ==
  /\ images \subseteq [record : ImageBlocks \cup {NoBlock}, pixels : ImageBlocks \cup {LogoPixels}]
  /\ \A i \in images : i.record # i.pixels /\ (i.record = NoBlock => i.pixels # LogoPixels)
DecoderTypes ==
  /\ decoder \in [at : {"idle", "format", "chunks", "rows", "fault"}, file : ImageBlocks \cup {NoBlock},
                  idat : ImageBlocks \cup {NoBlock}, inflated : ImageBlocks \cup {NoBlock}]
  /\ decoder.at = "idle" => Buffers = {}
  /\ decoder.at # "rows" => decoder.inflated = NoBlock
  /\ decoder.at \in {"format", "rows"} => decoder.idat = NoBlock
  /\ decoder.idat \in ImageBlocks => decoder.idat # decoder.file
\* Images and what is in nobody's picture: the heap, the load that runs, the lost blocks.
Shares(imgs, rest) ==
  /\ (UNION {Used(i) : i \in imgs}) \cup rest = ImageBlocks
  /\ \A i \in imgs : Used(i) \cap rest = {}
  /\ \A i, j \in imgs : i # j => Used(i) \cap Used(j) = {}
ThreeApart(free, load, stray) == free \cap load = {} /\ free \cap stray = {} /\ load \cap stray = {}
PictureInv == /\ ImagesTypes /\ DecoderTypes /\ ThreeApart(heap_free, Buffers, astray)
              /\ Shares(images, heap_free \cup Buffers \cup astray)

\* Blocks that an image gets are no longer in the rest.
LEMMA ImageGets ==
  ASSUME NEW imgs, NEW rest, NEW i, Shares(imgs, rest), Used(i) \subseteq rest
  PROVE  Shares(imgs \cup {i}, rest \ Used(i))
<1>1. PICK T : T = UNION {Used(j) : j \in imgs}
  BY Zenon
<1>2. UNION {Used(j) : j \in imgs \cup {i}} = T \cup Used(i)
  BY <1>1
<1>3. (UNION {Used(j) : j \in imgs \cup {i}}) \cup (rest \ Used(i)) = ImageBlocks
  BY <1>1, <1>2 DEF Shares
<1>4. \A j \in imgs \cup {i} : Used(j) \cap (rest \ Used(i)) = {}
  BY DEF Shares
<1>5. \A j \in imgs : Used(j) \cap Used(i) = {}
  BY DEF Shares
<1>6. \A j, k \in imgs \cup {i} : j # k => Used(j) \cap Used(k) = {}
  BY <1>5 DEF Shares
<1> QED BY <1>3, <1>4, <1>6 DEF Shares

\* Blocks of an image that goes are in the rest.
LEMMA ImageGives ==
  ASSUME NEW imgs, NEW rest, NEW i \in imgs, Shares(imgs, rest)
  PROVE  Shares(imgs \ {i}, rest \cup Used(i))
<1>1. PICK T : T = UNION {Used(j) : j \in imgs \ {i}}
  BY Zenon
<1>2. UNION {Used(j) : j \in imgs} = T \cup Used(i)
  BY <1>1
<1>3. (UNION {Used(j) : j \in imgs \ {i}}) \cup (rest \cup Used(i)) = ImageBlocks
  BY <1>1, <1>2 DEF Shares
<1>4. \A j \in imgs \ {i} : Used(j) \cap (rest \cup Used(i)) = {}
  BY DEF Shares
<1> QED BY <1>3, <1>4 DEF Shares

\* At the start the heap has every block.
LEMMA PictureStart == ImagesInit => PictureInv
<1> SUFFICES ASSUME ImagesInit PROVE PictureInv
  OBVIOUS
<1>1. Buffers = {} /\ images = {} /\ heap_free = ImageBlocks /\ astray = {} /\ decoder = NotLoading
  BY DEF ImagesInit, Buffers, NotLoading
<1>2. ImagesTypes /\ ThreeApart(heap_free, Buffers, astray)
  BY <1>1 DEF ImagesTypes, ThreeApart
<1>3. DecoderTypes
  BY <1>1, ImagesAssumption DEF DecoderTypes, NotLoading
<1>4. Shares(images, heap_free \cup Buffers \cup astray)
  BY <1>1 DEF Shares
<1> QED BY <1>2, <1>3, <1>4 DEF PictureInv

\* No load, whatever fails in it, and no other call loses or shares a block.
LEMMA PictureStep == PictureInv /\ ImagesNext => PictureInv'
<1> SUFFICES ASSUME PictureInv, ImagesNext PROVE PictureInv'
  OBVIOUS
<1>0. /\ ImagesTypes /\ DecoderTypes /\ ThreeApart(heap_free, Buffers, astray)
      /\ Shares(images, heap_free \cup Buffers \cup astray)
  BY DEF PictureInv
<1>00. PICK H, B, A : H = heap_free /\ B = Buffers /\ A = astray
  OBVIOUS
<1>T. H \subseteq ImageBlocks /\ B \subseteq ImageBlocks /\ A \subseteq ImageBlocks /\ NoBlock \notin H
      /\ ThreeApart(H, B, A) /\ Shares(images, H \cup B \cup A) /\ NoBlock \notin ImageBlocks
  BY <1>0, <1>00, ImagesAssumption DEF Shares
\* A step that only moves blocks between the three.
<1>M. ASSUME images' = images, DecoderTypes', ThreeApart(heap_free', Buffers', astray'),
             heap_free' \cup Buffers' \cup astray' = H \cup B \cup A
      PROVE  PictureInv'
  <2>1. ImagesTypes'
    BY <1>0, <1>M DEF ImagesTypes
  <2>2. Shares(images', heap_free' \cup Buffers' \cup astray')
    BY <1>T, <1>M
  <2>3. Shares(images, heap_free \cup Buffers \cup astray)'
    BY Zenon, <2>2 DEF Shares, Used
  <2> QED BY <1>M, <2>1, <2>3 DEF PictureInv, ThreeApart
\* A step that adds an image
<1>A. ASSUME NEW i, images' = images \cup {i}, Used(i) \subseteq H \cup B \cup A,
             i \in [record : ImageBlocks \cup {NoBlock}, pixels : ImageBlocks \cup {LogoPixels}],
             i.record # i.pixels, i.record = NoBlock => i.pixels # LogoPixels,
             DecoderTypes', ThreeApart(heap_free', Buffers', astray'),
             heap_free' \cup Buffers' \cup astray' = (H \cup B \cup A) \ Used(i)
      PROVE  PictureInv'
  <2>1. ImagesTypes'
    BY <1>0, <1>A DEF ImagesTypes
  <2>2. Shares(images', heap_free' \cup Buffers' \cup astray')
    BY <1>T, <1>A, ImageGets
  <2>3. Shares(images, heap_free \cup Buffers \cup astray)'
    BY Zenon, <2>2 DEF Shares, Used
  <2> QED BY <1>A, <2>1, <2>3 DEF PictureInv, ThreeApart
\* A step that drops one
<1>D. ASSUME NEW i \in images, images' = images \ {i},
             DecoderTypes', ThreeApart(heap_free', Buffers', astray'),
             heap_free' \cup Buffers' \cup astray' = (H \cup B \cup A) \cup Used(i)
      PROVE  PictureInv'
  <2>1. ImagesTypes'
    BY <1>0, <1>D DEF ImagesTypes
  <2>2. Shares(images', heap_free' \cup Buffers' \cup astray')
    BY <1>T, <1>D, ImageGives
  <2>3. Shares(images, heap_free \cup Buffers \cup astray)'
    BY Zenon, <2>2 DEF Shares, Used
  <2> QED BY <1>D, <2>1, <2>3 DEF PictureInv, ThreeApart
\* The ends of a load
<1>F. ASSUME Failed PROVE PictureInv'
  <2>1. heap_free' = H \cup B /\ Buffers' = {} /\ astray' = A /\ images' = images /\ decoder' = NotLoading
    BY <1>F, <1>00 DEF Failed, OnBadImage, KeepRest, Buffers, NotLoading
  <2>2. DecoderTypes'
    BY <2>1, ImagesAssumption DEF DecoderTypes, NotLoading
  <2>3. ThreeApart(heap_free', Buffers', astray') /\ heap_free' \cup Buffers' \cup astray' = H \cup B \cup A
    BY <1>T, <2>1 DEF ThreeApart
  <2> QED BY <1>M, <2>1, <2>2, <2>3
<1>P. ASSUME WithPixels PROVE PictureInv'
  <2>1. PICK p \in H : /\ heap_free' = (H \ {p}) \cup B
                       /\ images' = images \cup {[record |-> NoBlock, pixels |-> p]}
    BY <1>P, <1>00 DEF WithPixels
  <2>2. Buffers' = {} /\ astray' = A /\ decoder' = NotLoading
    BY <1>P, <1>00 DEF WithPixels, KeepRest, Buffers, NotLoading
  <2>3. DecoderTypes'
    BY <2>2, ImagesAssumption DEF DecoderTypes, NotLoading
  <2>4. PICK i : i = [record |-> NoBlock, pixels |-> p]
    BY Zenon
  <2>5. p # NoBlock /\ p # LogoPixels /\ p \in ImageBlocks
    BY <1>T, <2>1, ImagesAssumption
  <2>6. Used(i) = {p}
    BY <2>4, <2>5 DEF Used
  <2>7. /\ i \in [record : ImageBlocks \cup {NoBlock}, pixels : ImageBlocks \cup {LogoPixels}]
        /\ i.record # i.pixels /\ i.pixels # LogoPixels
    BY <2>4, <2>5
  <2>8. /\ ThreeApart(heap_free', Buffers', astray')
        /\ heap_free' \cup Buffers' \cup astray' = (H \cup B \cup A) \ {p}
        /\ {p} \subseteq H \cup B \cup A
    BY <1>T, <2>1, <2>2 DEF ThreeApart
  <2> QED BY <1>A, <2>1, <2>3, <2>4, <2>6, <2>7, <2>8
<1>1. CASE ReadFile
  <2>1. PICK b \in H : heap_free' = H \ {b} /\ decoder' = [NotLoading EXCEPT !.at = "format", !.file = b]
    BY Zenon, <1>1, <1>00 DEF ReadFile
  <2>2. decoder.at = "idle" /\ images' = images /\ astray' = A
    BY <1>1, <1>00 DEF ReadFile, KeepRest
  <2>3. decoder' = [at |-> "format", file |-> b, idat |-> NoBlock, inflated |-> NoBlock] /\ b \in ImageBlocks
    BY Zenon, <1>T, <2>1 DEF NotLoading
  <2>4. B = {} /\ Buffers' = {b}
    BY <1>0, <1>00, <1>T, <2>2, <2>3 DEF DecoderTypes, Buffers
  <2>5. DecoderTypes'
    BY <1>T, <2>3 DEF DecoderTypes
  <2>6. ThreeApart(heap_free', Buffers', astray') /\ heap_free' \cup Buffers' \cup astray' = H \cup B \cup A
    BY <1>T, <2>1, <2>2, <2>4 DEF ThreeApart
  <2> QED BY <1>M, <2>2, <2>5, <2>6
<1>2. CASE ImageLoadFromMemory
  <2>1. /\ decoder.at = "idle" /\ images' = images /\ astray' = A /\ heap_free' = H
        /\ decoder' = [at |-> "format", file |-> NoBlock, idat |-> NoBlock, inflated |-> NoBlock]
    BY <1>2, <1>00 DEF ImageLoadFromMemory, KeepRest, NotLoading
  <2>2. B = {} /\ Buffers' = {}
    BY <1>0, <1>00, <1>T, <2>1 DEF DecoderTypes, Buffers
  <2>3. DecoderTypes'
    BY <1>T, <2>1 DEF DecoderTypes
  <2>4. ThreeApart(heap_free', Buffers', astray') /\ heap_free' \cup Buffers' \cup astray' = H \cup B \cup A
    BY <1>T, <2>1, <2>2 DEF ThreeApart
  <2> QED BY <1>M, <2>1, <2>3, <2>4
<1>3. CASE Decode
  <2>1. CASE decoder' = [decoder EXCEPT !.at = "chunks"] /\ UNCHANGED <<heap_free, images>> /\ KeepRest
    <3>1. decoder.at = "format" /\ images' = images /\ astray' = A /\ heap_free' = H
      BY <1>3, <1>00, <2>1 DEF Decode, KeepRest
    <3>2. /\ decoder'.file = decoder.file /\ decoder'.idat = decoder.idat
          /\ decoder'.inflated = decoder.inflated /\ decoder'.at = "chunks"
      BY <1>0, <2>1 DEF DecoderTypes
    <3>3. Buffers' = B
      BY <1>00, <3>2 DEF Buffers
    <3>4. DecoderTypes'
      BY <1>0, <2>1, <3>1, <3>2 DEF DecoderTypes
    <3> QED BY <1>M, <1>T, <3>1, <3>3, <3>4
  <2> QED BY <1>3, <1>F, <1>P, <2>1 DEF Decode
<1>4. CASE Idat
  <2>0. decoder.at = "chunks" /\ images' = images /\ astray' = A
    BY <1>4, <1>00 DEF Idat, KeepRest
  <2>1. PICK b \in H \cup {NoBlock} : /\ heap_free' = (H \cup ({decoder.idat} \ {NoBlock})) \ {b}
                                       /\ decoder'.idat = b
                                       /\ decoder' = IF b = NoBlock THEN [decoder EXCEPT !.at = "fault", !.idat = NoBlock]
                                                     ELSE [decoder EXCEPT !.idat = b]
    <3>1. CASE \E b \in H : heap_free' = Kfree({decoder.idat}) \ {b} /\ decoder' = [decoder EXCEPT !.idat = b]
      <4>1. PICK b \in H : heap_free' = Kfree({decoder.idat}) \ {b} /\ decoder' = [decoder EXCEPT !.idat = b]
        BY <3>1
      <4>2. b # NoBlock /\ decoder'.idat = b
        BY <1>0, <1>T, <4>1 DEF DecoderTypes
      <4> QED BY <1>00, <4>1, <4>2 DEF Kfree
    <3>2. CASE heap_free' = Kfree({decoder.idat}) /\ decoder' = [decoder EXCEPT !.at = "fault", !.idat = NoBlock]
      <4>1. decoder'.idat = NoBlock
        BY <1>0, <3>2 DEF DecoderTypes
      <4>2. heap_free' = (H \cup ({decoder.idat} \ {NoBlock})) \ {NoBlock}
        BY <1>00, <1>T, <3>2 DEF Kfree
      <4> QED BY <3>2, <4>1, <4>2
    <3> QED BY <1>4, <1>00, <3>1, <3>2 DEF Idat
  <2>2. decoder'.file = decoder.file /\ decoder'.inflated = decoder.inflated /\ decoder.inflated = NoBlock
    BY <1>0, <2>0, <2>1 DEF DecoderTypes
  <2>3. PICK file, idat : file = decoder.file /\ idat = decoder.idat
    OBVIOUS
  <2>4. B = {file, idat} \ {NoBlock} /\ Buffers' = {file, b} \ {NoBlock} /\ (idat # NoBlock => idat # file)
    BY <1>0, <1>00, <2>1, <2>2, <2>3 DEF Buffers, DecoderTypes
  <2>5. heap_free' = (H \cup ({idat} \ {NoBlock})) \ {b}
    BY <2>1, <2>3
  <2>6. DecoderTypes'
    <3>1. b \in ImageBlocks => b # file
      <4>1. CASE file = NoBlock
        BY <1>T, <4>1
      <4>2. CASE file # NoBlock
        BY <1>T, <2>1, <2>4, <4>2 DEF ThreeApart
      <4> QED BY <4>1, <4>2
    <3>2. /\ decoder' \in [at : {"idle", "format", "chunks", "rows", "fault"}, file : ImageBlocks \cup {NoBlock},
                        idat : ImageBlocks \cup {NoBlock}, inflated : ImageBlocks \cup {NoBlock}]
          /\ decoder'.at \in {"chunks", "fault"}
      BY Zenon, <1>0, <1>T, <2>0, <2>1 DEF DecoderTypes
    <3> QED BY <2>1, <2>2, <2>3, <3>1, <3>2 DEF DecoderTypes
  <2>7. ThreeApart(heap_free', Buffers', A)
    BY <1>T, <2>1, <2>4, <2>5 DEF ThreeApart
  <2>8. heap_free' \cup Buffers' \cup A = H \cup B \cup A
    BY <1>T, <2>1, <2>4, <2>5 DEF ThreeApart
  <2> QED BY <1>M, <2>0, <2>6, <2>7, <2>8
<1>5. CASE Inflate
  <2>1. CASE /\ \E b \in heap_free : /\ heap_free' = (heap_free \ {b}) \cup {decoder.idat}
                                     /\ decoder' = [decoder EXCEPT !.at = "rows", !.idat = NoBlock, !.inflated = b]
             /\ UNCHANGED images /\ KeepRest /\ decoder.idat # NoBlock
    <3>1. PICK b \in H : /\ heap_free' = (H \ {b}) \cup {decoder.idat}
                         /\ decoder' = [decoder EXCEPT !.at = "rows", !.idat = NoBlock, !.inflated = b]
      BY Zenon, <1>00, <2>1
    <3>2. decoder.at = "chunks" /\ images' = images /\ astray' = A
      BY Zenon, <1>5, <1>00, <2>1 DEF Inflate, KeepRest
    <3>3. /\ decoder'.file = decoder.file /\ decoder'.inflated = b /\ decoder'.idat = NoBlock
          /\ decoder.inflated = NoBlock /\ decoder'.at = "rows"
      BY <1>0, <3>1, <3>2 DEF DecoderTypes
    <3>4. PICK file, idat : file = decoder.file /\ idat = decoder.idat
      OBVIOUS
    <3>5. B = {file, idat} \ {NoBlock} /\ Buffers' = {file, b} \ {NoBlock} /\ idat # NoBlock /\ idat # file
          /\ b # NoBlock
      BY <1>0, <1>00, <1>T, <2>1, <3>1, <3>3, <3>4 DEF Buffers, DecoderTypes
    <3>6. heap_free' = (H \ {b}) \cup {idat}
      BY <3>1, <3>4
    <3>7. DecoderTypes'
      BY Zenon, <1>0, <1>T, <3>1, <3>3 DEF DecoderTypes
    <3>8. ThreeApart(heap_free', Buffers', A)
      BY <1>T, <3>1, <3>5, <3>6 DEF ThreeApart
    <3>9. heap_free' \cup Buffers' \cup A = H \cup B \cup A
      BY <1>T, <3>1, <3>5, <3>6 DEF ThreeApart
    <3> QED BY <1>M, <3>2, <3>7, <3>8, <3>9
  <2> QED BY Zenon, <1>5, <1>F, <2>1 DEF Inflate
<1>6. CASE Rows
  BY <1>6, <1>F, <1>P DEF Rows
<1>K. ASSUME decoder' = decoder
      PROVE  DecoderTypes' /\ Buffers' = B
  BY <1>0, <1>00, <1>K DEF DecoderTypes, Buffers
<1>7. CASE NewImage
  <2>1. PICK record \in H, pixels \in H :
            /\ record # pixels
            /\ heap_free' = H \ {record, pixels}
            /\ images' = images \cup {[record |-> record, pixels |-> pixels]}
    BY <1>7, <1>00 DEF NewImage
  <2>2. PICK i : i = [record |-> record, pixels |-> pixels]
    BY Zenon
  <2>3. record # NoBlock /\ pixels # NoBlock /\ record # LogoPixels /\ pixels # LogoPixels /\ record # pixels
        /\ record \in ImageBlocks /\ pixels \in ImageBlocks
    BY <1>T, <2>1, ImagesAssumption
  <2>4. Used(i) = {record, pixels}
    BY <2>2, <2>3 DEF Used
  <2>5. /\ i \in [record : ImageBlocks \cup {NoBlock}, pixels : ImageBlocks \cup {LogoPixels}]
        /\ i.record # i.pixels /\ i.record # NoBlock
    BY <2>2, <2>3
  <2>6. decoder' = decoder /\ astray' = A
    BY <1>7, <1>00 DEF NewImage, KeepRest
  <2>7. /\ ThreeApart(heap_free', Buffers', astray')
        /\ heap_free' \cup Buffers' \cup astray' = (H \cup B \cup A) \ {record, pixels}
        /\ {record, pixels} \subseteq H \cup B \cup A
    BY <1>T, <1>K, <2>1, <2>6 DEF ThreeApart
  <2> QED BY <1>A, <1>K, <2>1, <2>2, <2>4, <2>5, <2>6, <2>7
<1>8. CASE ImageGetLogo
  <2>1. PICK record \in H : /\ heap_free' = H \ {record}
                            /\ images' = images \cup {[record |-> record, pixels |-> LogoPixels]}
    BY <1>8, <1>00 DEF ImageGetLogo
  <2>2. PICK i : i = [record |-> record, pixels |-> LogoPixels]
    BY Zenon
  <2>3. record # NoBlock /\ record # LogoPixels /\ record \in ImageBlocks
    BY <1>T, <2>1, ImagesAssumption
  <2>4. Used(i) = {record}
    BY <2>2, <2>3 DEF Used
  <2>5. /\ i \in [record : ImageBlocks \cup {NoBlock}, pixels : ImageBlocks \cup {LogoPixels}]
        /\ i.record # i.pixels /\ i.record # NoBlock
    BY <2>2, <2>3
  <2>6. decoder' = decoder /\ astray' = A
    BY <1>8, <1>00 DEF ImageGetLogo, KeepRest
  <2>7. /\ ThreeApart(heap_free', Buffers', astray')
        /\ heap_free' \cup Buffers' \cup astray' = (H \cup B \cup A) \ {record}
        /\ {record} \subseteq H \cup B \cup A
    BY <1>T, <1>K, <2>1, <2>6 DEF ThreeApart
  <2> QED BY <1>A, <1>K, <2>1, <2>2, <2>4, <2>5, <2>6, <2>7
<1>9. ASSUME NEW i \in images, ImageFree(i) \/ Overwritten(i) PROVE PictureInv'
  <2>0. PICK r, p : r = i.record /\ p = i.pixels
    OBVIOUS
  <2>00. /\ r # p /\ (r = NoBlock => p # LogoPixels) /\ r \in ImageBlocks \cup {NoBlock}
         /\ p \in ImageBlocks \cup {LogoPixels}
    BY <1>0, <2>0 DEF ImagesTypes
  <2>000. (H \cup B \cup A) \cap Used(i) = {}
    BY <1>T DEF Shares
  <2>1. CASE ImageFree(i)
    <3>1. /\ p # LogoPixels /\ images' = images \ {i} /\ decoder' = decoder
          /\ heap_free' = H \cup ({p} \ {NoBlock}) /\ astray' = A \cup ({r} \ {NoBlock})
      BY <1>00, <2>0, <2>1 DEF ImageFree, Kfree
    <3>2. r # LogoPixels /\ p # NoBlock /\ NoBlock # LogoPixels
      BY <2>00, <3>1, ImagesAssumption DEF NoBlock, LogoPixels
    <3>3. Used(i) = {p} \cup ({r} \ {NoBlock})
      BY <2>0, <3>1, <3>2 DEF Used
    <3>4. /\ ThreeApart(heap_free', B, astray')
          /\ heap_free' \cup B \cup astray' = (H \cup B \cup A) \cup Used(i)
      BY <1>T, <2>00, <2>000, <3>1, <3>2, <3>3 DEF ThreeApart
    <3> QED BY <1>D, <1>K, <3>1, <3>4
  <2>2. CASE Overwritten(i)
    <3>1. /\ r = NoBlock /\ images' = images \ {i} /\ decoder' = decoder
          /\ heap_free' = H /\ astray' = A \cup {p}
      BY <1>00, <2>0, <2>2 DEF Overwritten
    <3>2. Used(i) = {p}
      BY <2>0, <2>00, <3>1 DEF Used
    <3>3. /\ ThreeApart(heap_free', B, astray')
          /\ heap_free' \cup B \cup astray' = (H \cup B \cup A) \cup Used(i)
      BY <1>T, <2>00, <2>000, <3>1, <3>2 DEF ThreeApart
    <3> QED BY <1>D, <1>K, <3>1, <3>3
  <2> QED BY <1>9, <2>1, <2>2
<1> QED BY <1>1, <1>2, <1>3, <1>4, <1>5, <1>6, <1>7, <1>8, <1>9 DEF ImagesNext

\* Then no two owners have a block in common, and every block has one.
LEMMA PictureSafe == PictureInv => ImagesOwned
<1> SUFFICES ASSUME PictureInv PROVE ImagesOwned
  OBVIOUS
<1>1. PICK I, O : I = {Used(i) : i \in images} /\ O = I \cup {Buffers, heap_free, astray}
  BY Zenon
<1>2. UNION O = (UNION I) \cup (heap_free \cup Buffers \cup astray)
  BY <1>1
<1>3. UNION O = ImageBlocks
  BY <1>1, <1>2 DEF PictureInv, Shares
<1>4. \A a \in I : \A b \in I : a # b => a \cap b = {}
  BY <1>1 DEF PictureInv, Shares
<1>5. \A a \in I : a \cap Buffers = {} /\ a \cap heap_free = {} /\ a \cap astray = {}
  BY <1>1 DEF PictureInv, Shares
<1>6. \A a, b \in O : a # b => a \cap b = {}
  BY <1>1, <1>4, <1>5 DEF PictureInv, ThreeApart
<1> QED BY <1>1, <1>3, <1>6, Zenon DEF ImagesOwned

-----------------------------------------------------------------------------
(* Quotients and remainders.                                               *)

\* What \div and % are.
LEMMA DivMod ==
  ASSUME NEW m \in Nat \ {0}, NEW a \in Int
  PROVE  /\ a = m * (a \div m) + (a % m)
         /\ a % m \in 0 .. m - 1 /\ a % m \in Nat /\ a % m \in Int
         /\ a \div m \in Int
<1>1. a = m * (a \div m) + (a % m)
  OBVIOUS
<1>2. a % m \in 0 .. m - 1
  OBVIOUS
<1>3. a \div m \in Int
  OBVIOUS
<1> QED BY <1>1, <1>2, <1>3

\* There is one remainder.
LEMMA ModUnique ==
  ASSUME NEW m \in Nat \ {0}, NEW a \in Int, NEW q \in Int, NEW r \in 0 .. m - 1, a = m * q + r
  PROVE  a % m = r
<1> DEFINE p == a \div m
           s == a % m
<1>1. a = m * p + s /\ s \in 0 .. m - 1 /\ p \in Int
  BY Zenon, DivMod
<1>2. SUFFICES s = r
  OBVIOUS
<1> HIDE DEF p, s
<1>3. s - r = m * (q - p)
  BY <1>1
<1>4. CASE q - p >= 1
  <2>1. m * (q - p) >= m
    BY <1>1, <1>4
  <2> QED BY <1>1, <1>3, <2>1
<1>5. CASE q - p <= -1
  <2>1. m * (q - p) <= -m
    BY <1>1, <1>5
  <2> QED BY <1>1, <1>3, <2>1
<1>6. CASE q = p
  BY <1>1, <1>6
<1>7. q - p >= 1 \/ q - p <= -1 \/ q = p
  BY <1>1
<1> QED BY <1>4, <1>5, <1>6, <1>7

\* A remainder may be taken before adding or after.
LEMMA ModAdd ==
  ASSUME NEW m \in Nat \ {0}, NEW a \in Int, NEW b \in Int
  PROVE  ((a % m) + b) % m = (a + b) % m
<1> DEFINE q == a \div m
           s == a % m
           p == (s + b) \div m
           r == (s + b) % m
<1>1. a = m * q + s /\ s \in Int /\ q \in Int
  BY DivMod
<1>2. s + b = m * p + r /\ r \in 0 .. m - 1 /\ p \in Int
  <2> HIDE DEF s
  <2>1. s + b \in Int
    BY <1>1
  <2> QED BY Zenon, <2>1, DivMod
<1> HIDE DEF q, s, p, r
<1>3. a + b = m * (q + p) + r /\ q + p \in Int /\ a + b \in Int
  BY <1>1, <1>2
<1>4. (a + b) % m = r
  BY Zenon, <1>2, <1>3, ModUnique
<1> QED BY <1>4 DEF r, s

\* A quotient is below b when the dividend is below b times the divisor.
LEMMA DivBelow ==
  ASSUME NEW m \in Nat \ {0}, NEW a \in Nat, NEW b \in Nat, a < b * m
  PROVE  a \div m \in 0 .. b - 1
<1> DEFINE q == a \div m
<1>1. a = m * q + (a % m) /\ a % m \in 0 .. m - 1 /\ q \in Int
  BY DivMod
<1> PICK r : r = a % m
  OBVIOUS
<1>2. a = m * q + r /\ r \in 0 .. m - 1 /\ q \in Int
  BY <1>1
<1> HIDE DEF q
<1>3. q >= 0
  <2> SUFFICES ASSUME q <= -1 PROVE FALSE
    BY <1>2
  <2>1. m * q <= m * (-1)
    BY <1>2
  <2> QED BY <1>2, <2>1
<1>4. q < b
  <2> SUFFICES ASSUME q >= b PROVE FALSE
    BY <1>2
  <2>1. m * q >= m * b
    BY <1>2
  <2>2. m * b = b * m
    OBVIOUS
  <2> QED BY <1>2, <2>1, <2>2
<1> QED BY <1>2, <1>3, <1>4 DEF q

\* Quotients grow with what is divided.
LEMMA DivMonotonic ==
  ASSUME NEW m \in Nat \ {0}, NEW a \in Nat, NEW b \in Nat, a <= b
  PROVE  a \div m <= b \div m
<1> DEFINE q == a \div m
           p == b \div m
<1> PICK r, s : r = a % m /\ s = b % m
  OBVIOUS
<1>1. a = m * q + r /\ r \in 0 .. m - 1 /\ q \in Int
  BY DivMod
<1>2. b = m * p + s /\ s \in 0 .. m - 1 /\ p \in Int
  BY DivMod
<1> HIDE DEF q, p
<1>3. q <= p
  <2> SUFFICES ASSUME q >= p + 1 PROVE FALSE
    BY <1>1, <1>2
  <2>1. m * q >= m * (p + 1)
    BY <1>1, <1>2
  <2>2. m * (p + 1) = m * p + m
    BY <1>2
  <2> QED BY <1>1, <1>2, <2>1, <2>2
<1> QED BY <1>3 DEF q, p

-----------------------------------------------------------------------------
(* Columns of pictures.                                                    *)

BlitInv == blit \in Inputs \cup {NoCall}
IsCall(in) == /\ in.size \in Nat \ {0} /\ in.fb \in Nat \ {0} /\ in.n \in Nat \ {0}
              /\ in.x \in Int /\ in.sx \in Int

\* What the input of a call is.
LEMMA CallTypes == ASSUME BlitInv PROVE IsCall(blit)
<1>0. MaxColumns \in Nat
  BY PixelsAssumption
<1>1. CASE blit = NoCall
  BY <1>1 DEF NoCall, IsCall
<1>2. CASE blit \in Inputs
  BY <1>0, <1>2 DEF Inputs, IsCall
<1> QED BY <1>1, <1>2 DEF BlitInv

\* A column of a scaled picture
LEMMA ScaledInside ==
  ASSUME NEW c \in Nat, NEW size \in Nat \ {0}, NEW n \in Nat \ {0}, c < n
  PROVE  /\ (c * size) \div n \in 0 .. size - 1
         /\ c >= 1 => ((c - 1) * size) \div n <= (c * size) \div n
<1>1. c * size \in Nat /\ c * size < size * n
  <2>1. c * size <= (n - 1) * size
    OBVIOUS
  <2>2. (n - 1) * size = size * n - size
    OBVIOUS
  <2>3. c * size \in Nat /\ size * n \in Nat
    OBVIOUS
  <2> QED BY <2>1, <2>2, <2>3
<1>2. (c * size) \div n \in 0 .. size - 1
  BY Zenon, <1>1, DivBelow
<1>3. ASSUME c >= 1 PROVE ((c - 1) * size) \div n <= (c * size) \div n
  <2>1. (c - 1) * size = c * size - size /\ (c - 1) * size \in Nat
    BY <1>3
  <2>2. (c - 1) * size <= c * size
    BY <1>1, <2>1
  <2> QED BY <1>1, <2>1, <2>2, DivMonotonic
<1> QED BY <1>2, <1>3

\* and of one that is mixed from two: their distances are divided.
LEMMA MixedInside ==
  ASSUME NEW c \in Nat, NEW size \in Nat \ {0}, NEW n \in Nat \ {0}, c < n, n # 1
  PROVE  /\ (c * (size - 1)) \div (n - 1) \in 0 .. size - 1
         /\ c >= 1 => ((c - 1) * (size - 1)) \div (n - 1) <= (c * (size - 1)) \div (n - 1)
<1>1. PICK s, m : s = size - 1 /\ m = n - 1
  OBVIOUS
<1>2. s \in Nat /\ m \in Nat \ {0} /\ c <= m /\ size = s + 1 /\ size \in Nat
  BY <1>1
<1>3. c * s \in Nat /\ c * s < size * m
  <2>1. c * s <= m * s
    BY <1>2
  <2>2. m * s < (s + 1) * m
    <3>1. (s + 1) * m = m * s + m /\ m * s \in Nat
      BY <1>2
    <3> QED BY <1>2, <3>1
  <2>3. c * s \in Nat /\ m * s \in Nat /\ (s + 1) * m \in Nat
    BY <1>2
  <2> QED BY <1>2, <2>1, <2>2, <2>3
<1>4. (c * s) \div m \in 0 .. size - 1
  BY <1>2, <1>3, DivBelow
<1>5. ASSUME c >= 1 PROVE ((c - 1) * s) \div m <= (c * s) \div m
  <2>1. (c - 1) * s = c * s - s /\ (c - 1) * s \in Nat
    BY <1>2, <1>5
  <2>2. (c - 1) * s <= c * s
    BY <1>2, <1>3, <2>1
  <2> QED BY <1>2, <1>3, <2>1, <2>2, DivMonotonic
<1> QED BY <1>1, <1>4, <1>5

\* Drawing and scaling stay in the picture and in the frame.
LEMMA ColumnsSafe == BlitInv => ColumnsInside
<1> SUFFICES ASSUME BlitInv, NEW c \in WrittenColumns(blit)
             PROVE  /\ SourceOf(blit, c) \in 0 .. blit.size - 1
                    /\ blit.call = "bilinear" => NextSource(blit, c) \in SourceOf(blit, c) .. blit.size - 1
                    /\ blit.call = "draw" => Target(blit, c) = blit.x + SourceOf(blit, c)
                    /\ blit.call = "draw_clipped" /\ blit.sx >= 0 =>
                         Target(blit, c) - blit.x = SourceOf(blit, c) - blit.sx
                    /\ c - 1 \in WrittenColumns(blit) => SourceOf(blit, c - 1) <= SourceOf(blit, c)
  BY DEF ColumnsInside
<1>0. PICK call, size, n, x, sx : /\ call = blit.call /\ size = blit.size /\ n = blit.n
                                  /\ x = blit.x /\ sx = blit.sx
  OBVIOUS
<1>T. size \in Nat \ {0} /\ n \in Nat \ {0} /\ x \in Int /\ sx \in Int
  BY <1>0, CallTypes DEF IsCall
<1>C. c \in 0 .. Columns(blit) - 1 /\ (c - 1 \in WrittenColumns(blit) => c - 1 \in 0 .. Columns(blit) - 1)
  BY DEF WrittenColumns
<1>1. CASE call = "draw"
  <2>1. Columns(blit) = size /\ SourceOf(blit, c) = c /\ SourceOf(blit, c - 1) = c - 1 /\ Target(blit, c) = x + c
    BY <1>0, <1>1 DEF Columns, SourceOf, Target, OnFrame
  <2>2. c \in 0 .. size - 1
    BY <1>C, <2>1
  <2>3. c \in Int /\ c - 1 <= c
    BY <1>T, <2>2
  <2> QED BY <1>0, <1>1, <2>1, <2>2, <2>3
<1>2. CASE call = "draw_clipped"
  <2>1. PICK cut, w : cut = CutFrom(blit) /\ w = CutWidth(blit)
    OBVIOUS
  <2>2. cut = IF sx < 0 THEN 0 ELSE sx
    BY <1>0, <2>1 DEF CutFrom
  <2>3. w = LET m == IF sx < 0 THEN n + sx ELSE n IN IF cut + m > size THEN size - cut ELSE m
    BY <1>0, <2>1 DEF CutWidth
  <2>4. cut \in Nat /\ w \in Int /\ cut + w <= size
    BY <1>T, <2>2, <2>3
  <2>5. /\ Columns(blit) = w /\ SourceOf(blit, c) = cut + c /\ SourceOf(blit, c - 1) = cut + (c - 1)
        /\ Target(blit, c) = x + c
    BY <1>0, <1>2, <2>1 DEF Columns, SourceOf, Target, OnFrame
  <2>6. c \in Int /\ c >= 0 /\ c <= w - 1
    BY <1>C, <2>4, <2>5
  <2>7. cut + c \in 0 .. size - 1 /\ cut + (c - 1) <= cut + c
    BY <1>T, <2>4, <2>6
  <2>8. sx >= 0 => (x + c) - x = (cut + c) - sx
    BY <1>T, <2>2, <2>6
  <2> QED BY <1>0, <1>2, <2>5, <2>7, <2>8
<1>3. CASE call \notin {"draw", "draw_clipped", "bilinear"}
  <2>1. Columns(blit) = n /\ SourceOf(blit, c) = (c * size) \div n /\ SourceOf(blit, c - 1) = ((c - 1) * size) \div n
    BY <1>0, <1>3 DEF Columns, SourceOf
  <2>2. c \in Nat /\ c < n
    BY <1>C, <1>T, <2>1
  <2>3. c - 1 \in 0 .. n - 1 => c >= 1
    BY <2>2
  <2>4. c - 1 \in WrittenColumns(blit) => ((c - 1) * size) \div n <= (c * size) \div n
    BY Zenon, <1>C, <1>T, <2>1, <2>2, <2>3, ScaledInside
  <2>5. (c * size) \div n \in 0 .. size - 1
    BY Zenon, <1>T, <2>2, ScaledInside
  <2> QED BY <1>0, <1>3, <2>1, <2>4, <2>5
<1>4. CASE call = "bilinear"
  <2>1. Columns(blit) = n
    BY <1>0, <1>4 DEF Columns
  <2>2. c \in Nat /\ c < n
    BY <1>C, <1>T, <2>1
  <2>3. c - 1 \in WrittenColumns(blit) => c >= 1
    BY <1>C, <2>1, <2>2
  <2>4. PICK s, t : s = SourceOf(blit, c) /\ t = SourceOf(blit, c - 1)
    OBVIOUS
  <2>5. s \in 0 .. size - 1 /\ (c - 1 \in WrittenColumns(blit) => t <= s)
    <3>1. CASE n = 1
      <4>1. s = 0 /\ t = 0
        BY Zenon, <1>0, <1>4, <2>4, <3>1 DEF SourceOf
      <4> QED BY <1>T, <4>1
    <3>2. CASE n # 1
      <4>1. s = (c * (size - 1)) \div (n - 1) /\ t = ((c - 1) * (size - 1)) \div (n - 1)
        BY Zenon, <1>0, <1>4, <2>4, <3>2 DEF SourceOf
      <4> QED BY <1>T, <2>2, <2>3, <3>2, <4>1, MixedInside
    <3> QED BY <3>1, <3>2
  <2>6. NextSource(blit, c) \in s .. size - 1
    <3>1. NextSource(blit, c) = IF s + 1 < size THEN s + 1 ELSE s
      BY <1>0, <2>4 DEF NextSource
    <3> QED BY <1>T, <2>5, <3>1
  <2> QED BY <1>0, <1>4, <2>4, <2>5, <2>6
<1> QED BY <1>1, <1>2, <1>3, <1>4

-----------------------------------------------------------------------------
(* Rows of a PNG.                                                          *)

RowsOfBytes == [1 .. RowLength -> 0 .. ByteValues - 1]
RowsInv == png.rows # <<>> => /\ png.rows \in [1 .. 2 -> RowsOfBytes]
                              /\ \E f, g \in 0 .. 4 : png.filters = <<f, g>>

\* png_paeth takes the closest of the three neighbours, the left one before the
\* upper and this before the corner.
LEMMA PaethIsClosest ==
  ASSUME NEW a \in Nat, NEW b \in Nat, NEW c \in Nat
  PROVE  Closest(a, b, c) = Paeth(a, b, c)
<1>1. PICK da, db, dc : da = Abs(a + b - c - a) /\ db = Abs(a + b - c - b) /\ dc = Abs(a + b - c - c)
  OBVIOUS
<1>2. da \in Nat /\ db \in Nat /\ dc \in Nat
  BY <1>1 DEF Abs
<1>3. PICK near : near = {k \in 1 .. 3 : \A y \in {a, b, c} : Abs(a + b - c - <<a, b, c>>[k]) <= Abs(a + b - c - y)}
  BY Zenon
<1>4. Closest(a, b, c) = <<a, b, c>>[Min(near)]
  BY <1>3, Zenon DEF Closest
<1>5. /\ 1 \in near <=> da <= db /\ da <= dc
      /\ 2 \in near <=> db <= da /\ db <= dc
      /\ 3 \in near <=> dc <= da /\ dc <= db
      /\ near \in SUBSET (1 .. 3)
  <2>1. near \in SUBSET (1 .. 3)
    BY <1>3
  <2>2. \A k \in 1 .. 3 : k \in near <=> \A y \in {a, b, c} : Abs(a + b - c - <<a, b, c>>[k]) <= Abs(a + b - c - y)
    BY <1>3, Zenon
  <2>3. 1 \in near <=> da <= da /\ da <= db /\ da <= dc
    BY <1>1, <2>2
  <2>4. 2 \in near <=> db <= da /\ db <= db /\ db <= dc
    BY <1>1, <2>2
  <2>5. 3 \in near <=> dc <= da /\ dc <= db /\ dc <= dc
    BY <1>1, <2>2
  <2> QED BY <1>2, <2>1, <2>3, <2>4, <2>5
<1>6. near # {}
  BY <1>2, <1>5
<1>7. near \in SUBSET Nat
  BY <1>5
<1>8. PICK m : m = Min(near)
  OBVIOUS
<1>9. m \in near /\ \A k \in near : m <= k
  BY <1>6, <1>7, <1>8, Least
<1>10. m \in {1, 2, 3}
  BY <1>5, <1>9
<1>11. Paeth(a, b, c) = IF da <= db /\ da <= dc THEN a ELSE IF db <= dc THEN b ELSE c
  BY <1>1 DEF Paeth
<1>12. CASE 1 \in near
  <2>1. m = 1
    BY <1>9, <1>10, <1>12
  <2> QED BY <1>4, <1>5, <1>8, <1>11, <1>12, <2>1
<1>13. CASE 1 \notin near /\ 2 \in near
  <2>1. m = 2
    BY <1>9, <1>10, <1>13
  <2> QED BY <1>4, <1>5, <1>8, <1>11, <1>13, <2>1
<1>14. CASE 1 \notin near /\ 2 \notin near
  <2>1. m = 3
    BY <1>9, <1>10, <1>14
  <2>2. ~(da <= db /\ da <= dc) /\ ~(db <= dc)
    BY <1>2, <1>5, <1>14
  <2> QED BY <1>4, <1>8, <1>11, <2>1, <2>2
<1> QED BY <1>12, <1>13, <1>14

\* What decoding a row in place computes
CurrIs(filter, row, above, curr) ==
  curr = [i \in 0 .. RowLength |->
            IF i = 0 THEN 0
            ELSE (row[i] + Predicted(filter, curr[i - 1], above[i], IF i = 1 THEN 0 ELSE above[i - 1]))
                     % ByteValues]

\* The row in place is the one that satisfies its equation.
LEMMA CurrChosen ==
  ASSUME NEW filter, NEW row, NEW above
  PROVE  Unfiltered(filter, row, above) = [i \in 1 .. RowLength |-> (CHOOSE curr : CurrIs(filter, row, above, curr))[i]]
  BY Zenon DEF Unfiltered, CurrIs

\* What the encoder subtracts is what the decoder adds.
LEMMA SamePrediction ==
  ASSUME NEW filter \in 0 .. 4, NEW left \in Nat, NEW above \in Nat, NEW corner \in Nat
  PROVE  /\ Predicted(filter, left, above, corner) \in Nat
         /\ Predicted(filter, left, above, corner) =
              IF filter = 4 THEN Closest(left, above, corner)
              ELSE <<0, left, above, (left + above) \div 2>>[filter + 1]
<1>1. CASE filter = 4
  <2>1. Predicted(filter, left, above, corner) = Paeth(left, above, corner)
    BY <1>1 DEF Predicted
  <2>2. Paeth(left, above, corner) \in Nat
    BY DEF Paeth
  <2> QED BY <1>1, <2>1, <2>2, PaethIsClosest
<1>2. CASE filter = 3
  <2>1. Predicted(filter, left, above, corner) = (left + above) \div 2
    BY <1>2 DEF Predicted
  <2>2. (left + above) \div 2 \in Nat
    OBVIOUS
  <2> QED BY <1>2, <2>1, <2>2
<1>3. CASE filter = 2
  BY <1>3 DEF Predicted
<1>4. CASE filter = 1
  BY <1>4 DEF Predicted
<1>5. CASE filter = 0
  BY <1>5 DEF Predicted
<1> QED BY <1>1, <1>2, <1>3, <1>4, <1>5

\* A row that was encoded is decoded to itself.
LEMMA RowDecodes ==
  ASSUME NEW filter \in 0 .. 4, NEW row \in RowsOfBytes, NEW above \in RowsOfBytes
  PROVE  Unfiltered(filter, Encoded(filter, row, above), above) = row
<1>0. ByteValues \in Nat \ {0} /\ RowLength \in Nat
  BY PixelsAssumption
<1>1. PICK w : w = [i \in 0 .. RowLength |-> IF i = 0 THEN 0 ELSE row[i]]
  BY Zenon
<1>2. PICK code : code = Encoded(filter, row, above)
  OBVIOUS
<1>3. ASSUME NEW i \in 1 .. RowLength
      PROVE  w[i] = (code[i] + Predicted(filter, w[i - 1], above[i], IF i = 1 THEN 0 ELSE above[i - 1])) % ByteValues
  <2>1. PICK left, up, corner : /\ left = IF i = 1 THEN 0 ELSE row[i - 1]
                                /\ up = above[i] /\ corner = IF i = 1 THEN 0 ELSE above[i - 1]
    OBVIOUS
  <2>2. i \in Int /\ (i # 1 => i - 1 \in 1 .. RowLength) /\ i - 1 \in 0 .. RowLength /\ i # 0 /\ i \in 0 .. RowLength
    BY <1>0
  <2>3. left \in Nat /\ up \in Nat /\ corner \in Nat /\ row[i] \in 0 .. ByteValues - 1
    BY <1>0, <2>1, <2>2 DEF RowsOfBytes
  <2>4. PICK p : p = IF filter = 4 THEN Closest(left, up, corner)
                     ELSE <<0, left, up, (left + up) \div 2>>[filter + 1]
    OBVIOUS
  <2>5. p \in Nat /\ p = Predicted(filter, left, up, corner)
    <3>1. /\ Predicted(filter, left, up, corner) \in Nat
          /\ Predicted(filter, left, up, corner) =
               IF filter = 4 THEN Closest(left, up, corner)
               ELSE <<0, left, up, (left + up) \div 2>>[filter + 1]
      BY <2>3, SamePrediction, Zenon
    <3> QED BY <2>4, <3>1, Zenon
  <2>6. code[i] = (row[i] - p) % ByteValues
    <3>1. code = [k \in 1 .. RowLength |->
              LET l == IF k = 1 THEN 0 ELSE row[k - 1]
                  c == IF k = 1 THEN 0 ELSE above[k - 1]
                  predictor == IF filter = 4 THEN Closest(l, above[k], c)
                               ELSE <<0, l, above[k], (l + above[k]) \div 2>>[filter + 1]
              IN  (row[k] - predictor) % ByteValues]
      BY <1>2, Zenon DEF Encoded
    <3> QED BY <2>1, <2>4, <3>1
  <2>7. w[i - 1] = left /\ w[i] = row[i]
    BY <1>1, <2>1, <2>2
  <2>8. PICK r : r = row[i]
    OBVIOUS
  <2>9. r \in Int /\ r \in 0 .. ByteValues - 1 /\ p \in Int /\ r - p \in Int /\ (r - p) + p = r
    BY <1>0, <2>3, <2>5, <2>8
  <2>10. (((r - p) % ByteValues) + p) % ByteValues = ((r - p) + p) % ByteValues
    BY Zenon, <1>0, <2>9, ModAdd
  <2>11. r % ByteValues = r
    <3>1. r = ByteValues * 0 + r /\ 0 \in Int
      BY <1>0, <2>9
    <3> QED BY <1>0, <2>9, <3>1, ModUnique
  <2>12. (code[i] + p) % ByteValues = r
    BY <2>6, <2>8, <2>9, <2>10, <2>11
  <2> QED BY <2>1, <2>5, <2>7, <2>8, <2>12
<1>4. CurrIs(filter, code, above, w)
  <2>1. w = [i \in 0 .. RowLength |->
               IF i = 0 THEN 0
               ELSE (code[i] + Predicted(filter, w[i - 1], above[i], IF i = 1 THEN 0 ELSE above[i - 1])) % ByteValues]
    <3>1. \A i \in 0 .. RowLength : i # 0 => i \in 1 .. RowLength
      BY <1>0
    <3> QED BY Zenon, <1>0, <1>1, <1>3, <3>1
  <2> QED BY Zenon, <2>1 DEF CurrIs
<1>5. PICK curr : curr = CHOOSE v : CurrIs(filter, code, above, v)
  OBVIOUS
<1>6. CurrIs(filter, code, above, curr)
  BY <1>4, <1>5, Zenon
<1>7. ASSUME NEW k \in 0 .. RowLength, curr[k] # w[k] PROVE FALSE
  <2> DEFINE S == {j \in 0 .. RowLength : curr[j] # w[j]}
  <2>1. S \in SUBSET Nat /\ S # {}
    BY <1>0, <1>7
  <2>2. PICK m \in S : \A j \in S : m <= j
    BY Zenon, <2>1, Least
  <2>3. m \in 0 .. RowLength /\ curr[m] # w[m] /\ m \in Int
    BY <1>0, <2>2
  <2>4. curr[m] = IF m = 0 THEN 0
                  ELSE (code[m] + Predicted(filter, curr[m - 1], above[m], IF m = 1 THEN 0 ELSE above[m - 1])) % ByteValues
    BY Zenon, <1>6, <2>3 DEF CurrIs
  <2>5. m # 0
    BY <1>1, <2>3, <2>4
  <2>6. m \in 1 .. RowLength /\ m - 1 \in 0 .. RowLength /\ ~(m <= m - 1)
    BY <1>0, <2>3, <2>5
  <2>7. curr[m - 1] = w[m - 1]
    BY <2>2, <2>6
  <2> QED BY <1>3, <2>3, <2>4, <2>5, <2>6, <2>7
<1>8. Unfiltered(filter, code, above) = [i \in 1 .. RowLength |-> curr[i]]
  BY <1>5, CurrChosen
<1>9. \A i \in 1 .. RowLength : curr[i] = row[i]
  <2>1. \A i \in 1 .. RowLength : i \in 0 .. RowLength /\ i # 0
    BY <1>0
  <2> QED BY <1>1, <1>7, <2>1
<1>10. [i \in 1 .. RowLength |-> curr[i]] = row
  BY <1>9 DEF RowsOfBytes
<1> QED BY <1>2, <1>8, <1>10

\* Then both rows of the picture are decoded to what was encoded.
LEMMA RowsSafe == RowsInv => RowsDecoded
<1> SUFFICES ASSUME RowsInv, png.rows # <<>>
             PROVE  PngRows(<<Encoded(png.filters[1], png.rows[1], NoRow),
                              Encoded(png.filters[2], png.rows[2], png.rows[1])>>, png.filters) = png.rows
  BY DEF RowsDecoded
<1>1. PICK f \in 0 .. 4, g \in 0 .. 4 : png.filters = <<f, g>>
  BY DEF RowsInv
<1>2. PICK rows : rows = png.rows
  OBVIOUS
<1>3. rows \in [1 .. 2 -> RowsOfBytes] /\ rows[1] \in RowsOfBytes /\ rows[2] \in RowsOfBytes
  BY <1>2 DEF RowsInv
<1>4. NoRow \in RowsOfBytes
  BY PixelsAssumption DEF NoRow, RowsOfBytes
<1>5. PICK a, b : a = Encoded(f, rows[1], NoRow) /\ b = Encoded(g, rows[2], rows[1])
  OBVIOUS
<1>6. Unfiltered(f, a, NoRow) = rows[1]
  BY <1>3, <1>4, <1>5, RowDecodes
<1>7. Unfiltered(g, b, rows[1]) = rows[2]
  BY <1>3, <1>5, RowDecodes
<1>8. PngRows(<<a, b>>, <<f, g>>) = <<rows[1], rows[2]>>
  BY <1>6, <1>7 DEF PngRows
<1>9. rows = <<rows[1], rows[2]>>
  BY <1>3
<1>10. png.filters[1] = f /\ png.filters[2] = g
  BY <1>1
<1> QED BY <1>1, <1>2, <1>5, <1>8, <1>9, <1>10

-----------------------------------------------------------------------------
DrawnInv == TaskbarInv /\ LayoutInv /\ CacheInv /\ PictureInv /\ BlitInv /\ RowsInv

-----------------------------------------------------------------------------
(* Recursion and induction over the numbers up to n, with the step as a      *)
(* function and the property as a set.                                       *)

\* What holds of 0, and of k when it holds of k - 1, holds up to n.
LEMMA UpTo ==
  ASSUME NEW n \in Nat, NEW Good, 0 \in Good, \A k \in 1 .. n : k - 1 \in Good => k \in Good
  PROVE  \A k \in 0 .. n : k \in Good
<1> SUFFICES ASSUME NEW k \in 0 .. n, k \notin Good PROVE FALSE
  OBVIOUS
<1> DEFINE S == {j \in 0 .. n : j \notin Good}
<1>1. S \in SUBSET Nat /\ S # {}
  OBVIOUS
<1>2. PICK m : m = Min(S)
  BY Zenon
<1>3. m \in S /\ \A j \in S : m <= j
  BY Zenon, <1>1, <1>2, Least
<1>4. m \in 0 .. n /\ m \notin Good /\ m # 0
  BY <1>3
<1>5. m \in 1 .. n /\ m - 1 \in 0 .. n /\ ~(m <= m - 1)
  BY <1>4
<1>6. m - 1 \in Good
  BY <1>3, <1>5
<1> QED BY <1>4, <1>5, <1>6

\* The values that the steps lead through
Steps(t, a, n, step) == t[0] = a /\ \A k \in 1 .. n : t[k] = step[<<k, t[k - 1]>>]

\* They exist when every step stays in S.
LEMMA Iterated ==
  ASSUME NEW S, NEW a \in S, NEW n \in Nat, NEW step \in [(1 .. n) \X S -> S]
  PROVE  \E t \in [0 .. n -> S] : Steps(t, a, n, step)
<1> DEFINE Good == {k \in 0 .. n : \E t \in [0 .. k -> S] : Steps(t, a, k, step)}
<1>1. 0 \in Good
  <2>1. PICK t : t = [j \in 0 .. 0 |-> a]
    BY Zenon
  <2>2. t \in [0 .. 0 -> S] /\ t[0] = a
    BY <2>1
  <2>3. Steps(t, a, 0, step)
    BY <2>2 DEF Steps
  <2> QED BY <2>2, <2>3
<1>2. ASSUME NEW k \in 1 .. n, k - 1 \in Good PROVE k \in Good
  <2>1. PICK t \in [0 .. k - 1 -> S] : Steps(t, a, k - 1, step)
    BY <1>2
  <2>2. PICK v : v = step[<<k, t[k - 1]>>]
    OBVIOUS
  <2>3. k - 1 \in 0 .. k - 1 /\ k \in 0 .. n /\ 0 \in 0 .. k - 1 /\ k # 0
    OBVIOUS
  <2>4. v \in S
    BY <2>2, <2>3
  <2>5. PICK u : u = [j \in 0 .. k |-> IF j = k THEN v ELSE t[j]]
    BY Zenon
  <2>6. \A j \in 0 .. k : j # k => j \in 0 .. k - 1
    OBVIOUS
  <2>7. u \in [0 .. k -> S]
    BY <2>4, <2>5, <2>6
  <2>8. \A j \in 0 .. k - 1 : u[j] = t[j]
    <3>1. \A j \in 0 .. k - 1 : j \in 0 .. k /\ j # k
      OBVIOUS
    <3> QED BY <2>5, <3>1
  <2>9. u[k] = v
    BY <2>5
  <2>10. \A j \in 1 .. k : u[j] = step[<<j, u[j - 1]>>]
    <3> TAKE j \in 1 .. k
    <3>1. CASE j = k
      BY Zenon, <2>2, <2>3, <2>8, <2>9, <3>1
    <3>2. CASE j # k
      <4>1. j \in 1 .. k - 1 /\ j \in 0 .. k - 1 /\ j - 1 \in 0 .. k - 1
        BY <3>2
      <4>2. t[j] = step[<<j, t[j - 1]>>]
        BY <2>1, <4>1 DEF Steps
      <4> QED BY Zenon, <2>8, <4>1, <4>2
    <3> QED BY <3>1, <3>2
  <2>11. Steps(u, a, k, step)
    BY <2>1, <2>3, <2>8, <2>10 DEF Steps
  <2> QED BY <2>3, <2>7, <2>11
<1>3. n \in Good
  <2>1. n \in 0 .. n
    OBVIOUS
  <2> HIDE DEF Good
  <2> QED BY <1>1, <1>2, <2>1, UpTo
<1> QED BY <1>3

-----------------------------------------------------------------------------
(* Rectangles.                                                               *)

Rects == [x : Int, y : Int, w : Int, h : Int]
Solid == [x : Int, y : Int, w : Nat \ {0}, h : Nat \ {0}]
Tiles(s) == s \in Seq(Solid) /\ \A i, j \in 1 .. Len(s) : i # j => Cells(s[i]) \cap Cells(s[j]) = {}

\* Which points are in a rectangle.
LEMMA CellsAre ==
  ASSUME NEW r \in Rects
  PROVE  /\ Cells(r) \subseteq Int \X Int
         /\ \A a, b \in Int : <<a, b>> \in Cells(r) <=> /\ r.x <= a /\ a < r.x + r.w
                                                        /\ r.y <= b /\ b < r.y + r.h
<1>1. PICK x \in Int, y \in Int, w \in Int, h \in Int : r.x = x /\ r.y = y /\ r.w = w /\ r.h = h
  BY DEF Rects
<1>2. Cells(r) = (x .. x + w - 1) \X (y .. y + h - 1)
  BY <1>1 DEF Cells
<1>3. Cells(r) \subseteq Int \X Int
  BY <1>2
<1>4. \A a, b \in Int : <<a, b>> \in Cells(r) <=> x <= a /\ a < x + w /\ y <= b /\ b < y + h
  <2> TAKE a, b \in Int
  <2>1. <<a, b>> \in Cells(r) <=> a \in x .. x + w - 1 /\ b \in y .. y + h - 1
    BY <1>2
  <2> QED BY <2>1
<1> QED BY <1>1, <1>3, <1>4

\* Corners gives the rectangle between two points.
LEMMA CornersAre ==
  ASSUME NEW x1 \in Int, NEW y1 \in Int, NEW x2 \in Int, NEW y2 \in Int
  PROVE  /\ Corners(x1, y1, x2, y2) \in Rects
         /\ Corners(x1, y1, x2, y2).w = x2 - x1 /\ Corners(x1, y1, x2, y2).h = y2 - y1
         /\ Cells(Corners(x1, y1, x2, y2)) \subseteq Int \X Int
         /\ \A a, b \in Int : <<a, b>> \in Cells(Corners(x1, y1, x2, y2)) <=>
                                 x1 <= a /\ a < x2 /\ y1 <= b /\ b < y2
<1>1. PICK r : r = Corners(x1, y1, x2, y2)
  OBVIOUS
<1>2. r \in Rects /\ r.x = x1 /\ r.y = y1 /\ r.w = x2 - x1 /\ r.h = y2 - y1
  BY <1>1 DEF Corners, Box, Rects
<1>3. Cells(r) \subseteq Int \X Int /\ \A a, b \in Int : <<a, b>> \in Cells(r) <=> /\ r.x <= a /\ a < r.x + r.w
                                                        /\ r.y <= b /\ b < r.y + r.h
  BY <1>2, CellsAre
<1>4. x1 + (x2 - x1) = x2 /\ y1 + (y2 - y1) = y2
  OBVIOUS
<1>5. \A a, b \in Int : <<a, b>> \in Cells(r) <=> x1 <= a /\ a < x2 /\ y1 <= b /\ b < y2
  BY Zenon, <1>2, <1>3, <1>4
<1> QED BY <1>1, <1>2, <1>3, <1>5

\* Rectangles that do not overlap have no point in common, and the other way round.
LEMMA Apart ==
  ASSUME NEW a \in Rects, NEW b \in Rects
  PROVE  /\ ~Overlap(a, b) => Cells(a) \cap Cells(b) = {}
         /\ a \in Solid /\ b \in Solid /\ Cells(a) \cap Cells(b) = {} => ~Overlap(a, b)
<1>1. PICK ax \in Int, ay \in Int, aw \in Int, ah \in Int : a.x = ax /\ a.y = ay /\ a.w = aw /\ a.h = ah
  BY DEF Rects
<1>2. PICK bx \in Int, by \in Int, bw \in Int, bh \in Int : b.x = bx /\ b.y = by /\ b.w = bw /\ b.h = bh
  BY DEF Rects
<1>3. Overlap(a, b) <=> ~(ax + aw <= bx \/ bx + bw <= ax \/ ay + ah <= by \/ by + bh <= ay)
  BY <1>1, <1>2 DEF Overlap
<1>4. Cells(a) \subseteq Int \X Int
      /\ \A p, q \in Int : <<p, q>> \in Cells(a) <=> ax <= p /\ p < ax + aw /\ ay <= q /\ q < ay + ah
  BY <1>1, CellsAre
<1>5. \A p, q \in Int : <<p, q>> \in Cells(b) <=> bx <= p /\ p < bx + bw /\ by <= q /\ q < by + bh
  BY Zenon, <1>2, CellsAre
<1>6. ASSUME ~Overlap(a, b), NEW c \in Cells(a) \cap Cells(b) PROVE FALSE
  <2>1. PICK p \in Int, q \in Int : c = <<p, q>>
    BY <1>4
  <2>2. ax <= p /\ p < ax + aw /\ ay <= q /\ q < ay + ah
    BY <1>4, <1>6, <2>1
  <2>3. bx <= p /\ p < bx + bw /\ by <= q /\ q < by + bh
    BY <1>5, <1>6, <2>1
  <2> QED BY <1>3, <1>6, <2>2, <2>3
<1>7. ASSUME a \in Solid, b \in Solid, Overlap(a, b) PROVE Cells(a) \cap Cells(b) # {}
  <2>1. aw > 0 /\ ah > 0 /\ bw > 0 /\ bh > 0
    BY <1>1, <1>2, <1>7 DEF Solid
  <2>2. PICK p \in Int, q \in Int : p = (IF ax < bx THEN bx ELSE ax) /\ q = (IF ay < by THEN by ELSE ay)
    OBVIOUS
  <2>3. ax <= p /\ p < ax + aw /\ ay <= q /\ q < ay + ah
    BY <1>3, <1>7, <2>1, <2>2
  <2>4. bx <= p /\ p < bx + bw /\ by <= q /\ q < by + bh
    BY <1>3, <1>7, <2>1, <2>2
  <2>5. <<p, q>> \in Cells(a) /\ <<p, q>> \in Cells(b)
    BY <1>4, <1>5, <2>3, <2>4
  <2> QED BY <2>5
<1> QED BY <1>6, <1>7

\* A union has the points of both.
LEMMA MergedHas ==
  ASSUME NEW a \in Solid, NEW b \in Solid
  PROVE  Merged(a, b) \in Solid /\ Cells(a) \cup Cells(b) \subseteq Cells(Merged(a, b))
<1>1. PICK ax \in Int, ay \in Int, aw \in Nat \ {0}, ah \in Nat \ {0} : a.x = ax /\ a.y = ay /\ a.w = aw /\ a.h = ah
  BY DEF Solid
<1>2. PICK bx \in Int, by \in Int, bw \in Nat \ {0}, bh \in Nat \ {0} : b.x = bx /\ b.y = by /\ b.w = bw /\ b.h = bh
  BY DEF Solid
<1>3. PICK x1 \in Int, y1 \in Int, x2 \in Int, y2 \in Int :
          /\ x1 = Smaller(ax, bx) /\ y1 = Smaller(ay, by)
          /\ x2 = Larger(ax + aw, bx + bw) /\ y2 = Larger(ay + ah, by + bh)
  BY DEF Smaller, Larger
<1>4. /\ x1 <= ax /\ x1 <= bx /\ y1 <= ay /\ y1 <= by /\ ax + aw <= x2 /\ bx + bw <= x2
      /\ ay + ah <= y2 /\ by + bh <= y2
  BY <1>3 DEF Smaller, Larger
<1>5. PICK m : m = Merged(a, b)
  OBVIOUS
<1>6. m = Corners(x1, y1, x2, y2)
  BY <1>1, <1>2, <1>3, <1>5 DEF Merged
<1>7. x2 - x1 \in Nat \ {0} /\ y2 - y1 \in Nat \ {0}
  BY <1>4
<1>8. m \in Solid
  BY <1>6, <1>7 DEF Corners, Box, Solid
<1>9. \A p, q \in Int : <<p, q>> \in Cells(m) <=> x1 <= p /\ p < x2 /\ y1 <= q /\ q < y2
  BY Zenon, <1>6, CornersAre
<1>10. a \in Rects /\ b \in Rects
  BY DEF Solid, Rects
<1>11. /\ Cells(a) \subseteq Int \X Int /\ Cells(b) \subseteq Int \X Int
       /\ \A p, q \in Int : <<p, q>> \in Cells(a) <=> ax <= p /\ p < ax + aw /\ ay <= q /\ q < ay + ah
       /\ \A p, q \in Int : <<p, q>> \in Cells(b) <=> bx <= p /\ p < bx + bw /\ by <= q /\ q < by + bh
  BY <1>1, <1>2, <1>10, CellsAre
<1>12. ASSUME NEW c \in Cells(a) \cup Cells(b) PROVE c \in Cells(m)
  <2>1. PICK p \in Int, q \in Int : c = <<p, q>>
    BY <1>11
  <2>2. CASE c \in Cells(a)
    <3>1. ax <= p /\ p < ax + aw /\ ay <= q /\ q < ay + ah
      BY <1>11, <2>1, <2>2
    <3>2. x1 <= p /\ p < x2 /\ y1 <= q /\ q < y2
      BY <1>4, <3>1
    <3> QED BY <1>9, <2>1, <3>2
  <2>3. CASE c \in Cells(b)
    <3>1. bx <= p /\ p < bx + bw /\ by <= q /\ q < by + bh
      BY <1>11, <2>1, <2>3
    <3>2. x1 <= p /\ p < x2 /\ y1 <= q /\ q < y2
      BY <1>4, <3>1
    <3> QED BY <1>9, <2>1, <3>2
  <2> QED BY <1>12, <2>2, <2>3
<1> QED BY <1>5, <1>8, <1>12

-----------------------------------------------------------------------------
(* Lists of rectangles.                                                      *)

\* The points that a list covers.
LEMMA CoverHas ==
  ASSUME NEW s \in Seq(Rects)
  PROVE  /\ Len(s) \in Nat /\ DOMAIN s = 1 .. Len(s)
         /\ \A c : c \in Cover(s) <=> \E i \in 1 .. Len(s) : c \in Cells(s[i])
<1>1. Len(s) \in Nat /\ DOMAIN s = 1 .. Len(s)
  OBVIOUS
<1>2. ASSUME NEW c PROVE c \in Cover(s) <=> \E i \in 1 .. Len(s) : c \in Cells(s[i])
  BY <1>1 DEF Cover
<1> QED BY <1>1, <1>2

\* Rectangles with an inside are rectangles.
LEMMA SolidRects == Solid \subseteq Rects /\ Seq(Solid) \subseteq Seq(Rects)
<1>1. Solid \subseteq Rects
  BY DEF Solid, Rects
<1> QED BY <1>1

\* Two lists with no point in common, one after the other.
LEMMA TilesJoined ==
  ASSUME NEW u, NEW v, Tiles(u), Tiles(v), Cover(u) \cap Cover(v) = {}
  PROVE  Tiles(u \o v) /\ Cover(u \o v) = Cover(u) \cup Cover(v)
<1>1. u \in Seq(Solid) /\ v \in Seq(Solid) /\ u \in Seq(Rects) /\ v \in Seq(Rects)
  BY SolidRects DEF Tiles
<1>2. PICK m \in Nat, n \in Nat : m = Len(u) /\ n = Len(v)
  BY <1>1
<1>3. PICK s : s = u \o v
  BY Zenon
<1>4. s \in Seq(Solid) /\ s \in Seq(Rects) /\ Len(s) = m + n
  BY <1>1, <1>2, <1>3, SolidRects, ConcatProperties
<1>5. \A i \in 1 .. m : s[i] = u[i] /\ i \in 1 .. m + n
  BY <1>1, <1>2, <1>3, ConcatProperties
<1>6. \A i \in 1 .. n : s[m + i] = v[i] /\ m + i \in 1 .. m + n
  <2> TAKE i \in 1 .. n
  <2>1. m + i \in 1 .. m + n /\ m + i > m /\ m + i - m = i
    BY <1>2
  <2> QED BY <1>1, <1>2, <1>3, <2>1, ConcatProperties
<1>7. \A j \in 1 .. m + n : j \in 1 .. m \/ (j - m \in 1 .. n /\ m + (j - m) = j)
  BY <1>2
<1>8. \A c : c \in Cover(u) <=> \E i \in 1 .. m : c \in Cells(u[i])
  BY <1>1, <1>2, CoverHas
<1>9. \A c : c \in Cover(v) <=> \E i \in 1 .. n : c \in Cells(v[i])
  BY <1>1, <1>2, CoverHas
<1>10. \A c : c \in Cover(s) <=> \E i \in 1 .. m + n : c \in Cells(s[i])
  BY <1>4, CoverHas
<1>11. ASSUME NEW c PROVE c \in Cover(s) <=> c \in Cover(u) \/ c \in Cover(v)
  <2>1. ASSUME c \in Cover(u) PROVE c \in Cover(s)
    <3>1. PICK i \in 1 .. m : c \in Cells(u[i])
      BY <1>8, <2>1
    <3>2. i \in 1 .. m + n /\ c \in Cells(s[i])
      BY <1>5, <3>1
    <3> QED BY <1>10, <3>2
  <2>2. ASSUME c \in Cover(v) PROVE c \in Cover(s)
    <3>1. PICK i \in 1 .. n : c \in Cells(v[i])
      BY <1>9, <2>2
    <3>2. m + i \in 1 .. m + n /\ c \in Cells(s[m + i])
      BY <1>6, <3>1
    <3> QED BY <1>10, <3>2
  <2>3. ASSUME c \in Cover(s) PROVE c \in Cover(u) \/ c \in Cover(v)
    <3>1. PICK j \in 1 .. m + n : c \in Cells(s[j])
      BY <1>10, <2>3
    <3>2. CASE j \in 1 .. m
      BY <1>5, <1>8, <3>1, <3>2
    <3>3. CASE j - m \in 1 .. n /\ m + (j - m) = j
      <4>1. PICK i \in 1 .. n : m + i = j
        BY <3>3
      <4> QED BY <1>6, <1>9, <3>1, <4>1
    <3> QED BY <1>7, <3>2, <3>3
  <2> QED BY <2>1, <2>2, <2>3
<1>12. ASSUME NEW i \in 1 .. m + n, NEW j \in 1 .. m + n, i # j PROVE Cells(s[i]) \cap Cells(s[j]) = {}
  <2>1. ASSUME NEW a \in 1 .. m, NEW b \in 1 .. n, NEW c \in Cells(s[a]), c \in Cells(s[m + b]) PROVE FALSE
    <3>1. c \in Cells(u[a]) /\ c \in Cells(v[b])
      BY <1>5, <1>6, <2>1
    <3> QED BY <1>8, <1>9, <3>1
  <2>2. CASE i \in 1 .. m /\ j \in 1 .. m
    BY Zenon, <1>2, <1>5, <1>12, <2>2 DEF Tiles
  <2>3. CASE i \notin 1 .. m /\ j \notin 1 .. m
    <3>1. PICK a \in 1 .. n : m + a = i
      BY <1>7, <2>3
    <3>2. PICK b \in 1 .. n : m + b = j
      BY <1>7, <2>3
    <3>3. a # b /\ s[i] = v[a] /\ s[j] = v[b]
      BY <1>6, <1>12, <3>1, <3>2
    <3> QED BY Zenon, <1>2, <3>3 DEF Tiles
  <2>4. CASE i \in 1 .. m /\ j \notin 1 .. m
    <3>1. PICK b \in 1 .. n : m + b = j
      BY <1>7, <2>4
    <3> QED BY <2>1, <2>4, <3>1
  <2>5. CASE i \notin 1 .. m /\ j \in 1 .. m
    <3>1. PICK b \in 1 .. n : m + b = i
      BY <1>7, <2>5
    <3> QED BY <2>1, <2>5, <3>1
  <2> QED BY <2>2, <2>3, <2>4, <2>5
<1>13. Tiles(s)
  BY <1>4, <1>12 DEF Tiles
<1> QED BY <1>3, <1>11, <1>13

\* A list of one rectangle and one of none.
LEMMA FewTiles ==
  /\ Tiles(<<>>) /\ Cover(<<>>) = {}
  /\ \A r \in Solid : Tiles(<<r>>) /\ Cover(<<r>>) = Cells(r)
<1>1. <<>> \in Seq(Solid) /\ Len(<<>>) = 0
  OBVIOUS
<1>2. Tiles(<<>>)
  BY <1>1 DEF Tiles
<1>3. Cover(<<>>) = {}
  <2>1. PICK s \in Seq(Rects) : s = <<>> /\ Len(s) = 0
    BY Zenon, <1>1, SolidRects
  <2>2. \A c : c \in Cover(s) <=> \E i \in 1 .. 0 : c \in Cells(s[i])
    BY Zenon, <2>1, CoverHas
  <2>3. \A i \in 1 .. 0 : FALSE
    OBVIOUS
  <2> QED BY <2>1, <2>2, <2>3
<1>4. ASSUME NEW r \in Solid PROVE Tiles(<<r>>) /\ Cover(<<r>>) = Cells(r)
  <2>1. PICK s : s = <<r>>
    BY Zenon
  <2>2. s \in Seq(Solid) /\ Len(s) = 1 /\ s[1] = r
    BY <2>1
  <2>3. \A i \in 1 .. 1 : i = 1
    OBVIOUS
  <2>4. Tiles(s)
    BY <2>2, <2>3 DEF Tiles
  <2>5. \A c : c \in Cover(s) <=> \E i \in 1 .. 1 : c \in Cells(s[i])
    BY <2>2, SolidRects, CoverHas
  <2>6. \A c : c \in Cover(s) <=> c \in Cells(r)
    BY <2>2, <2>3, <2>5
  <2> QED BY Zenon, <2>1, <2>4, <2>6
<1> QED BY <1>2, <1>3, <1>4

\* Lists put together: each of them tiles its own part.
Parted(f, n) == /\ \A i \in 1 .. n : Tiles(f[i])
                /\ \A i, j \in 1 .. n : i # j => Cover(f[i]) \cap Cover(f[j]) = {}
PartsOf(f, n) == UNION {Cover(f[i]) : i \in 1 .. n}

\* What a list of lists covers is what the lists cover.
LEMMA FlatTiles ==
  ASSUME NEW n \in Nat, NEW f, f = [i \in 1 .. n |-> f[i]], Parted(f, n)
  PROVE  Tiles(FlattenSeq(f)) /\ Cover(FlattenSeq(f)) = PartsOf(f, n)
<1>1. f \in Seq(Seq(Solid)) /\ Len(f) = n /\ DOMAIN f = 1 .. n
  <2>1. \A i \in 1 .. n : f[i] \in Seq(Solid)
    BY DEF Parted, Tiles
  <2>2. f \in [1 .. n -> Seq(Solid)]
    BY <2>1
  <2>3. f \in Seq(Seq(Solid))
    BY <2>2, SeqDef
  <2> QED BY <2>2, <2>3, LenProperties
<1>2. CASE n = 0
  <2>1. f = <<>>
    BY <1>1, <1>2
  <2>2. FlattenSeq(f) = <<>>
    BY <1>1, <1>2, <2>1 DEF FlattenSeq
  <2>3. PartsOf(f, n) = {}
    BY <1>2 DEF PartsOf
  <2> QED BY Zenon, <2>2, <2>3, FewTiles
<1>3. CASE n # 0
  <2> DEFINE IsFlat(h) == h = [i \in 1 .. n |-> IF i = 1 THEN f[i] ELSE h[i - 1] \o f[i]]
  <2>1. PICK g : IsFlat(g) /\ FlattenSeq(f) = g[n]
    <3>1. PICK step : step = [p \in (1 .. n) \X Seq(Solid) |-> p[2] \o f[p[1]]]
      BY Zenon
    <3>2. \A i \in 1 .. n : f[i] \in Seq(Solid)
      BY DEF Parted, Tiles
    <3>3. \A p \in (1 .. n) \X Seq(Solid) : p[1] \in 1 .. n /\ p[2] \in Seq(Solid)
      OBVIOUS
    <3>4. \A p \in (1 .. n) \X Seq(Solid) : p[2] \o f[p[1]] \in Seq(Solid)
      BY <3>2, <3>3, ConcatProperties
    <3>5. step \in [(1 .. n) \X Seq(Solid) -> Seq(Solid)]
      BY <3>1, <3>4
    <3>6. <<>> \in Seq(Solid)
      OBVIOUS
    <3>7. PICK t \in [0 .. n -> Seq(Solid)] : Steps(t, <<>>, n, step)
      BY Zenon, <3>5, <3>6, Iterated
    <3>8. PICK g : g = [i \in 1 .. n |-> t[i]]
      BY Zenon
    <3>9. \A i \in 1 .. n : t[i - 1] \in Seq(Solid) /\ t[i] = t[i - 1] \o f[i]
      <4> TAKE i \in 1 .. n
      <4>1. i - 1 \in 0 .. n
        OBVIOUS
      <4>2. t[i - 1] \in Seq(Solid)
        BY <4>1
      <4>3. PICK q \in Seq(Solid) : q = t[i - 1]
        BY <4>2
      <4>4. t[i] = step[<<i, q>>]
        BY <3>7, <4>3 DEF Steps
      <4>5. step[<<i, q>>] = q \o f[i]
        BY Zenon, <3>1
      <4> QED BY <4>2, <4>3, <4>4, <4>5
    <3>10. ASSUME NEW i \in 1 .. n PROVE g[i] = IF i = 1 THEN f[i] ELSE g[i - 1] \o f[i]
      <4>1. CASE i = 1
        <5>1. t[0] = <<>>
          BY <3>7 DEF Steps
        <5>2a. 1 \in 1 .. n /\ 1 - 1 = 0
          BY <4>1
        <5>2. t[1] = <<>> \o f[1] /\ 1 \in 1 .. n
          BY Zenon, <3>9, <5>1, <5>2a
        <5>3. <<>> \o f[1] = f[1]
          BY <3>2, <5>2, ConcatEmptySeq
        <5> QED BY <3>8, <4>1, <5>2, <5>3
      <4>2. CASE i # 1
        <5>1. i - 1 \in 1 .. n
          BY <4>2
        <5> QED BY Zenon, <3>8, <3>9, <4>2, <5>1
      <4> QED BY <4>1, <4>2
    <3>11. IsFlat(g)
      BY Zenon, <3>8, <3>10
    <3>12. FlattenSeq(f) = (CHOOSE h : IsFlat(h))[n]
      BY <1>1, <1>3 DEF FlattenSeq
    <3>13. IsFlat(CHOOSE h : IsFlat(h))
      <4> HIDE DEF IsFlat
      <4> QED BY Zenon, <3>11
    <3> HIDE DEF IsFlat
    <3> QED BY Zenon, <3>12, <3>13
  <2>2. \A i \in 1 .. n : g[i] = IF i = 1 THEN f[i] ELSE g[i - 1] \o f[i]
    BY Zenon, <2>1
  <2> DEFINE Good == {k \in 0 .. n : k # 0 => Tiles(g[k]) /\ Cover(g[k]) = PartsOf(f, k)}
  <2>3. 0 \in Good
    OBVIOUS
  <2>4. ASSUME NEW k \in 1 .. n, k - 1 \in Good PROVE k \in Good
    <3>0. k \in 0 .. n
      OBVIOUS
    <3>1. CASE k = 1
      <4>1. g[k] = f[k] /\ Tiles(f[k])
        BY <2>2, <3>1 DEF Parted
      <4>2. \A i \in 1 .. 1 : i = 1
        OBVIOUS
      <4>3. PartsOf(f, 1) = Cover(f[1])
        BY <4>2 DEF PartsOf
      <4> QED BY <3>0, <3>1, <4>1, <4>3
    <3>2. CASE k # 1
      <4>1. PICK j \in 1 .. n : j = k - 1
        BY <3>2
      <4>2. Tiles(g[j]) /\ Cover(g[j]) = PartsOf(f, j)
        BY <2>4, <4>1
      <4>3. g[k] = g[j] \o f[k]
        BY Zenon, <2>2, <3>2, <4>1
      <4>4. Tiles(f[k])
        BY DEF Parted
      <4>5. \A i \in 1 .. k : (i \in 1 .. j \/ i = k) /\ i \in 1 .. n
        BY <4>1
      <4>6. \A i \in 1 .. j : i \in 1 .. k /\ i # k
        BY <4>1
      <4>7. Cover(g[j]) \cap Cover(f[k]) = {}
        <5> SUFFICES ASSUME NEW c \in Cover(f[k]), c \in PartsOf(f, j) PROVE FALSE
          BY <4>2
        <5>1. PICK i \in 1 .. j : c \in Cover(f[i])
          BY DEF PartsOf
        <5> QED BY <4>5, <4>6, <5>1 DEF Parted
      <4>8. Tiles(g[j] \o f[k]) /\ Cover(g[j] \o f[k]) = PartsOf(f, j) \cup Cover(f[k])
        BY <4>2, <4>4, <4>7, TilesJoined
      <4>9. PartsOf(f, j) \cup Cover(f[k]) = PartsOf(f, k)
        <5>1. ASSUME NEW c PROVE c \in PartsOf(f, j) \/ c \in Cover(f[k]) <=> c \in PartsOf(f, k)
          <6>1. k \in 1 .. k
            OBVIOUS
          <6> QED BY Zenon, <4>5, <4>6, <6>1 DEF PartsOf
        <5> QED BY <5>1
      <4> QED BY Zenon, <3>0, <4>3, <4>8, <4>9
    <3> QED BY <3>1, <3>2
  <2>5. n \in Good
    <3>1. n \in 0 .. n
      OBVIOUS
    <3> HIDE DEF Good
    <3> QED BY <2>3, <2>4, <3>1, UpTo
  <2> QED BY Zenon, <1>3, <2>1, <2>5
<1> QED BY <1>2, <1>3

\* The rectangles at some places of a list, when those tile their part.
TilesAt(rects, n, places) ==
  /\ DOMAIN rects = 1 .. n /\ places \subseteq 1 .. n /\ \A i \in places : rects[i] \in Solid
  /\ \A i, j \in places : i # j => Cells(rects[i]) \cap Cells(rects[j]) = {}
CoverAt(rects, places) == UNION {Cells(rects[i]) : i \in places}

\* The rectangles of a list that have an inside.
LEMMA OnlyTiles ==
  ASSUME NEW n \in Nat, NEW rects, NEW places, TilesAt(rects, n, places)
  PROVE  Tiles(Only(rects, places)) /\ Cover(Only(rects, places)) = CoverAt(rects, places)
<1>0. /\ DOMAIN rects = 1 .. n /\ places \subseteq 1 .. n /\ \A i \in places : rects[i] \in Solid
      /\ \A i, j \in places : i # j => Cells(rects[i]) \cap Cells(rects[j]) = {}
  BY Zenon DEF TilesAt
<1>1. PICK f : f = [i \in 1 .. n |-> IF i \in places THEN <<rects[i]>> ELSE <<>>]
  BY Zenon
<1>2. Only(rects, places) = FlattenSeq(f)
  BY <1>0, <1>1 DEF Only
<1>3. \A i \in 1 .. n : /\ i \in places => Tiles(f[i]) /\ Cover(f[i]) = Cells(rects[i])
                        /\ i \notin places => Tiles(f[i]) /\ Cover(f[i]) = {}
  <2> TAKE i \in 1 .. n
  <2>1. CASE i \in places
    <3>1. f[i] = <<rects[i]>>
      BY <1>1, <2>1
    <3>2. PICK r \in Solid : r = rects[i]
      BY <1>0, <2>1
    <3> QED BY <2>1, <3>1, <3>2, FewTiles
  <2>2. CASE i \notin places
    <3>1. f[i] = <<>>
      BY <1>1, <2>2
    <3> QED BY <2>2, <3>1, FewTiles
  <2> QED BY <2>1, <2>2
<1>4. Parted(f, n)
  <2>1. \A i \in 1 .. n : Tiles(f[i])
    BY <1>3
  <2>2. ASSUME NEW i \in 1 .. n, NEW j \in 1 .. n, i # j PROVE Cover(f[i]) \cap Cover(f[j]) = {}
    <3>1. CASE i \in places /\ j \in places
      BY <1>0, <1>3, <2>2, <3>1
    <3>2. CASE ~(i \in places /\ j \in places)
      BY <1>0, <1>3, <3>2
    <3> QED BY <3>1, <3>2
  <2> QED BY <2>1, <2>2 DEF Parted
<1>5. f = [i \in 1 .. n |-> f[i]]
  BY <1>1
<1>6. Tiles(FlattenSeq(f)) /\ Cover(FlattenSeq(f)) = PartsOf(f, n)
  BY <1>4, <1>5, FlatTiles
<1>7. ASSUME NEW c PROVE c \in PartsOf(f, n) <=> c \in CoverAt(rects, places)
  <2>1. ASSUME c \in PartsOf(f, n) PROVE c \in CoverAt(rects, places)
    <3>1. PICK i \in 1 .. n : c \in Cover(f[i])
      BY <2>1 DEF PartsOf
    <3>2. i \in places /\ c \in Cells(rects[i])
      BY <1>3, <3>1
    <3> QED BY <3>2 DEF CoverAt
  <2>2. ASSUME c \in CoverAt(rects, places) PROVE c \in PartsOf(f, n)
    <3>1. PICK i \in places : c \in Cells(rects[i])
      BY <2>2 DEF CoverAt
    <3>2. i \in 1 .. n /\ c \in Cover(f[i])
      BY <1>0, <1>3, <3>1
    <3> QED BY <3>2 DEF PartsOf
  <2> QED BY <2>1, <2>2
<1>8. PartsOf(f, n) = CoverAt(rects, places)
  BY <1>7
<1> QED BY <1>2, <1>6, <1>8

\* rect_subtract: the fragments tile what is left of a.
LEMMA FragmentsTile ==
  ASSUME NEW a \in Solid, NEW b \in Solid, Overlap(a, b)
  PROVE  Tiles(Fragments(a, b)) /\ Cover(Fragments(a, b)) = Cells(a) \ Cells(b)
<1>1. PICK ax \in Int, ay \in Int, aw \in Nat \ {0}, ah \in Nat \ {0} : a.x = ax /\ a.y = ay /\ a.w = aw /\ a.h = ah
  BY DEF Solid
<1>2. PICK bx \in Int, by \in Int, bw \in Nat \ {0}, bh \in Nat \ {0} : b.x = bx /\ b.y = by /\ b.w = bw /\ b.h = bh
  BY DEF Solid
<1>3. PICK ax2 \in Int, ay2 \in Int, bx2 \in Int, by2 \in Int : ax2 = ax + aw /\ ay2 = ay + ah /\ bx2 = bx + bw /\ by2 = by + bh
  OBVIOUS
<1>4. PICK x1 \in Int, y1 \in Int, x2 \in Int, y2 \in Int :
          x1 = Larger(bx, ax) /\ y1 = Larger(by, ay) /\ x2 = Smaller(bx2, ax2) /\ y2 = Smaller(by2, ay2)
  BY DEF Larger, Smaller
<1>5. /\ ax < bx2 /\ bx < ax2 /\ ay < by2 /\ by < ay2 /\ ax < ax2 /\ ay < ay2 /\ bx < bx2 /\ by < by2
  BY <1>1, <1>2, <1>3 DEF Overlap
<1>6. /\ x1 = (IF bx > ax THEN bx ELSE ax) /\ y1 = (IF by > ay THEN by ELSE ay)
      /\ x2 = (IF bx2 < ax2 THEN bx2 ELSE ax2) /\ y2 = (IF by2 < ay2 THEN by2 ELSE ay2)
  BY <1>4 DEF Larger, Smaller
<1>7. PICK f1, f2, f3, f4 : /\ f1 = Corners(ax, ay, ax2, y1) /\ f2 = Corners(ax, y2, ax2, ay2)
                            /\ f3 = Corners(ax, y1, x1, y2) /\ f4 = Corners(x2, y1, ax2, y2)
  OBVIOUS
<1>8. PICK four : four = <<f1, f2, f3, f4>>
  BY Zenon
<1>9. PICK places : places = {i \in 1 .. 4 : four[i].w > 0 /\ four[i].h > 0}
  BY Zenon
<1>10. Fragments(a, b) = Only(four, places)
  BY <1>1, <1>2, <1>3, <1>4, <1>7, <1>8, <1>9 DEF Fragments
<1>11. /\ f1 \in Rects /\ Cells(f1) \subseteq Int \X Int
       /\ \A p, q \in Int : <<p, q>> \in Cells(f1) <=> ax <= p /\ p < ax2 /\ ay <= q /\ q < y1
  BY Zenon, <1>7, CornersAre
<1>12. /\ f2 \in Rects /\ Cells(f2) \subseteq Int \X Int
       /\ \A p, q \in Int : <<p, q>> \in Cells(f2) <=> ax <= p /\ p < ax2 /\ y2 <= q /\ q < ay2
  BY Zenon, <1>7, CornersAre
<1>13. /\ f3 \in Rects /\ Cells(f3) \subseteq Int \X Int
       /\ \A p, q \in Int : <<p, q>> \in Cells(f3) <=> ax <= p /\ p < x1 /\ y1 <= q /\ q < y2
  BY Zenon, <1>7, CornersAre
<1>14. /\ f4 \in Rects /\ Cells(f4) \subseteq Int \X Int
       /\ \A p, q \in Int : <<p, q>> \in Cells(f4) <=> x2 <= p /\ p < ax2 /\ y1 <= q /\ q < y2
  BY Zenon, <1>7, CornersAre
<1>15. four[1] = f1 /\ four[2] = f2 /\ four[3] = f3 /\ four[4] = f4 /\ DOMAIN four = 1 .. 4
  BY <1>8
<1>16. \A i \in 1 .. 4 : i = 1 \/ i = 2 \/ i = 3 \/ i = 4
  OBVIOUS
<1>17. \A i \in 1 .. 4 : four[i] \in Rects
  BY <1>11, <1>12, <1>13, <1>14, <1>15, <1>16
<1>18. \A i \in places : four[i] \in Solid
  BY <1>9, <1>17 DEF Rects, Solid
\* A point is in one of them at the most.
<1>19. ASSUME NEW p \in Int, NEW q \in Int
       PROVE  /\ ~(<<p, q>> \in Cells(f1) /\ <<p, q>> \in Cells(f2))
              /\ ~(<<p, q>> \in Cells(f1) /\ <<p, q>> \in Cells(f3))
              /\ ~(<<p, q>> \in Cells(f1) /\ <<p, q>> \in Cells(f4))
              /\ ~(<<p, q>> \in Cells(f2) /\ <<p, q>> \in Cells(f3))
              /\ ~(<<p, q>> \in Cells(f2) /\ <<p, q>> \in Cells(f4))
              /\ ~(<<p, q>> \in Cells(f3) /\ <<p, q>> \in Cells(f4))
  <2>1. <<p, q>> \in Cells(f1) <=> ax <= p /\ p < ax2 /\ ay <= q /\ q < y1
    BY <1>11
  <2>2. <<p, q>> \in Cells(f2) <=> ax <= p /\ p < ax2 /\ y2 <= q /\ q < ay2
    BY <1>12
  <2>3. <<p, q>> \in Cells(f3) <=> ax <= p /\ p < x1 /\ y1 <= q /\ q < y2
    BY <1>13
  <2>4. <<p, q>> \in Cells(f4) <=> x2 <= p /\ p < ax2 /\ y1 <= q /\ q < y2
    BY <1>14
  <2>5. y1 < y2 /\ x1 < x2
    BY <1>5, <1>6
  <2> QED BY <2>1, <2>2, <2>3, <2>4, <2>5
<1>20. \A i, j \in 1 .. 4 : i # j => Cells(four[i]) \cap Cells(four[j]) = {}
  <2>1. \A c \in Int \X Int : \E p, q \in Int : c = <<p, q>>
    OBVIOUS
  <2>2. /\ Cells(f1) \cap Cells(f2) = {} /\ Cells(f1) \cap Cells(f3) = {} /\ Cells(f1) \cap Cells(f4) = {}
        /\ Cells(f2) \cap Cells(f3) = {} /\ Cells(f2) \cap Cells(f4) = {} /\ Cells(f3) \cap Cells(f4) = {}
    <3>1. \A c \in Int \X Int : /\ ~(c \in Cells(f1) /\ c \in Cells(f2))
                                 /\ ~(c \in Cells(f1) /\ c \in Cells(f3))
                                 /\ ~(c \in Cells(f1) /\ c \in Cells(f4))
                                 /\ ~(c \in Cells(f2) /\ c \in Cells(f3))
                                 /\ ~(c \in Cells(f2) /\ c \in Cells(f4))
                                 /\ ~(c \in Cells(f3) /\ c \in Cells(f4))
      <4> TAKE c \in Int \X Int
      <4>1. PICK p \in Int, q \in Int : c = <<p, q>>
        BY <2>1
      <4> QED BY <1>19, <4>1
    <3>2. /\ \A c \in Cells(f1) : c \in Int \X Int
          /\ \A c \in Cells(f2) : c \in Int \X Int
          /\ \A c \in Cells(f3) : c \in Int \X Int
      BY <1>11, <1>12, <1>13
    <3> QED BY <3>1, <3>2
  <2> TAKE i, j \in 1 .. 4
  <2> QED BY <1>15, <1>16, <2>2
<1>21. \A i, j \in places : i # j => Cells(four[i]) \cap Cells(four[j]) = {}
  BY <1>9, <1>20
<1>22. places \in SUBSET (1 .. 4)
  BY <1>9
<1>23. Tiles(Only(four, places)) /\ Cover(Only(four, places)) = CoverAt(four, places)
  <2>1. PICK n \in Nat : n = 4
    OBVIOUS
  <2>2. DOMAIN four = 1 .. n /\ places \subseteq 1 .. n
    BY <1>15, <1>22, <2>1
  <2>3. TilesAt(four, n, places)
    BY Zenon, <1>18, <1>21, <2>2 DEF TilesAt
  <2> QED BY <2>1, <2>3, OnlyTiles
\* A fragment without extent has no points.
<1>24. CoverAt(four, places) = Cells(f1) \cup (Cells(f2) \cup (Cells(f3) \cup Cells(f4)))
  <2>1. ASSUME NEW i \in 1 .. 4, NEW c \in Cells(four[i]) PROVE i \in places
    <3>1. PICK r \in Rects : r = four[i]
      BY <1>17
    <3>2. PICK p \in Int, q \in Int : c = <<p, q>>
      BY <2>1, <3>1, CellsAre
    <3>3. r.x <= p /\ p < r.x + r.w /\ r.y <= q /\ q < r.y + r.h
      BY <2>1, <3>1, <3>2, CellsAre
    <3>4. r.w > 0 /\ r.h > 0
      BY <3>3 DEF Rects
    <3> QED BY <1>9, <3>1, <3>4
  <2>2. ASSUME NEW c PROVE c \in CoverAt(four, places) <=> \E i \in 1 .. 4 : c \in Cells(four[i])
    BY <1>22, <2>1 DEF CoverAt
  <2>3. ASSUME NEW c PROVE (\E i \in 1 .. 4 : c \in Cells(four[i])) <=> (c \in Cells(f1) \/ c \in Cells(f2) \/ c \in Cells(f3) \/ c \in Cells(f4))
    <3>1. 1 \in 1 .. 4 /\ 2 \in 1 .. 4 /\ 3 \in 1 .. 4 /\ 4 \in 1 .. 4
      OBVIOUS
    <3> QED BY <1>15, <1>16, <3>1
  <2> QED BY <2>2, <2>3
<1>25. /\ Cells(a) \subseteq Int \X Int
       /\ \A p, q \in Int : <<p, q>> \in Cells(a) <=> ax <= p /\ p < ax2 /\ ay <= q /\ q < ay2
  <2>1. a \in Rects
    BY SolidRects
  <2> QED BY <1>1, <1>3, <2>1, CellsAre
<1>26. \A p, q \in Int : <<p, q>> \in Cells(b) <=> bx <= p /\ p < bx2 /\ by <= q /\ q < by2
  <2>1. b \in Rects
    BY SolidRects
  <2> QED BY Zenon, <1>2, <1>3, <2>1, CellsAre
<1>27. ASSUME NEW p \in Int, NEW q \in Int
       PROVE  <<p, q>> \in Cells(a) \ Cells(b) <=> (\/ <<p, q>> \in Cells(f1) \/ <<p, q>> \in Cells(f2)
                                                    \/ <<p, q>> \in Cells(f3) \/ <<p, q>> \in Cells(f4))
  <2>1. <<p, q>> \in Cells(f1) <=> ax <= p /\ p < ax2 /\ ay <= q /\ q < y1
    BY <1>11
  <2>2. <<p, q>> \in Cells(f2) <=> ax <= p /\ p < ax2 /\ y2 <= q /\ q < ay2
    BY <1>12
  <2>3. <<p, q>> \in Cells(f3) <=> ax <= p /\ p < x1 /\ y1 <= q /\ q < y2
    BY <1>13
  <2>4. <<p, q>> \in Cells(f4) <=> x2 <= p /\ p < ax2 /\ y1 <= q /\ q < y2
    BY <1>14
  <2>5. <<p, q>> \in Cells(a) <=> ax <= p /\ p < ax2 /\ ay <= q /\ q < ay2
    BY <1>25
  <2>6. <<p, q>> \in Cells(b) <=> bx <= p /\ p < bx2 /\ by <= q /\ q < by2
    BY <1>26
  <2>7. (/\ ax <= p /\ p < ax2 /\ ay <= q /\ q < ay2 /\ ~(bx <= p /\ p < bx2 /\ by <= q /\ q < by2))
        <=> (\/ ax <= p /\ p < ax2 /\ ay <= q /\ q < y1
             \/ ax <= p /\ p < ax2 /\ y2 <= q /\ q < ay2
             \/ ax <= p /\ p < x1 /\ y1 <= q /\ q < y2
             \/ x2 <= p /\ p < ax2 /\ y1 <= q /\ q < y2)
    BY <1>5, <1>6
  <2> QED BY <2>1, <2>2, <2>3, <2>4, <2>5, <2>6, <2>7
<1>28. Cells(a) \ Cells(b) = Cells(f1) \cup (Cells(f2) \cup (Cells(f3) \cup Cells(f4)))
  <2>1. \A c \in Int \X Int : \E p, q \in Int : c = <<p, q>>
    OBVIOUS
  <2>2. \A c \in Int \X Int : c \in Cells(a) \ Cells(b) <=> c \in Cells(f1) \cup (Cells(f2) \cup (Cells(f3) \cup Cells(f4)))
    BY <1>27, <2>1
  <2> QED BY <1>11, <1>12, <1>13, <1>14, <1>25, <2>2
<1> QED BY <1>10, <1>23, <1>24, <1>28

\* A list the other way round
LEMMA TilesReversed ==
  ASSUME NEW s, Tiles(s)
  PROVE  Tiles(Reverse(s)) /\ Cover(Reverse(s)) = Cover(s)
<1>1. s \in Seq(Solid) /\ s \in Seq(Rects)
  BY SolidRects DEF Tiles
<1>2. PICK n \in Nat : n = Len(s)
  BY <1>1
<1>3. PICK t : t = [i \in 1 .. n |-> s[(n - i) + 1]]
  BY Zenon
<1>4. Reverse(s) = t
  BY <1>2, <1>3 DEF Reverse
<1>5. \A i \in 1 .. n : (n - i) + 1 \in 1 .. n
  OBVIOUS
<1>6. t \in [1 .. n -> Solid]
  BY <1>1, <1>2, <1>3, <1>5
<1>7. t \in Seq(Solid) /\ t \in Seq(Rects) /\ Len(t) = n
  <2>1. t \in Seq(Solid)
    BY <1>6, SeqDef
  <2> QED BY <1>6, <2>1, SolidRects, LenProperties
<1>8. \A i \in 1 .. n : t[i] = s[(n - i) + 1]
  BY <1>3
<1>9. \A i \in 1 .. n : \E j \in 1 .. n : i = (n - j) + 1
  <2> TAKE i \in 1 .. n
  <2>1. i = (n - ((n - i) + 1)) + 1
    OBVIOUS
  <2> QED BY <1>5, <2>1
<1>10. \A i, j \in 1 .. n : i # j => Cells(t[i]) \cap Cells(t[j]) = {}
  <2> TAKE i, j \in 1 .. n
  <2> HAVE i # j
  <2>1. PICK k \in 1 .. n, l \in 1 .. n : k = (n - i) + 1 /\ l = (n - j) + 1
    BY <1>5
  <2>2. k # l
    BY <2>1
  <2>3. t[i] = s[k] /\ t[j] = s[l]
    BY <1>8, <2>1
  <2> QED BY Zenon, <1>2, <2>2, <2>3 DEF Tiles
<1>11. Tiles(t)
  BY <1>7, <1>10 DEF Tiles
<1>12. ASSUME NEW c PROVE c \in Cover(t) <=> c \in Cover(s)
  <2>1. c \in Cover(t) <=> \E i \in 1 .. n : c \in Cells(t[i])
    BY <1>7, CoverHas
  <2>2. c \in Cover(s) <=> \E i \in 1 .. n : c \in Cells(s[i])
    BY <1>1, <1>2, CoverHas
  <2>3. ASSUME NEW i \in 1 .. n, c \in Cells(t[i]) PROVE \E j \in 1 .. n : c \in Cells(s[j])
    BY <1>5, <1>8, <2>3
  <2>4. ASSUME NEW j \in 1 .. n, c \in Cells(s[j]) PROVE \E i \in 1 .. n : c \in Cells(t[i])
    <3>1. PICK i \in 1 .. n : j = (n - i) + 1
      BY <1>9
    <3>2. t[i] = s[j]
      BY <1>8, <3>1
    <3> QED BY <2>4, <3>2
  <2> QED BY <2>1, <2>2, <2>3, <2>4
<1> QED BY <1>4, <1>11, <1>12

\* clip_region_subtract_rect: what is left of the list.
LEMMA SubtractTiles ==
  ASSUME NEW rects, Tiles(rects), NEW b \in Solid
  PROVE  Tiles(SubtractRect(rects, b)) /\ Cover(SubtractRect(rects, b)) = Cover(rects) \ Cells(b)
<1>1. rects \in Seq(Solid) /\ rects \in Seq(Rects)
  BY SolidRects DEF Tiles
<1>2. PICK n \in Nat : n = Len(rects) /\ DOMAIN rects = 1 .. n
  BY <1>1
<1>3. PICK f : f = [i \in 1 .. n |-> IF Overlap(rects[i], b) THEN Fragments(rects[i], b) ELSE <<rects[i]>>]
  BY Zenon
<1>4. SubtractRect(rects, b) = Reverse(FlattenSeq(f))
  BY <1>2, <1>3 DEF SubtractRect
<1>5. ASSUME NEW i \in 1 .. n PROVE Tiles(f[i]) /\ Cover(f[i]) = Cells(rects[i]) \ Cells(b)
  <2>1. PICK a \in Solid : a = rects[i]
    BY <1>1, <1>2
  <2>2. CASE Overlap(a, b)
    <3>1. f[i] = Fragments(a, b)
      BY <1>3, <2>1, <2>2
    <3> QED BY <2>1, <2>2, <3>1, FragmentsTile
  <2>3. CASE ~Overlap(a, b)
    <3>1. f[i] = <<a>>
      BY <1>3, <2>1, <2>3
    <3>2. Tiles(f[i]) /\ Cover(f[i]) = Cells(a)
      BY <3>1, FewTiles
    <3>3. Cells(a) \cap Cells(b) = {}
      BY <2>3, SolidRects, Apart
    <3> QED BY <2>1, <3>2, <3>3
  <2> QED BY <2>2, <2>3
<1>6. Parted(f, n)
  <2>1. \A i, j \in 1 .. n : i # j => Cover(f[i]) \cap Cover(f[j]) = {}
    <3>1. \A i, j \in 1 .. n : i # j => Cells(rects[i]) \cap Cells(rects[j]) = {}
      BY <1>2 DEF Tiles
    <3>2. \A i \in 1 .. n : Cover(f[i]) \subseteq Cells(rects[i])
      BY <1>5
    <3> TAKE i, j \in 1 .. n
    <3> HAVE i # j
    <3>3. Cells(rects[i]) \cap Cells(rects[j]) = {}
      BY <3>1
    <3> QED BY <3>2, <3>3
  <2> QED BY <1>5, <2>1 DEF Parted
<1>7. f = [i \in 1 .. n |-> f[i]]
  BY <1>3
<1>8. Tiles(FlattenSeq(f)) /\ Cover(FlattenSeq(f)) = PartsOf(f, n)
  BY <1>6, <1>7, FlatTiles
<1>9. PartsOf(f, n) = Cover(rects) \ Cells(b)
  <2>1. ASSUME NEW c PROVE c \in PartsOf(f, n) <=> c \in Cover(rects) /\ c \notin Cells(b)
    <3>1. c \in Cover(rects) <=> \E i \in 1 .. n : c \in Cells(rects[i])
      BY <1>1, <1>2, CoverHas
    <3>2. c \in PartsOf(f, n) <=> \E i \in 1 .. n : c \in Cover(f[i])
      BY DEF PartsOf
    <3> QED BY <1>5, <3>1, <3>2
  <2> QED BY <2>1
<1>10. Tiles(Reverse(FlattenSeq(f))) /\ Cover(Reverse(FlattenSeq(f))) = Cover(FlattenSeq(f))
  BY <1>8, TilesReversed
<1> QED BY <1>4, <1>8, <1>9, <1>10

\* Parts of a list that tiles.
LEMMA PlacesApart ==
  ASSUME NEW s, Tiles(s)
  PROVE  /\ Cover(s) = CoverAt(s, 1 .. Len(s))
         /\ \A p, q \in SUBSET (1 .. Len(s)) : /\ CoverAt(s, p \cup q) = CoverAt(s, p) \cup CoverAt(s, q)
                                               /\ p \cap q = {} => CoverAt(s, p) \cap CoverAt(s, q) = {}
<1>1. Cover(s) = CoverAt(s, 1 .. Len(s))
  <2>1. s \in Seq(Rects)
    BY SolidRects DEF Tiles
  <2>2. \A c : c \in Cover(s) <=> \E i \in 1 .. Len(s) : c \in Cells(s[i])
    BY <2>1, CoverHas
  <2>3. \A c : c \in Cover(s) <=> c \in CoverAt(s, 1 .. Len(s))
    BY <2>2 DEF CoverAt
  <2> QED BY <2>3
<1>2. ASSUME NEW p \in SUBSET (1 .. Len(s)), NEW q \in SUBSET (1 .. Len(s))
      PROVE  CoverAt(s, p \cup q) = CoverAt(s, p) \cup CoverAt(s, q)
  BY DEF CoverAt
<1>3. ASSUME NEW p \in SUBSET (1 .. Len(s)), NEW q \in SUBSET (1 .. Len(s)), p \cap q = {}
      PROVE  CoverAt(s, p) \cap CoverAt(s, q) = {}
  <2> SUFFICES ASSUME NEW c, c \in CoverAt(s, p), c \in CoverAt(s, q) PROVE FALSE
    OBVIOUS
  <2>1. PICK i \in p : c \in Cells(s[i])
    BY DEF CoverAt
  <2>2. PICK j \in q : c \in Cells(s[j])
    BY DEF CoverAt
  <2>3. i \in 1 .. Len(s) /\ j \in 1 .. Len(s) /\ i # j
    BY <1>3
  <2> QED BY Zenon, <2>1, <2>2, <2>3 DEF Tiles
<1> QED BY Zenon, <1>1, <1>2, <1>3

\* A part of a list that tiles.
LEMMA PartTiles ==
  ASSUME NEW s, Tiles(s), NEW m \in 1 .. Len(s) + 1, NEW n \in 0 .. Len(s)
  PROVE  /\ Tiles(SubSeq(s, m, n)) /\ Cover(SubSeq(s, m, n)) = CoverAt(s, m .. n)
         /\ m <= n + 1 => Len(SubSeq(s, m, n)) = n - m + 1
<1>1. s \in Seq(Solid)
  BY DEF Tiles
<1>2. PICK l \in Nat : l = Len(s)
  BY <1>1
<1>3. m \in Nat /\ n \in Nat /\ 1 <= m /\ n <= l /\ m <= l + 1
  BY <1>2
<1>4. \A i \in m .. n : i \in 1 .. l
  BY <1>3
<1>5. \A i \in m .. n : s[i] \in Solid
  BY <1>1, <1>2, <1>4
<1>6. PICK t : t = SubSeq(s, m, n)
  BY Zenon
<1>7. /\ t \in Seq(Solid) /\ Len(t) = IF m <= n THEN n - m + 1 ELSE 0
      /\ \A i \in 1 .. n - m + 1 : t[i] = s[m + i - 1]
  BY <1>3, <1>5, <1>6, SubSeqProperties
<1>8. PICK k \in Nat : k = Len(t)
  <2>1. t \in Seq(Solid)
    BY <1>7
  <2> QED BY <2>1
<1>9. \A i \in 1 .. k : m + i - 1 \in m .. n /\ i \in 1 .. n - m + 1
  BY <1>3, <1>7, <1>8
<1>10. \A j \in m .. n : j - m + 1 \in 1 .. k /\ m + (j - m + 1) - 1 = j
  BY <1>3, <1>7, <1>8
<1>11. \A i \in 1 .. k : t[i] = s[m + i - 1]
  BY Zenon, <1>7, <1>9
<1>12. \A i, j \in 1 .. k : i # j => Cells(t[i]) \cap Cells(t[j]) = {}
  <2> TAKE i, j \in 1 .. k
  <2> HAVE i # j
  <2>1. PICK p \in m .. n, q \in m .. n : p = m + i - 1 /\ q = m + j - 1
    BY <1>9
  <2>2. p # q /\ p \in 1 .. l /\ q \in 1 .. l
    BY <1>3, <1>4, <2>1
  <2>3. t[i] = s[p] /\ t[j] = s[q]
    BY <1>11, <2>1
  <2> QED BY Zenon, <1>2, <2>2, <2>3 DEF Tiles
<1>13. Tiles(t)
  BY Zenon, <1>7, <1>8, <1>12 DEF Tiles
<1>14. ASSUME NEW c PROVE c \in Cover(t) <=> c \in CoverAt(s, m .. n)
  <2>1. t \in Seq(Rects)
    BY <1>7, SolidRects
  <2>2. c \in Cover(t) <=> \E i \in 1 .. k : c \in Cells(t[i])
    BY <1>8, <2>1, CoverHas
  <2>3. ASSUME NEW i \in 1 .. k, c \in Cells(t[i]) PROVE c \in CoverAt(s, m .. n)
    <3>1. PICK p \in m .. n : p = m + i - 1
      BY <1>9
    <3>2. c \in Cells(s[p])
      BY <1>11, <2>3, <3>1
    <3> QED BY <3>2 DEF CoverAt
  <2>4. ASSUME c \in CoverAt(s, m .. n) PROVE \E i \in 1 .. k : c \in Cells(t[i])
    <3>1. PICK j \in m .. n : c \in Cells(s[j])
      BY <2>4 DEF CoverAt
    <3>2. PICK i \in 1 .. k : i = j - m + 1 /\ m + i - 1 = j
      BY <1>10
    <3>3. t[i] = s[j]
      BY <1>11, <3>2
    <3> QED BY <3>1, <3>3
  <2> QED BY <2>2, <2>3, <2>4
<1>15. m <= n + 1 => Len(t) = n - m + 1
  BY <1>3, <1>7
<1> QED BY Zenon, <1>6, <1>13, <1>14, <1>15

\* A rectangle is put into a list it has no point in common with.
LEMMA InsertedTiles ==
  ASSUME NEW s, Tiles(s), NEW r \in Solid, Cells(r) \cap Cover(s) = {}
  PROVE  Tiles(Inserted(s, r)) /\ Cover(Inserted(s, r)) = Cover(s) \cup Cells(r)
<1>1. PICK l \in Nat : l = Len(s) /\ DOMAIN s = 1 .. l
  BY DEF Tiles
<1>2. PICK lower : lower = {i \in DOMAIN s : s[i].y > r.y}
  BY Zenon
<1>3. PICK k \in 1 .. l + 1 : k = IF lower = {} THEN Len(s) + 1 ELSE Min(lower)
  <2>1. CASE lower = {}
    BY <1>1, <2>1
  <2>2. CASE lower # {}
    <3>1. lower \in SUBSET Nat /\ lower \subseteq 1 .. l
      BY <1>1, <1>2
    <3>2. Min(lower) \in lower
      BY <2>2, <3>1, Least
    <3>3. PICK m \in 1 .. l : m = Min(lower)
      BY Zenon, <3>1, <3>2
    <3>4. m \in 1 .. l + 1
      OBVIOUS
    <3> QED BY <2>2, <3>3, <3>4
  <2> QED BY <2>1, <2>2
<1>4. PICK a, b : a = SubSeq(s, 1, k - 1) /\ b = SubSeq(s, k, Len(s))
  BY Zenon
<1>5. Inserted(s, r) = (a \o <<r>>) \o b
  BY <1>2, <1>3, <1>4 DEF Inserted, InsertAt
<1>6. PICK j \in 0 .. l : j = k - 1
  OBVIOUS
<1>7. Tiles(a) /\ Cover(a) = CoverAt(s, 1 .. j)
  <2>1. 1 \in 1 .. Len(s) + 1 /\ j \in 0 .. Len(s)
    BY <1>1
  <2>2. a = SubSeq(s, 1, j)
    BY <1>4, <1>6
  <2> QED BY <2>1, <2>2, PartTiles
<1>8. Tiles(b) /\ Cover(b) = CoverAt(s, k .. l)
  <2>1. k \in 1 .. Len(s) + 1 /\ l \in 0 .. Len(s)
    BY <1>1
  <2>2. b = SubSeq(s, k, l)
    BY <1>1, <1>4
  <2> QED BY <2>1, <2>2, PartTiles
<1>9. 1 .. j \in SUBSET (1 .. l) /\ k .. l \in SUBSET (1 .. l) /\ (1 .. j) \cap (k .. l) = {} /\ (1 .. j) \cup (k .. l) = 1 .. l
  BY <1>6
<1>10. PICK p \in SUBSET (1 .. l), q \in SUBSET (1 .. l) : p = 1 .. j /\ q = k .. l
  BY <1>9
<1>11. p \cap q = {} /\ p \cup q = 1 .. l
  BY <1>9, <1>10
<1>12. Cover(a) \cap Cover(b) = {} /\ Cover(a) \cup Cover(b) = Cover(s)
  <2>1. Cover(s) = CoverAt(s, 1 .. l) /\ CoverAt(s, p \cup q) = CoverAt(s, p) \cup CoverAt(s, q)
        /\ CoverAt(s, p) \cap CoverAt(s, q) = {}
    <3>1. p \in SUBSET (1 .. Len(s)) /\ q \in SUBSET (1 .. Len(s)) /\ p \cap q = {}
      BY Zenon, <1>1, <1>10, <1>11
    <3>2. /\ CoverAt(s, p \cup q) = CoverAt(s, p) \cup CoverAt(s, q)
          /\ p \cap q = {} => CoverAt(s, p) \cap CoverAt(s, q) = {}
      BY <3>1, PlacesApart
    <3>3. Cover(s) = CoverAt(s, 1 .. Len(s))
      BY PlacesApart
    <3> QED BY Zenon, <1>1, <3>1, <3>2, <3>3
  <2> QED BY Zenon, <1>7, <1>8, <1>10, <1>11, <2>1
<1>13. Tiles(<<r>>) /\ Cover(<<r>>) = Cells(r)
  BY FewTiles
<1>14. Tiles(a \o <<r>>) /\ Cover(a \o <<r>>) = Cover(a) \cup Cells(r)
  <2>1. Cover(a) \cap Cover(<<r>>) = {}
    BY <1>12, <1>13
  <2> QED BY <1>7, <1>13, <2>1, TilesJoined
<1>15. Tiles((a \o <<r>>) \o b) /\ Cover((a \o <<r>>) \o b) = (Cover(a) \cup Cells(r)) \cup Cover(b)
  <2>1. Cover(a \o <<r>>) \cap Cover(b) = {}
    BY <1>12, <1>14
  <2> QED BY <1>8, <1>14, <2>1, TilesJoined
<1> QED BY <1>5, <1>12, <1>15

\* One is taken out.
LEMMA RemovedTiles ==
  ASSUME NEW s, Tiles(s), NEW i \in 1 .. Len(s)
  PROVE  /\ Tiles(RemoveAt(s, i)) /\ Cover(s) = Cover(RemoveAt(s, i)) \cup Cells(s[i])
         /\ Len(RemoveAt(s, i)) = Len(s) - 1
<1>1. PICK l \in Nat : l = Len(s) /\ s \in Seq(Solid)
  BY DEF Tiles
<1>2. PICK a, b : a = SubSeq(s, 1, i - 1) /\ b = SubSeq(s, i + 1, Len(s))
  BY Zenon
<1>3. RemoveAt(s, i) = a \o b
  BY <1>2 DEF RemoveAt
<1>4. PICK j \in 0 .. l, k \in 1 .. l + 1 : j = i - 1 /\ k = i + 1
  BY <1>1
<1>5. Tiles(a) /\ Cover(a) = CoverAt(s, 1 .. j) /\ Len(a) = j
  <2>1. 1 \in 1 .. Len(s) + 1 /\ j \in 0 .. Len(s) /\ j - 1 + 1 = j /\ 1 <= j + 1
    BY <1>1
  <2>2. a = SubSeq(s, 1, j)
    BY <1>2, <1>4
  <2> QED BY <2>1, <2>2, PartTiles
<1>6. Tiles(b) /\ Cover(b) = CoverAt(s, k .. l) /\ Len(b) = l - k + 1
  <2>1. k \in 1 .. Len(s) + 1 /\ l \in 0 .. Len(s) /\ k <= l + 1
    BY <1>1
  <2>2. b = SubSeq(s, k, l)
    BY <1>1, <1>2, <1>4
  <2> QED BY <2>1, <2>2, PartTiles
<1>7. PICK p \in SUBSET (1 .. l), q \in SUBSET (1 .. l), o \in SUBSET (1 .. l) : p = 1 .. j /\ q = k .. l /\ o = {i}
  <2>1. 1 .. j \in SUBSET (1 .. l) /\ k .. l \in SUBSET (1 .. l) /\ {i} \in SUBSET (1 .. l)
    BY <1>1
  <2> QED BY Zenon, <2>1
<1>8. p \cap q = {} /\ (p \cup q) \cup o = 1 .. l /\ p \cup q \in SUBSET (1 .. l)
  BY <1>1, <1>4, <1>7
<1>9. /\ Cover(s) = CoverAt(s, 1 .. l) /\ CoverAt(s, p \cup q) = CoverAt(s, p) \cup CoverAt(s, q)
      /\ CoverAt(s, p) \cap CoverAt(s, q) = {}
      /\ CoverAt(s, (p \cup q) \cup o) = CoverAt(s, p \cup q) \cup CoverAt(s, o)
  <2>1. /\ Cover(s) = CoverAt(s, 1 .. l) /\ CoverAt(s, p \cup q) = CoverAt(s, p) \cup CoverAt(s, q)
        /\ CoverAt(s, p) \cap CoverAt(s, q) = {}
    <3>1. p \in SUBSET (1 .. Len(s)) /\ q \in SUBSET (1 .. Len(s)) /\ p \cap q = {}
      BY <1>1, <1>7, <1>8
    <3>2. /\ CoverAt(s, p \cup q) = CoverAt(s, p) \cup CoverAt(s, q)
          /\ p \cap q = {} => CoverAt(s, p) \cap CoverAt(s, q) = {}
      BY <3>1, PlacesApart
    <3>3. Cover(s) = CoverAt(s, 1 .. Len(s))
      BY PlacesApart
    <3> QED BY Zenon, <1>1, <3>1, <3>2, <3>3
  <2>2. PICK v \in SUBSET (1 .. l) : v = p \cup q
    BY Zenon, <1>8
  <2>3. CoverAt(s, v \cup o) = CoverAt(s, v) \cup CoverAt(s, o)
    <3>1. v \in SUBSET (1 .. Len(s)) /\ o \in SUBSET (1 .. Len(s))
      BY Zenon, <1>1, <2>2
    <3>2. /\ CoverAt(s, v \cup o) = CoverAt(s, v) \cup CoverAt(s, o)
          /\ v \cap o = {} => CoverAt(s, v) \cap CoverAt(s, o) = {}
      BY <3>1, PlacesApart
    <3> QED BY Zenon, <3>2
  <2> QED BY Zenon, <2>1, <2>2, <2>3
<1>10. CoverAt(s, o) = Cells(s[i])
  BY <1>7 DEF CoverAt
<1>11. Tiles(a \o b) /\ Cover(a \o b) = Cover(a) \cup Cover(b)
  BY <1>5, <1>6, <1>7, <1>9, TilesJoined
<1>12. Len(a \o b) = l - 1
  <2>1. a \in Seq(Solid) /\ b \in Seq(Solid)
    BY <1>5, <1>6 DEF Tiles
  <2>2. Len(a \o b) = Len(a) + Len(b)
    BY <2>1, ConcatProperties
  <2>3. j + (l - k + 1) = l - 1
    BY <1>1, <1>4
  <2> QED BY <1>5, <1>6, <2>2, <2>3
<1> QED BY Zenon, <1>1, <1>3, <1>5, <1>6, <1>7, <1>8, <1>9, <1>10, <1>11, <1>12

\* A list that tiles and a rectangle to add to it
Pairs == {t \in Seq(Solid) : Tiles(t)} \X Solid

\* What such a pair is made of.
LEMMA PairsAre ==
  /\ \A p \in Pairs : p = <<p[1], p[2]>> /\ Tiles(p[1]) /\ p[2] \in Solid /\ p[1] \in Seq(Solid)
  /\ \A s, r : Tiles(s) /\ r \in Solid => <<s, r>> \in Pairs
<1>1. \A s : Tiles(s) => s \in Seq(Solid)
  BY DEF Tiles
<1> QED BY <1>1 DEF Pairs

\* A rectangle that meets one of the list swallows it.
LEMMA Swallows ==
  ASSUME NEW s, Tiles(s), NEW r \in Solid
  PROVE  \E p \in Pairs : /\ p = Swallow(s, r)
                          /\ Cover(s) \cup Cells(r) \subseteq Cover(p[1]) \cup Cells(p[2])
                          /\ IF Meets(s, r) = {} THEN p = <<s, r>> ELSE Len(p[1]) = Len(s) - 1
<1>1. PICK l \in Nat : l = Len(s) /\ DOMAIN s = 1 .. l /\ s \in Seq(Solid)
  BY DEF Tiles
<1>2. CASE Meets(s, r) = {}
  <2>1. PICK p \in Pairs : p = <<s, r>>
    BY Zenon, PairsAre
  <2>2. Swallow(s, r) = p
    BY <1>2, <2>1 DEF Swallow
  <2>3. p[1] = s /\ p[2] = r
    BY <2>1
  <2> QED BY <1>2, <2>1, <2>2, <2>3
<1>3. CASE Meets(s, r) # {}
  <2>1. Meets(s, r) \in SUBSET Nat /\ Meets(s, r) \subseteq 1 .. l
    BY <1>1 DEF Meets
  <2>2. Min(Meets(s, r)) \in Meets(s, r)
    BY <1>3, <2>1, Least
  <2>3. PICK i \in 1 .. l : i = Min(Meets(s, r))
    BY <2>1, <2>2
  <2>4. PICK a \in Solid : a = s[i]
    BY <1>1
  <2>5. PICK m \in Solid : m = Merged(r, a) /\ Cells(r) \cup Cells(a) \subseteq Cells(m)
    BY MergedHas
  <2>6. PICK t : t = RemoveAt(s, i)
    OBVIOUS
  <2>7. Tiles(t) /\ Cover(s) = Cover(t) \cup Cells(a) /\ Len(t) = l - 1
    BY Zenon, <1>1, <2>4, <2>6, RemovedTiles
  <2>8. PICK p \in Pairs : p = <<t, m>>
    BY Zenon, <2>7, PairsAre
  <2>9. Swallow(s, r) = p
    BY <1>3, <2>3, <2>4, <2>5, <2>6, <2>8 DEF Swallow
  <2>10. p[1] = t /\ p[2] = m
    BY <2>8
  <2>11. Cover(s) \cup Cells(r) \subseteq Cover(t) \cup Cells(m)
    BY <2>5, <2>7
  <2> QED BY <1>1, <1>3, <2>7, <2>9, <2>10, <2>11
<1> QED BY <1>2, <1>3

\* When the scan ends the rectangle meets nothing.
IsAbsorbed(p, s, r) == /\ Cover(s) \cup Cells(r) \subseteq Cover(p[1]) \cup Cells(p[2])
                       /\ Meets(p[1], p[2]) = {}
                       /\ s = <<>> => p = <<s, r>>

\* The scan grows the rectangle until it meets none of the list.
LEMMA AbsorbedIs ==
  ASSUME NEW s, Tiles(s), NEW r \in Solid
  PROVE  \E p \in Pairs : p = Absorbed(s, r) /\ IsAbsorbed(p, s, r)
<1>1. PICK n \in Nat : n = Len(s)
  BY DEF Tiles
<1> DEFINE IsAfterAll(h) == h = [k \in 0 .. n |-> IF k = 0 THEN <<s, r>> ELSE Swallow(h[k - 1][1], h[k - 1][2])]
<1>2. PICK g : IsAfterAll(g) /\ Absorbed(s, r) = g[n]
  <2>1. PICK step : step = [q \in (1 .. n) \X Pairs |-> Swallow(q[2][1], q[2][2])]
    BY Zenon
  <2>2. \A q \in (1 .. n) \X Pairs : Swallow(q[2][1], q[2][2]) \in Pairs
    <3> TAKE q \in (1 .. n) \X Pairs
    <3>1. PICK p \in Pairs : p = q[2]
      OBVIOUS
    <3>2. Tiles(p[1]) /\ p[2] \in Solid
      BY PairsAre
    <3>3. Swallow(p[1], p[2]) \in Pairs
      BY <3>2, Swallows
    <3> QED BY <3>1, <3>3
  <2>3. step \in [(1 .. n) \X Pairs -> Pairs]
    BY <2>1, <2>2
  <2>4. PICK a \in Pairs : a = <<s, r>>
    BY Zenon, PairsAre
  <2>5. PICK t \in [0 .. n -> Pairs] : Steps(t, a, n, step)
    BY Zenon, <2>3, Iterated
  <2>6. ASSUME NEW k \in 0 .. n PROVE t[k] = IF k = 0 THEN <<s, r>> ELSE Swallow(t[k - 1][1], t[k - 1][2])
    <3>1. CASE k = 0
      BY <2>4, <2>5, <3>1 DEF Steps
    <3>2. CASE k # 0
      <4>1. k \in 1 .. n /\ k - 1 \in 0 .. n
        BY <3>2
      <4>2. PICK q \in Pairs : q = t[k - 1]
        BY <4>1
      <4>3. t[k] = step[<<k, q>>]
        BY <2>5, <4>1, <4>2 DEF Steps
      <4>4. PICK w : w = <<k, q>>
        BY Zenon
      <4>4a. w \in (1 .. n) \X Pairs /\ w[2] = q
        <5> HIDE DEF Pairs
        <5> QED BY <4>1, <4>4
      <4>5. step[w] = Swallow(w[2][1], w[2][2])
        BY <2>1, <4>4a
      <4> QED BY <3>2, <4>2, <4>3, <4>4, <4>4a, <4>5
    <3> QED BY <3>1, <3>2
  <2>7. t = [k \in 0 .. n |-> t[k]]
    OBVIOUS
  <2>8. IsAfterAll(t)
    BY <2>6, <2>7
  <2>9. Absorbed(s, r) = (CHOOSE h : IsAfterAll(h))[n]
    BY <1>1 DEF Absorbed
  <2>10. IsAfterAll(CHOOSE h : IsAfterAll(h))
    <3> HIDE DEF IsAfterAll
    <3> QED BY Zenon, <2>8
  <2> HIDE DEF IsAfterAll
  <2> QED BY Zenon, <2>9, <2>10
<1>3. \A k \in 0 .. n : g[k] = IF k = 0 THEN <<s, r>> ELSE Swallow(g[k - 1][1], g[k - 1][2])
  BY <1>2
<1> HIDE DEF IsAfterAll
<1> DEFINE Good == {k \in 0 .. n :
                      /\ g[k] \in Pairs
                      /\ Cover(s) \cup Cells(r) \subseteq Cover(g[k][1]) \cup Cells(g[k][2])
                      /\ Meets(g[k][1], g[k][2]) = {} \/ Len(g[k][1]) = n - k}
<1>4. 0 \in Good
  <2>1. g[0] = <<s, r>> /\ 0 \in 0 .. n
    BY <1>3
  <2>2. g[0] \in Pairs /\ g[0][1] = s /\ g[0][2] = r
    BY <2>1, PairsAre
  <2>3. Len(g[0][1]) = n - 0
    BY <1>1, <2>2
  <2> QED BY <2>1, <2>2, <2>3
<1>5. ASSUME NEW k \in 1 .. n, k - 1 \in Good PROVE k \in Good
  <2>1. PICK q \in Pairs : q = g[k - 1]
    BY <1>5
  <2>2. /\ Cover(s) \cup Cells(r) \subseteq Cover(q[1]) \cup Cells(q[2])
        /\ Meets(q[1], q[2]) = {} \/ Len(q[1]) = n - (k - 1)
    BY <1>5, <2>1
  <2>3. k \in 0 .. n /\ k # 0
    OBVIOUS
  <2>4. g[k] = Swallow(q[1], q[2])
    BY <1>3, <2>1, <2>3
  <2>5. Tiles(q[1]) /\ q[2] \in Solid /\ q = <<q[1], q[2]>>
    BY PairsAre
  <2>6. PICK p \in Pairs : /\ p = Swallow(q[1], q[2])
                           /\ Cover(q[1]) \cup Cells(q[2]) \subseteq Cover(p[1]) \cup Cells(p[2])
                           /\ IF Meets(q[1], q[2]) = {} THEN p = <<q[1], q[2]>> ELSE Len(p[1]) = Len(q[1]) - 1
    BY <2>5, Swallows
  <2>7. g[k] = p
    BY <2>4, <2>6
  <2>8. Cover(s) \cup Cells(r) \subseteq Cover(p[1]) \cup Cells(p[2])
    BY <2>2, <2>6
  <2>9. Meets(p[1], p[2]) = {} \/ Len(p[1]) = n - k
    <3>1. CASE Meets(q[1], q[2]) = {}
      <4>1. p = q
        BY <2>5, <2>6, <3>1
      <4> QED BY <3>1, <4>1
    <3>2. CASE Meets(q[1], q[2]) # {}
      <4>1. Len(p[1]) = Len(q[1]) - 1 /\ Len(q[1]) = n - (k - 1)
        BY <2>2, <2>6, <3>2
      <4> QED BY <4>1
    <3> QED BY <3>1, <3>2
  <2> QED BY Zenon, <2>3, <2>7, <2>8, <2>9
<1>6. n \in Good
  <2>1. n \in 0 .. n
    OBVIOUS
  <2> HIDE DEF Good
  <2> QED BY <1>4, <1>5, <2>1, UpTo
<1>7. PICK p \in Pairs : p = g[n]
  BY <1>6
<1>8. Meets(p[1], p[2]) = {}
  <2>1. CASE Len(p[1]) = n - n
    <3>1. p[1] \in Seq(Solid) /\ Len(p[1]) = 0
      BY <2>1, PairsAre
    <3>2. PICK u \in Seq(Solid) : u = p[1] /\ Len(u) = 0
      BY <3>1
    <3>3. DOMAIN p[1] = {}
      BY <3>2
    <3> QED BY <3>3 DEF Meets
  <2> QED BY <1>6, <1>7, <2>1
<1>9. s = <<>> => p = <<s, r>>
  <2> SUFFICES ASSUME s = <<>> PROVE p = <<s, r>>
    OBVIOUS
  <2>1. n = 0
    BY <1>1
  <2> QED BY <1>3, <1>7, <2>1
<1>10. IsAbsorbed(p, s, r)
  BY <1>6, <1>7, <1>8, <1>9 DEF IsAbsorbed
<1> QED BY <1>2, <1>7, <1>10

\* clip_region_add_rect: the list still tiles, and covers what it covered and
\* the rectangle.
LEMMA AddTiles ==
  ASSUME NEW s, Tiles(s), NEW r \in [x : Int, y : Int, w : Nat, h : Nat]
  PROVE  /\ Tiles(AddRect(s, r)) /\ Cover(s) \cup Cells(r) \subseteq Cover(AddRect(s, r))
         /\ s = <<>> => Cover(AddRect(s, r)) = Cells(r)
         /\ Cells(r) = {} => AddRect(s, r) = s
<1>1. CASE Cells(r) = {}
  <2>1. AddRect(s, r) = s
    BY <1>1 DEF AddRect
  <2> QED BY <1>1, <2>1, FewTiles
<1>2. CASE Cells(r) # {}
  <2>1. r \in Solid
    <3>1. r \in Rects
      BY DEF Rects
    <3>2. PICK c : c \in Cells(r)
      BY <1>2
    <3>3. PICK a \in Int, b \in Int : c = <<a, b>>
      BY <3>1, <3>2, CellsAre
    <3>4. r.x <= a /\ a < r.x + r.w /\ r.y <= b /\ b < r.y + r.h
      BY <3>1, <3>2, <3>3, CellsAre
    <3>5. r.w # 0 /\ r.h # 0
      BY <3>4
    <3> QED BY <3>5 DEF Solid
  <2>2. PICK p \in Pairs : p = Absorbed(s, r) /\ IsAbsorbed(p, s, r)
    BY <2>1, AbsorbedIs
  <2>3. PICK t \in Seq(Solid), m \in Solid : p[1] = t /\ p[2] = m /\ Tiles(t)
    BY PairsAre
  <2>4. AddRect(s, r) = Inserted(t, m)
    BY <1>2, <2>2, <2>3 DEF AddRect
  <2>5. /\ Cover(s) \cup Cells(r) \subseteq Cover(t) \cup Cells(m) /\ Meets(t, m) = {}
        /\ s = <<>> => p = <<s, r>>
    BY <2>2, <2>3 DEF IsAbsorbed
  <2>6. Cells(m) \cap Cover(t) = {}
    <3> SUFFICES ASSUME NEW c \in Cells(m), c \in Cover(t) PROVE FALSE
      OBVIOUS
    <3>1. t \in Seq(Rects) /\ m \in Rects
      BY SolidRects
    <3>2. PICK i \in 1 .. Len(t) : c \in Cells(t[i])
      BY <3>1, CoverHas
    <3>3. PICK a \in Rects : a = t[i] /\ i \in DOMAIN t
      BY <3>1, CoverHas
    <3>4. ~Overlap(a, m)
      BY <2>5, <3>3 DEF Meets
    <3> QED BY <3>1, <3>2, <3>3, <3>4, Apart
  <2>7. Tiles(Inserted(t, m)) /\ Cover(Inserted(t, m)) = Cover(t) \cup Cells(m)
    BY <2>3, <2>6, InsertedTiles
  <2>8. s = <<>> => Cover(Inserted(t, m)) = Cells(r)
    <3> SUFFICES ASSUME s = <<>> PROVE Cover(Inserted(t, m)) = Cells(r)
      OBVIOUS
    <3>1. p = <<s, r>>
      BY <2>5
    <3>2. t = <<>> /\ m = r
      BY <2>3, <3>1
    <3> QED BY <2>7, <3>2, FewTiles
  <2> QED BY <1>2, <2>4, <2>5, <2>7, <2>8
<1> QED BY <1>1, <1>2

\* Integers in a list have a least and a greatest one.
LEMMA SmallestIs ==
  ASSUME NEW n \in Nat \ {0}, NEW F \in [1 .. n -> Int]
  PROVE  \E m \in 1 .. n : \A j \in 1 .. n : F[m] <= F[j]
<1> DEFINE Good == {k \in 0 .. n : \E m \in 1 .. n : \A j \in 1 .. k : F[m] <= F[j]}
<1>1. 0 \in Good
  <2>1. 1 \in 1 .. n /\ 0 \in 0 .. n
    OBVIOUS
  <2> QED BY <2>1
<1>2. ASSUME NEW k \in 1 .. n, k - 1 \in Good PROVE k \in Good
  <2>1. PICK m \in 1 .. n : \A j \in 1 .. k - 1 : F[m] <= F[j]
    BY <1>2
  <2>2. PICK l \in 1 .. n : l = IF F[m] <= F[k] THEN m ELSE k
    OBVIOUS
  <2>3. \A j \in 1 .. k : F[l] <= F[j]
    <3> TAKE j \in 1 .. k
    <3>1. F[l] \in Int /\ F[m] \in Int /\ F[j] \in Int /\ F[k] \in Int
      OBVIOUS
    <3>2. F[l] <= F[m] /\ F[l] <= F[k]
      BY <2>2, <3>1
    <3>3. CASE j = k
      BY <3>2, <3>3
    <3>4. CASE j # k
      <4>1. j \in 1 .. k - 1
        BY <3>4
      <4>2. F[m] <= F[j]
        BY <2>1, <4>1
      <4> QED BY <3>1, <3>2, <4>2
    <3> QED BY <3>3, <3>4
  <2>4. k \in 0 .. n
    OBVIOUS
  <2> QED BY Zenon, <2>3, <2>4
<1>3. n \in Good
  <2>1. n \in 0 .. n /\ n \in Nat
    OBVIOUS
  <2> HIDE DEF Good
  <2> QED BY Zenon, <1>1, <1>2, <2>1, UpTo
<1> QED BY <1>3

\* The least and the greatest of finitely many numbers.
LEMMA Extremes ==
  ASSUME NEW n \in Nat \ {0}, NEW F \in [1 .. n -> Int]
  PROVE  /\ Min({F[i] : i \in 1 .. n}) \in Int /\ Max({F[i] : i \in 1 .. n}) \in Int
         /\ \A j \in 1 .. n : Min({F[i] : i \in 1 .. n}) <= F[j] /\ F[j] <= Max({F[i] : i \in 1 .. n})
<1>1. PICK S : S = {F[i] : i \in 1 .. n}
  BY Zenon
<1>2. S \subseteq Int /\ \A j \in 1 .. n : F[j] \in S
  BY <1>1
<1>3. PICK a \in 1 .. n : \A j \in 1 .. n : F[a] <= F[j]
  BY Zenon, SmallestIs
<1>4. F[a] \in S /\ \A y \in S : F[a] <= y
  BY <1>1, <1>3
<1>5. Min(S) \in S /\ \A y \in S : Min(S) <= y
  BY Zenon, <1>4 DEF Min
<1>6. PICK G : G = [i \in 1 .. n |-> 0 - F[i]]
  BY Zenon
<1>7. G \in [1 .. n -> Int]
  BY <1>6
<1>8. PICK b \in 1 .. n : \A j \in 1 .. n : G[b] <= G[j]
  BY Zenon, <1>7, SmallestIs
<1>9. \A j \in 1 .. n : F[b] >= F[j]
  <2> TAKE j \in 1 .. n
  <2>1. 0 - F[b] <= 0 - F[j]
    BY <1>6, <1>8
  <2>2. F[b] \in Int /\ F[j] \in Int
    OBVIOUS
  <2> QED BY <2>1, <2>2
<1>10. F[b] \in S /\ \A y \in S : F[b] >= y
  BY <1>1, <1>9
<1>11. Max(S) \in S /\ \A y \in S : Max(S) >= y
  BY Zenon, <1>10 DEF Max
<1>12. \A j \in 1 .. n : F[j] <= Max(S)
  <2> TAKE j \in 1 .. n
  <2>1. PICK x \in Int, y \in Int : x = Max(S) /\ y = F[j]
    BY Zenon, <1>2, <1>11
  <2>2. x >= y
    BY <1>2, <1>11, <2>1
  <2> QED BY <2>1, <2>2
<1> QED BY Zenon, <1>1, <1>2, <1>5, <1>11, <1>12

\* The bounding box has the whole list.
LEMMA BoundedTiles ==
  ASSUME NEW s, Tiles(s)
  PROVE  Bounded(s).rects = s /\ Cover(s) \subseteq Cells(Bounded(s).box)
<1>1. CASE s = <<>>
  <2>1. Bounded(s).rects = s
    BY <1>1 DEF Bounded, Empty
  <2> QED BY <1>1, <2>1, FewTiles
<1>2. CASE s # <<>>
  <2>1. s \in Seq(Solid) /\ s \in Seq(Rects)
    BY SolidRects DEF Tiles
  <2>2. PICK n \in Nat \ {0} : n = Len(s) /\ DOMAIN s = 1 .. n
    BY <1>2, <2>1
  <2>3. PICK X, Y, R, B : /\ X = [i \in 1 .. n |-> s[i].x] /\ Y = [i \in 1 .. n |-> s[i].y]
                          /\ R = [i \in 1 .. n |-> s[i].x + s[i].w] /\ B = [i \in 1 .. n |-> s[i].y + s[i].h]
    BY Zenon
  <2>4. \A i \in 1 .. n : s[i].x \in Int /\ s[i].y \in Int /\ s[i].w \in Int /\ s[i].h \in Int
    <3> TAKE i \in 1 .. n
    <3>1. PICK r \in Rects : r = s[i]
      BY <2>1, <2>2
    <3>2. r.x \in Int /\ r.y \in Int /\ r.w \in Int /\ r.h \in Int
      BY DEF Rects
    <3> QED BY <3>1, <3>2
  <2>5. X \in [1 .. n -> Int] /\ Y \in [1 .. n -> Int] /\ R \in [1 .. n -> Int] /\ B \in [1 .. n -> Int]
    <3>1. \A i \in 1 .. n : s[i].x + s[i].w \in Int /\ s[i].y + s[i].h \in Int
      BY <2>4
    <3>2. X \in [1 .. n -> Int] /\ Y \in [1 .. n -> Int]
      BY <2>3, <2>4
    <3>3. R \in [1 .. n -> Int]
      BY <2>3, <3>1
    <3>4. B \in [1 .. n -> Int]
      BY <2>3, <3>1
    <3> QED BY <3>2, <3>3, <3>4
  <2>6. PICK x1, y1, x2, y2 : /\ x1 = Min({s[i].x : i \in 1 .. n}) /\ y1 = Min({s[i].y : i \in 1 .. n})
                              /\ x2 = Max({s[i].x + s[i].w : i \in 1 .. n}) /\ y2 = Max({s[i].y + s[i].h : i \in 1 .. n})
    BY Zenon
  <2>7. Bounded(s) = [rects |-> s, box |-> Corners(x1, y1, x2, y2)]
    BY <1>2, <2>2, <2>6 DEF Bounded
  <2>8. x1 \in Int /\ \A i \in 1 .. n : x1 <= s[i].x
    <3>1. {X[i] : i \in 1 .. n} = {s[i].x : i \in 1 .. n}
      BY <2>3
    <3>2. Min({X[i] : i \in 1 .. n}) \in Int /\ \A j \in 1 .. n : Min({X[i] : i \in 1 .. n}) <= X[j]
      BY Zenon, <2>5, Extremes
    <3> QED BY Zenon, <2>3, <2>6, <3>1, <3>2
  <2>9. y1 \in Int /\ \A i \in 1 .. n : y1 <= s[i].y
    <3>1. {Y[i] : i \in 1 .. n} = {s[i].y : i \in 1 .. n}
      BY <2>3
    <3>2. Min({Y[i] : i \in 1 .. n}) \in Int /\ \A j \in 1 .. n : Min({Y[i] : i \in 1 .. n}) <= Y[j]
      BY Zenon, <2>5, Extremes
    <3> QED BY Zenon, <2>3, <2>6, <3>1, <3>2
  <2>10. x2 \in Int /\ \A i \in 1 .. n : s[i].x + s[i].w <= x2
    <3>1. {R[i] : i \in 1 .. n} = {s[i].x + s[i].w : i \in 1 .. n}
      BY <2>3
    <3>2. Max({R[i] : i \in 1 .. n}) \in Int /\ \A j \in 1 .. n : R[j] <= Max({R[i] : i \in 1 .. n})
      BY Zenon, <2>5, Extremes
    <3> QED BY Zenon, <2>3, <2>6, <3>1, <3>2
  <2>11. y2 \in Int /\ \A i \in 1 .. n : s[i].y + s[i].h <= y2
    <3>1. {B[i] : i \in 1 .. n} = {s[i].y + s[i].h : i \in 1 .. n}
      BY <2>3
    <3>2. Max({B[i] : i \in 1 .. n}) \in Int /\ \A j \in 1 .. n : B[j] <= Max({B[i] : i \in 1 .. n})
      BY Zenon, <2>5, Extremes
    <3> QED BY Zenon, <2>3, <2>6, <3>1, <3>2
  <2>12. ASSUME NEW c \in Cover(s) PROVE c \in Cells(Corners(x1, y1, x2, y2))
    <3>1. PICK i \in 1 .. n : c \in Cells(s[i])
      BY <2>1, <2>2, CoverHas
    <3>2. PICK r \in Rects : r = s[i]
      BY <2>1, <2>2
    <3>3. PICK a \in Int, b \in Int : c = <<a, b>>
      BY <3>1, <3>2, CellsAre
    <3>4. r.x <= a /\ a < r.x + r.w /\ r.y <= b /\ b < r.y + r.h
      BY <3>1, <3>2, <3>3, CellsAre
    <3>5. r.x \in Int /\ r.y \in Int /\ r.w \in Int /\ r.h \in Int
      BY DEF Rects
    <3>6. x1 <= r.x /\ y1 <= r.y /\ r.x + r.w <= x2 /\ r.y + r.h <= y2
      BY <2>8, <2>9, <2>10, <2>11, <3>2
    <3>7. x1 \in Int /\ y1 \in Int /\ x2 \in Int /\ y2 \in Int
      BY <2>8, <2>9, <2>10, <2>11
    <3>8. x1 <= a /\ a < x2 /\ y1 <= b /\ b < y2
      BY <3>4, <3>5, <3>6, <3>7
    <3> QED BY Zenon, <3>3, <3>7, <3>8, CornersAre
  <2> QED BY <2>7, <2>12
<1> QED BY <1>1, <1>2

\* Of a list that tiles, each selection tiles too.
LEMMA OnlySome ==
  ASSUME NEW s, Tiles(s), NEW places \in SUBSET (DOMAIN s)
  PROVE  /\ Tiles(Only(s, places)) /\ Cover(Only(s, places)) \subseteq Cover(s)
         /\ places = DOMAIN s => Cover(Only(s, places)) = Cover(s)
<1>1. PICK n \in Nat : n = Len(s) /\ DOMAIN s = 1 .. n /\ s \in Seq(Solid)
  BY DEF Tiles
<1>2. TilesAt(s, n, places)
  <2>1. \A i, j \in 1 .. n : i # j => Cells(s[i]) \cap Cells(s[j]) = {}
    BY Zenon, <1>1 DEF Tiles
  <2>2. \A i \in 1 .. n : s[i] \in Solid
    BY <1>1
  <2>3. places \subseteq 1 .. n
    BY <1>1
  <2> QED BY Zenon, <1>1, <2>1, <2>2, <2>3 DEF TilesAt
<1>3. Tiles(Only(s, places)) /\ Cover(Only(s, places)) = CoverAt(s, places)
  BY <1>2, OnlyTiles
<1>4. Cover(s) = CoverAt(s, 1 .. n)
  BY <1>1, PlacesApart
<1>5. CoverAt(s, places) \subseteq CoverAt(s, 1 .. n)
  BY <1>1 DEF CoverAt
<1> QED BY <1>1, <1>3, <1>4, <1>5

\* What is left of a window is what the windows above it do not cover.
LEMMA VisibleTiles ==
  ASSUME NEW win \in [x : Int, y : Int, w : Nat, h : Nat], NEW n \in Nat, NEW above,
         above \in [1 .. n -> [x : Int, y : Int, w : Nat, h : Nat]], Len(above) = n
  PROVE  Tiles(Visible(win, above)) /\ Cover(Visible(win, above)) = Cells(win) \ Cover(above)
<1> DEFINE Lists == {s \in Seq(Solid) : Tiles(s)}
           Next1(s, a) == IF s = <<>> \/ Cells(a) = {} THEN s ELSE SubtractRect(s, a)
           IsLeft(h) == h = [i \in 0 .. n |-> IF i = 0 THEN AddRect(<<>>, win)
                                 ELSE IF h[i - 1] = <<>> \/ Cells(above[i]) = {} THEN h[i - 1]
                                 ELSE SubtractRect(h[i - 1], above[i])]
<1>1. \A s : Tiles(s) => s \in Lists
  BY Zenon DEF Tiles
<1>2. ASSUME NEW s \in Lists, NEW i \in 1 .. n
      PROVE  Next1(s, above[i]) \in Lists /\ Cover(Next1(s, above[i])) = Cover(s) \ Cells(above[i])
  <2>1. CASE s = <<>>
    BY <2>1, FewTiles
  <2>2. CASE Cells(above[i]) = {}
    BY <2>2
  <2>3. CASE s # <<>> /\ Cells(above[i]) # {}
    <3>1. PICK b \in [x : Int, y : Int, w : Nat, h : Nat] : b = above[i]
      OBVIOUS
    <3>2. b \in Solid
      <4>1. b \in Rects
        BY DEF Rects
      <4>2. PICK c : c \in Cells(b)
        BY <2>3, <3>1
      <4>3. PICK p \in Int, q \in Int : c = <<p, q>>
        BY <4>1, <4>2, CellsAre
      <4>4. b.x <= p /\ p < b.x + b.w /\ b.y <= q /\ q < b.y + b.h
        BY Zenon, <4>1, <4>2, <4>3, CellsAre
      <4>5. b.w # 0 /\ b.h # 0
        BY <4>4
      <4> QED BY <4>5 DEF Solid
    <3>3. Tiles(SubtractRect(s, b)) /\ Cover(SubtractRect(s, b)) = Cover(s) \ Cells(b)
      BY <3>2, SubtractTiles
    <3>4. SubtractRect(s, b) \in Lists
      BY <1>1, <3>3
    <3> QED BY Zenon, <2>3, <3>1, <3>3, <3>4
  <2> QED BY Zenon, <2>1, <2>2, <2>3
<1>3. Tiles(AddRect(<<>>, win)) /\ Cover(AddRect(<<>>, win)) = Cells(win)
  BY FewTiles, AddTiles
<1>4. PICK g : IsLeft(g) /\ Visible(win, above) = g[n]
  <2>1. PICK step : step = [q \in (1 .. n) \X Lists |-> Next1(q[2], above[q[1]])]
    BY Zenon
  <2>2. step \in [(1 .. n) \X Lists -> Lists]
    <3>1. ASSUME NEW q \in (1 .. n) \X Lists PROVE Next1(q[2], above[q[1]]) \in Lists
      <4>1. q[1] \in 1 .. n /\ q[2] \in Lists
        OBVIOUS
      <4> HIDE DEF Next1, Lists
      <4> QED BY <1>2, <4>1
    <3> HIDE DEF Next1, Lists
    <3> QED BY <2>1, <3>1
  <2>3. PICK a : a = AddRect(<<>>, win)
    OBVIOUS
  <2>4. a \in Lists
    BY <1>1, <1>3, <2>3
  <2>5. PICK t \in [0 .. n -> Lists] : Steps(t, a, n, step)
    <3> HIDE DEF Lists
    <3> QED BY Zenon, <2>2, <2>4, Iterated
  <2>6. ASSUME NEW i \in 0 .. n
        PROVE  t[i] = IF i = 0 THEN a ELSE Next1(t[i - 1], above[i])
    <3>1. CASE i = 0
      BY <2>5, <3>1 DEF Steps
    <3>2. CASE i # 0
      <4>1. i \in 1 .. n /\ i - 1 \in 0 .. n
        BY <3>2
      <4>2. PICK q \in Lists : q = t[i - 1]
        BY <4>1
      <4>3. t[i] = step[<<i, q>>]
        BY Zenon, <2>5, <4>1, <4>2 DEF Steps
      <4> HIDE DEF Lists, Next1
      <4>4. PICK w : w = <<i, q>>
        BY Zenon
      <4>5. w \in (1 .. n) \X Lists /\ w[1] = i /\ w[2] = q
        BY Zenon, <4>1, <4>4
      <4>6. step[w] = Next1(w[2], above[w[1]])
        BY <2>1, <4>5
      <4>7. t[i] = Next1(q, above[i])
        BY <4>3, <4>4, <4>5, <4>6
      <4> QED BY <3>2, <4>2, <4>7
    <3> QED BY Zenon, <3>1, <3>2
  <2>7. t = [i \in 0 .. n |-> t[i]]
    OBVIOUS
  <2>8. IsLeft(t)
    BY Zenon, <2>3, <2>6, <2>7
  <2>9. Visible(win, above) = (CHOOSE h : IsLeft(h))[n]
    BY DEF Visible
  <2>10. IsLeft(CHOOSE h : IsLeft(h))
    <3> HIDE DEF IsLeft
    <3> QED BY Zenon, <2>8
  <2> HIDE DEF IsLeft
  <2> QED BY Zenon, <2>9, <2>10
<1>5. g[0] = AddRect(<<>>, win) /\ \A i \in 1 .. n : g[i] = Next1(g[i - 1], above[i])
  <2>1. \A i \in 1 .. n : i \in 0 .. n /\ i # 0
    OBVIOUS
  <2>2. 0 \in 0 .. n
    OBVIOUS
  <2> QED BY Zenon, <1>4, <2>1, <2>2
<1> HIDE DEF Next1, IsLeft
<1> DEFINE Good == {k \in 0 .. n : g[k] \in Lists /\ Cover(g[k]) = Cells(win) \ CoverAt(above, 1 .. k)}
<1>6. 0 \in Good
  <2>1. CoverAt(above, 1 .. 0) = {} /\ 0 \in 0 .. n
    BY DEF CoverAt
  <2> QED BY <1>1, <1>3, <1>5, <2>1
<1>7. ASSUME NEW k \in 1 .. n, k - 1 \in Good PROVE k \in Good
  <2>1. PICK s \in Lists : s = g[k - 1] /\ Cover(s) = Cells(win) \ CoverAt(above, 1 .. k - 1)
    BY <1>7
  <2>2. g[k] = Next1(s, above[k])
    BY <1>5, <2>1
  <2>3. g[k] \in Lists /\ Cover(g[k]) = Cover(s) \ Cells(above[k])
    <3> HIDE DEF Lists
    <3> QED BY <1>2, <2>2
  <2>4. CoverAt(above, 1 .. k) = CoverAt(above, 1 .. k - 1) \cup Cells(above[k])
    <3>1. \A i : i \in 1 .. k <=> i \in 1 .. k - 1 \/ i = k
      OBVIOUS
    <3>2. \A c : c \in CoverAt(above, 1 .. k) <=> c \in CoverAt(above, 1 .. k - 1) \/ c \in Cells(above[k])
      BY Zenon, <3>1 DEF CoverAt
    <3> QED BY <3>2
  <2>5. k \in 0 .. n
    OBVIOUS
  <2> QED BY Zenon, <2>1, <2>3, <2>4, <2>5
<1>8. n \in Good
  <2>1. n \in 0 .. n
    OBVIOUS
  <2> HIDE DEF Good
  <2> QED BY Zenon, <1>6, <1>7, <2>1, UpTo
<1>9. Cover(above) = CoverAt(above, 1 .. n)
  BY DEF Cover, CoverAt
<1> QED BY <1>4, <1>8, <1>9

\* The invariant of a region: its rectangles tile, they are inside the bounding
\* box, and they have what the calls ask for, as far as memory allows.
RegionOk(rects, bounds, w, e, f) ==
  /\ Tiles(rects) /\ Cover(rects) \subseteq Cells(bounds)
  /\ ~f => w \subseteq Cover(rects)
  /\ ~f /\ e => w = Cover(rects)
RegionInv == RegionOk(region.rects, region.box, wanted, exact, failed) /\ DrawsClipped

\* A call that draws nothing writes nothing.
LEMMA NothingDrawn == NoDraw => DrawsClipped'
<1> SUFFICES ASSUME NoDraw PROVE DrawsClipped'
  OBVIOUS
<1>1. painted' = <<>> /\ asked' = {}
  BY DEF NoDraw
<1> QED BY <1>1 DEF DrawsClipped

\* At the start the region is empty.
LEMMA RegionStart == RegionInit => RegionInv
<1> SUFFICES ASSUME RegionInit PROVE RegionInv
  OBVIOUS
<1>1. region.rects = <<>> /\ wanted = {} /\ painted = <<>> /\ asked = {}
  BY DEF RegionInit, Empty
<1>2. RegionOk(region.rects, region.box, wanted, exact, failed)
  BY <1>1, FewTiles DEF RegionOk
<1>3. DrawsClipped
  BY <1>1 DEF DrawsClipped
<1> QED BY <1>2, <1>3 DEF RegionInv

\* A point of the request, of a rectangle and of the screen is one of the
\* rectangle that the loops go through.
LEMMA ClippedHas ==
  ASSUME NEW r \in Rects, NEW q \in Rects
  PROVE  Cells(Clipped(r, q)) = Cells(r) \cap (Cells(q) \cap Cells(Box(0, 0, FbW, FbH)))
<1>1. PICK rx \in Int, ry \in Int, rw \in Int, rh \in Int : r.x = rx /\ r.y = ry /\ r.w = rw /\ r.h = rh
  BY DEF Rects
<1>2. PICK qx \in Int, qy \in Int, qw \in Int, qh \in Int : q.x = qx /\ q.y = qy /\ q.w = qw /\ q.h = qh
  BY DEF Rects
<1>3. FbW \in Nat /\ FbH \in Nat
  BY RegionsAssumption
<1>4. PICK x1 \in Int, y1 \in Int, x2 \in Int, y2 \in Int :
          /\ x1 = Larger(Larger(qx, rx), 0) /\ y1 = Larger(Larger(qy, ry), 0)
          /\ x2 = Smaller(Smaller(qx + qw, rx + rw), FbW) /\ y2 = Smaller(Smaller(qy + qh, ry + rh), FbH)
  BY <1>3 DEF Larger, Smaller
<1>5. Clipped(r, q) = Corners(x1, y1, x2, y2)
  BY <1>1, <1>2, <1>4 DEF Clipped
<1>6. PICK s : s = Box(0, 0, FbW, FbH)
  OBVIOUS
<1>7. s \in Rects /\ s.x = 0 /\ s.y = 0 /\ s.w = FbW /\ s.h = FbH
  BY <1>3, <1>6 DEF Box, Rects
<1>8. ASSUME NEW a \in Int, NEW b \in Int
      PROVE  <<a, b>> \in Cells(Clipped(r, q)) <=> <<a, b>> \in Cells(r) /\ <<a, b>> \in Cells(q) /\ <<a, b>> \in Cells(s)
  <2>1. <<a, b>> \in Cells(Clipped(r, q)) <=> x1 <= a /\ a < x2 /\ y1 <= b /\ b < y2
    BY Zenon, <1>5, CornersAre
  <2>2. <<a, b>> \in Cells(r) <=> rx <= a /\ a < rx + rw /\ ry <= b /\ b < ry + rh
    BY <1>1, CellsAre
  <2>3. <<a, b>> \in Cells(q) <=> qx <= a /\ a < qx + qw /\ qy <= b /\ b < qy + qh
    BY <1>2, CellsAre
  <2>4. <<a, b>> \in Cells(s) <=> 0 <= a /\ a < FbW /\ 0 <= b /\ b < FbH
    <3>1. <<a, b>> \in Cells(s) <=> s.x <= a /\ a < s.x + s.w /\ s.y <= b /\ b < s.y + s.h
      BY <1>7, CellsAre
    <3> QED BY <1>3, <1>7, <3>1
  <2>5. /\ x1 <= a <=> rx <= a /\ qx <= a /\ 0 <= a
        /\ y1 <= b <=> ry <= b /\ qy <= b /\ 0 <= b
    BY <1>4 DEF Larger
  <2>6. /\ a < x2 <=> a < rx + rw /\ a < qx + qw /\ a < FbW
        /\ b < y2 <=> b < ry + rh /\ b < qy + qh /\ b < FbH
    BY <1>3, <1>4 DEF Smaller
  <2> QED BY <2>1, <2>2, <2>3, <2>4, <2>5, <2>6
<1>9. Cells(Clipped(r, q)) \subseteq Int \X Int /\ Cells(r) \subseteq Int \X Int
  BY Zenon, <1>5, CornersAre, CellsAre
<1>10. \A c \in Int \X Int : \E a, b \in Int : c = <<a, b>>
  OBVIOUS
<1>11. \A c \in Int \X Int : c \in Cells(Clipped(r, q)) <=> c \in Cells(r) /\ c \in Cells(q) /\ c \in Cells(s)
  BY <1>8, <1>10
<1> QED BY <1>6, <1>9, <1>11

\* What is written is what is asked for.
LEMMA WritesAsked ==
  ASSUME NEW q \in Rects, NEW clip \in BOOLEAN, Tiles(region.rects), Asked(q, clip)
  PROVE  asked' = Written(q, clip) /\ asked' \subseteq Cells(q)
<1>1. PICK s : s = Cells(Box(0, 0, FbW, FbH))
  OBVIOUS
<1>2. PICK rects : rects = region.rects
  OBVIOUS
<1>3. rects \in Seq(Solid) /\ rects \in Seq(Rects)
  BY <1>2, SolidRects DEF Tiles
<1>4. asked' = (Cells(q) \cap s) \cap (IF clip THEN Cover(rects) ELSE Cells(q))
  BY <1>1, <1>2 DEF Asked
<1>5. CASE clip
  <2>1. Written(q, clip) = UNION {Cells(Clipped(r, q)) : r \in ToSet(rects)}
    BY <1>2, <1>5 DEF Written
  <2>2. ToSet(rects) = {rects[i] : i \in DOMAIN rects}
    BY DEF ToSet
  <2>3. ASSUME NEW c PROVE c \in Written(q, clip) <=> c \in Cover(rects) /\ c \in Cells(q) /\ c \in s
    <3>1. c \in Written(q, clip) <=> \E i \in DOMAIN rects : c \in Cells(Clipped(rects[i], q))
      BY <2>1, <2>2
    <3>2. c \in Cover(rects) <=> \E i \in DOMAIN rects : c \in Cells(rects[i])
      BY DEF Cover
    <3>3. ASSUME NEW i \in DOMAIN rects
          PROVE  c \in Cells(Clipped(rects[i], q)) <=> c \in Cells(rects[i]) /\ c \in Cells(q) /\ c \in s
      <4>1. PICK r \in Rects : r = rects[i]
        BY <1>3
      <4> QED BY <1>1, <4>1, ClippedHas
    <3> QED BY <3>1, <3>2, <3>3
  <2> QED BY Zenon, <1>4, <1>5, <2>3
<1>6. CASE ~clip
  <2>1. Written(q, clip) = UNION {Cells(Clipped(r, q)) : r \in {q}}
    BY <1>6 DEF Written
  <2>2. Written(q, clip) = Cells(Clipped(q, q))
    BY <2>1
  <2>3. Cells(Clipped(q, q)) = Cells(q) \cap (Cells(q) \cap s)
    BY <1>1, ClippedHas
  <2> QED BY <1>4, <1>6, <2>2, <2>3
<1> QED BY <1>5, <1>6

\* The constants of the module and the boxes that callers pass.
LEMMA BoxesAre ==
  /\ \A r \in Boxes : r \in [x : Int, y : Int, w : Nat, h : Nat] /\ r \in Rects
  /\ \A r \in Boxes : Cells(r) # {} => r \in Solid
  /\ <<0, 0>> \in Cells(Box(0, 0, SrcW, SrcH))
<1>1. \A r \in Boxes : r \in [x : Int, y : Int, w : Nat, h : Nat] /\ r \in Rects
  BY RegionsAssumption DEF Rects
<1>2. ASSUME NEW r \in Boxes, Cells(r) # {} PROVE r \in Solid
  <2>1. PICK c : c \in Cells(r)
    BY <1>2
  <2>2. PICK a \in Int, b \in Int : c = <<a, b>>
    BY <1>1, <2>1, CellsAre
  <2>3. r.x <= a /\ a < r.x + r.w /\ r.y <= b /\ b < r.y + r.h
    BY <1>1, <2>1, <2>2, CellsAre
  <2>4. r.x \in Int /\ r.y \in Int /\ r.w \in Nat /\ r.h \in Nat
    BY <1>1
  <2>5. r.w # 0 /\ r.h # 0
    BY <2>3, <2>4
  <2> QED BY <1>1, <2>5 DEF Solid
<1>3. <<0, 0>> \in Cells(Box(0, 0, SrcW, SrcH))
  <2>1. PICK s : s = Box(0, 0, SrcW, SrcH)
    OBVIOUS
  <2>2. s \in Rects /\ s.x = 0 /\ s.y = 0 /\ s.w = SrcW /\ s.h = SrcH /\ SrcW > 0 /\ SrcH > 0 /\ SrcW \in Nat /\ SrcH \in Nat
    BY <2>1, RegionsAssumption DEF Box, Rects
  <2>3. <<0, 0>> \in Cells(s) <=> s.x <= 0 /\ 0 < s.x + s.w /\ s.y <= 0 /\ 0 < s.y + s.h
    BY <2>2, CellsAre
  <2> QED BY <2>1, <2>2, <2>3
<1> QED BY <1>1, <1>2, <1>3

\* No call of the regions leaves points out or twice, and none draws outside.
LEMMA RegionStep == RegionInv /\ RegionNext => RegionInv'
<1> SUFFICES ASSUME RegionInv, RegionNext PROVE RegionInv'
  OBVIOUS
<1>1. PICK rects, bounds, w, e, f : rects = region.rects /\ bounds = region.box /\ w = wanted /\ e = exact /\ f = failed
  OBVIOUS
<1>2. /\ Tiles(rects) /\ Cover(rects) \subseteq Cells(bounds)
      /\ ~f => w \subseteq Cover(rects)
      /\ ~f /\ e => w = Cover(rects)
  BY <1>1 DEF RegionInv, RegionOk
\* A call that gives the region a new list
<1>3. ASSUME NEW s, Tiles(s), region' = Bounded(s), NoDraw,
             ~failed' => wanted' \subseteq Cover(s), ~failed' /\ exact' => wanted' = Cover(s)
      PROVE  RegionInv'
  <2>1. Bounded(s).rects = s /\ Cover(s) \subseteq Cells(Bounded(s).box)
    BY <1>3, BoundedTiles
  <2>2. region'.rects = s /\ Cover(s) \subseteq Cells(region'.box)
    BY <1>3, <2>1
  <2>3. RegionOk(region'.rects, region'.box, wanted', exact', failed')
    BY <1>3, <2>2 DEF RegionOk
  <2> QED BY <1>3, <2>3, NothingDrawn DEF RegionInv
\* A call that leaves it
<1>4. ASSUME region' = region, ~failed' => wanted' \subseteq Cover(rects), ~failed' /\ exact' => wanted' = Cover(rects),
             DrawsClipped'
      PROVE  RegionInv'
  <2>1. RegionOk(region'.rects, region'.box, wanted', exact', failed')
    BY <1>1, <1>2, <1>4 DEF RegionOk
  <2> QED BY <1>4, <2>1 DEF RegionInv
<1>5. ASSUME NEW r \in Boxes, ClipRegionAddRect(r) PROVE RegionInv'
  <2>1. /\ wanted' = w \cup Cells(r) /\ exact' = (rects = <<>> \/ (e /\ Cells(r) = {})) /\ NoDraw
        /\ \/ region' = Bounded(AddRect(rects, r)) /\ failed' = f
           \/ failed' = TRUE /\ region' = region
    BY <1>1, <1>5, Zenon DEF ClipRegionAddRect
  <2>2. PICK s : s = AddRect(rects, r)
    OBVIOUS
  <2>3. /\ Tiles(s) /\ Cover(rects) \cup Cells(r) \subseteq Cover(s)
        /\ rects = <<>> => Cover(s) = Cells(r)
        /\ Cells(r) = {} => s = rects
    BY <1>2, <2>2, BoxesAre, AddTiles
  <2>4. CASE region' = Bounded(s) /\ failed' = f
    <3>1. ~failed' => wanted' \subseteq Cover(s)
      BY <1>2, <2>1, <2>3, <2>4
    <3>2. ~failed' /\ exact' => wanted' = Cover(s)
      <4> SUFFICES ASSUME ~failed', exact' PROVE wanted' = Cover(s)
        OBVIOUS
      <4>1. ~f
        BY <2>4
      <4>2. CASE rects = <<>>
        BY <1>2, <2>1, <2>3, <4>1, <4>2, FewTiles
      <4>3. CASE e /\ Cells(r) = {}
        BY <1>2, <2>1, <2>3, <4>1, <4>3
      <4> QED BY Zenon, <2>1, <4>2, <4>3
    <3> QED BY <1>3, <2>1, <2>3, <2>4, <3>1, <3>2
  <2>5. CASE failed' = TRUE /\ region' = region
    BY <1>4, <2>1, <2>5, NothingDrawn
  <2> QED BY Zenon, <2>1, <2>2, <2>4, <2>5
<1>6. ASSUME NEW r \in Boxes, ClipRegionSubtractRect(r) PROVE RegionInv'
  <2>1. PICK left : left = SubtractRect(rects, r)
    OBVIOUS
  <2>2. PICK lost1 \in SUBSET (DOMAIN left) : /\ region' = Bounded(Only(left, DOMAIN left \ lost1))
                                            /\ failed' = (f \/ lost1 # {})
    <3>1. \E lost1 \in SUBSET {i \in DOMAIN left : left[i] \notin ToSet(rects)} :
              /\ region' = Bounded(Only(left, DOMAIN left \ lost1))
              /\ failed' = (f \/ lost1 # {})
      BY <1>1, <1>6, <2>1, Zenon DEF ClipRegionSubtractRect
    <3>2. PICK lost1 \in SUBSET {i \in DOMAIN left : left[i] \notin ToSet(rects)} :
              /\ region' = Bounded(Only(left, DOMAIN left \ lost1))
              /\ failed' = (f \/ lost1 # {})
      BY Zenon, <3>1
    <3>3. lost1 \in SUBSET (DOMAIN left)
      OBVIOUS
    <3> QED BY Zenon, <3>2, <3>3
  <2>3. Cells(r) # {} /\ wanted' = w \ Cells(r) /\ NoDraw /\ exact' = e
    BY <1>1, <1>6 DEF ClipRegionSubtractRect
  <2>4. r \in Solid
    BY <2>3, BoxesAre
  <2>5. Tiles(left) /\ Cover(left) = Cover(rects) \ Cells(r)
    BY <1>2, <2>1, <2>4, SubtractTiles
  <2>6. PICK places \in SUBSET (DOMAIN left) : places = DOMAIN left \ lost1
    BY Zenon
  <2>7. PICK s : s = Only(left, places)
    OBVIOUS
  <2>8. Tiles(s) /\ (places = DOMAIN left => Cover(s) = Cover(left))
    BY <2>5, <2>7, OnlySome
  <2>9. ~failed' => ~f /\ places = DOMAIN left
    BY Zenon, <2>2, <2>6
  <2>10. ~failed' => wanted' \subseteq Cover(s)
    BY <1>2, <2>3, <2>5, <2>8, <2>9
  <2>11. ~failed' /\ exact' => wanted' = Cover(s)
    BY <1>2, <2>3, <2>5, <2>8, <2>9
  <2> QED BY <1>3, <2>2, <2>3, <2>6, <2>7, <2>8, <2>10, <2>11
<1>7. ASSUME NEW r \in Boxes, ClipRegionSetRect(r) PROVE RegionInv'
  <2>1. /\ wanted' = Cells(r) /\ NoDraw
        /\ \/ region' = Bounded(AddRect(<<>>, r)) /\ failed' = FALSE
           \/ region' = Empty /\ failed' = TRUE
    BY <1>7 DEF ClipRegionSetRect
  <2>2. CASE region' = Bounded(AddRect(<<>>, r)) /\ failed' = FALSE
    <3>1. PICK s : s = AddRect(<<>>, r)
      OBVIOUS
    <3>2. Tiles(s) /\ Cover(s) = Cells(r)
      BY <3>1, BoxesAre, FewTiles, AddTiles
    <3> QED BY <1>3, <2>1, <2>2, <3>1, <3>2
  <2>3. CASE region' = Empty /\ failed' = TRUE
    <3>1. region' = Bounded(<<>>)
      BY <2>3 DEF Bounded
    <3> QED BY <1>3, <2>1, <2>3, <3>1, FewTiles
  <2> QED BY Zenon, <2>1, <2>2, <2>3
<1>8. ASSUME ClipRegionClear PROVE RegionInv'
  <2>1. region' = Bounded(<<>>) /\ wanted' = {} /\ NoDraw
    BY <1>8 DEF ClipRegionClear, Bounded
  <2> QED BY <1>3, <2>1, FewTiles
<1>9. ASSUME NEW win \in Boxes, NEW a \in Boxes, NEW b \in Boxes, WmComputeVisibleRegion(win, <<a, b>>) PROVE RegionInv'
  <2>1. PICK above : above = <<a, b>>
    BY Zenon
  <2>2. region' = Bounded(Visible(win, above)) /\ wanted' = Cells(win) \ Cover(above) /\ NoDraw
    BY <1>9, <2>1 DEF WmComputeVisibleRegion
  <2>3. PICK n \in Nat : n = 2
    OBVIOUS
  <2>4. above \in [1 .. n -> [x : Int, y : Int, w : Nat, h : Nat]] /\ Len(above) = n
    <3>1. a \in [x : Int, y : Int, w : Nat, h : Nat] /\ b \in [x : Int, y : Int, w : Nat, h : Nat]
      BY BoxesAre
    <3> QED BY <2>1, <2>3, <3>1
  <2>5. win \in [x : Int, y : Int, w : Nat, h : Nat]
    BY BoxesAre
  <2>6. PICK s : s = Visible(win, above)
    OBVIOUS
  <2>7. Tiles(s) /\ Cover(s) = Cells(win) \ Cover(above)
    BY Zenon, <2>4, <2>5, <2>6, VisibleTiles
  <2> QED BY <1>3, <2>2, <2>6, <2>7
<1>10. ASSUME NEW q \in Boxes, NEW clip \in BOOLEAN, Asked(q, clip),
              UNCHANGED <<region, wanted, exact, failed>>,
              \A c \in asked' : painted'[c] \in Cells(Box(0, 0, SrcW, SrcH)), DOMAIN painted' = Written(q, clip)
       PROVE  RegionInv'
  <2>1. asked' = Written(q, clip)
    BY <1>1, <1>2, <1>10, BoxesAre, WritesAsked
  <2>2. DrawsClipped'
    BY <1>10, <2>1 DEF DrawsClipped
  <2> QED BY <1>1, <1>2, <1>4, <1>10, <2>2
<1>11. ASSUME NEW q \in Boxes, NEW clip \in BOOLEAN, ClipDrawRect(q, clip) PROVE RegionInv'
  <2>1. Asked(q, clip) /\ UNCHANGED <<region, wanted, exact, failed>> /\ painted' = [c \in Written(q, clip) |-> <<0, 0>>]
    BY <1>11 DEF ClipDrawRect
  <2>2. asked' = Written(q, clip)
    BY <1>1, <1>2, <2>1, BoxesAre, WritesAsked
  <2>3. \A c \in asked' : painted'[c] \in Cells(Box(0, 0, SrcW, SrcH))
    BY <2>1, <2>2, BoxesAre
  <2> QED BY Zenon, <1>10, <2>1, <2>3
<1>12. ASSUME NEW q \in Boxes, NEW clip \in BOOLEAN, NEW sx \in 0 .. 1, ClipBlit(q, sx, clip) PROVE RegionInv'
  <2>1. /\ Asked(q, clip) /\ UNCHANGED <<region, wanted, exact, failed>> /\ sx + q.w <= SrcW /\ q.h <= SrcH
        /\ painted' = [c \in Written(q, clip) |-> <<sx + c[1] - q.x, c[2] - q.y>>]
    BY <1>12 DEF ClipBlit
  <2>2. asked' = Written(q, clip) /\ asked' \subseteq Cells(q)
    BY <1>1, <1>2, <2>1, BoxesAre, WritesAsked
  <2>3. PICK s : s = Box(0, 0, SrcW, SrcH)
    OBVIOUS
  <2>4. s \in Rects /\ s.x = 0 /\ s.y = 0 /\ s.w = SrcW /\ s.h = SrcH /\ SrcW \in Nat /\ SrcH \in Nat
    BY <2>3, RegionsAssumption DEF Box, Rects
  <2>5. q \in Rects /\ q.x \in Int /\ q.y \in Int /\ q.w \in Nat /\ q.h \in Nat
    BY BoxesAre
  <2>6. ASSUME NEW c \in asked' PROVE painted'[c] \in Cells(s)
    <3>1. c \in Cells(q) /\ c \in Written(q, clip)
      BY <2>2
    <3>2. PICK a \in Int, b \in Int : c = <<a, b>>
      BY <2>5, <3>1, CellsAre
    <3>3. q.x <= a /\ a < q.x + q.w /\ q.y <= b /\ b < q.y + q.h
      BY <2>5, <3>1, <3>2, CellsAre
    <3>4. painted'[c] = <<sx + c[1] - q.x, c[2] - q.y>>
      BY <2>1, <3>1
    <3>5. PICK i \in Int, j \in Int : i = sx + a - q.x /\ j = b - q.y
      BY <2>5
    <3>6. painted'[c] = <<i, j>>
      BY <3>2, <3>4, <3>5
    <3>7. 0 <= i /\ i < SrcW /\ 0 <= j /\ j < SrcH
      BY <2>1, <2>4, <2>5, <3>3, <3>5
    <3>8. <<i, j>> \in Cells(s) <=> s.x <= i /\ i < s.x + s.w /\ s.y <= j /\ j < s.y + s.h
      BY <2>4, CellsAre
    <3> QED BY <2>4, <3>6, <3>7, <3>8
  <2> QED BY <1>10, <2>1, <2>3, <2>6
<1> QED BY Zenon, <1>5, <1>6, <1>7, <1>8, <1>9, <1>11, <1>12 DEF RegionNext

-----------------------------------------------------------------------------
(* The widgets of the toolkit.                                               *)

\* The greatest of two numbers.
LEMMA MaxOfTwo ==
  ASSUME NEW a \in Int, NEW b \in Int
  PROVE  Max({a, b}) = IF a >= b THEN a ELSE b
<1>1. PICK m : m = IF a >= b THEN a ELSE b
  OBVIOUS
<1>2. m \in {a, b} /\ \A y \in {a, b} : m >= y
  BY <1>1
<1>3. Max({a, b}) \in {a, b} /\ \A y \in {a, b} : Max({a, b}) >= y
  BY Zenon, <1>2 DEF Max
<1>4. PICK n : n = Max({a, b})
  OBVIOUS
<1>5. n >= a /\ n >= b /\ (n = a \/ n = b)
  BY <1>3, <1>4
<1> QED BY <1>1, <1>4, <1>5

\* The invariant of the toolkit: the focus is marked where it is, and what is
\* selected is below the number of items.
FieldsOk(r) == /\ {"focused", "count", "selected"} \subseteq DOMAIN r
               /\ r.count \in Nat /\ r.selected \in Int
               /\ r.selected < 1 \/ r.selected < r.count
ToolkitInv == /\ kind \in Programs /\ DOMAIN wid = Widgets
              /\ \E s \in Seq(Widgets) : widget_list = s
              /\ focused_widget \in Widgets \cup {NoWidget}
              /\ \A w \in Widgets : /\ FieldsOk(wid[w])
                                    /\ wid[w].focused <=> w = focused_widget

\* Widgets are numbers, and none is the absent one.
LEMMA WidgetsAre ==
  ASSUME kind \in Programs
  PROVE  NoWidget \notin Widgets /\ Widgets \in SUBSET Nat
<1>1. PICK k \in Seq(STRING) : k = kind
  BY ToolkitAssumption
<1>2. Widgets = 1 .. Len(k) /\ Len(k) \in Nat
  BY <1>1 DEF Widgets
<1> QED BY <1>2 DEF NoWidget

\* Fields that change, and those that do not.
LEMMA FieldIs ==
  ASSUME NEW w \in Widgets, NEW c, Field(w, c), DOMAIN wid = Widgets
  PROVE  /\ DOMAIN wid' = Widgets
         /\ \A v \in Widgets : v # w => wid'[v] = wid[v]
         /\ DOMAIN wid'[w] = DOMAIN wid[w]
         /\ \A f \in DOMAIN wid[w] : wid'[w][f] = IF f \in DOMAIN c THEN c[f] ELSE wid[w][f]
<1>1. PICK r : r = wid[w]
  OBVIOUS
<1>2. PICK s : s = [f \in DOMAIN r |-> IF f \in DOMAIN c THEN c[f] ELSE r[f]]
  BY Zenon
<1>3. wid' = [wid EXCEPT ![w] = s]
  BY <1>1, <1>2 DEF Field
<1>4. wid'[w] = s /\ DOMAIN wid' = Widgets /\ \A v \in Widgets : v # w => wid'[v] = wid[v]
  BY <1>3
<1> QED BY <1>1, <1>2, <1>4

\* At the start no widget has the focus.
LEMMA ToolkitStart == WidgetInit => ToolkitInv
<1> SUFFICES ASSUME WidgetInit PROVE ToolkitInv
  OBVIOUS
<1>1. kind \in Programs /\ widget_list = <<>> /\ focused_widget = NoWidget
  BY DEF WidgetInit
<1>2. NoWidget \notin Widgets
  BY <1>1, WidgetsAre
<1>3. /\ DOMAIN wid = Widgets
      /\ \A w \in Widgets : wid[w] =
                    [visible |-> FALSE, focused |-> FALSE, on |-> FALSE, dragging |-> FALSE,
                     min |-> 0, max |-> 0, value |-> 0, count |-> 0, selected |-> 0, shown |-> 0]
  BY DEF WidgetInit
<1>4. ASSUME NEW w \in Widgets PROVE FieldsOk(wid[w]) /\ (wid[w].focused <=> w = focused_widget)
  <2>1. PICK r : r = wid[w]
    OBVIOUS
  <2>2. r = [visible |-> FALSE, focused |-> FALSE, on |-> FALSE, dragging |-> FALSE,
             min |-> 0, max |-> 0, value |-> 0, count |-> 0, selected |-> 0, shown |-> 0]
    BY <1>3, <2>1
  <2>3. FieldsOk(r) /\ r.focused = FALSE
    BY <2>2 DEF FieldsOk
  <2>4. w # focused_widget
    BY <1>1, <1>2
  <2> QED BY <2>1, <2>3, <2>4
<1>5. \E s \in Seq(Widgets) : widget_list = s
  <2>1. PICK W : W = Widgets
    OBVIOUS
  <2>2. <<>> \in Seq(W)
    OBVIOUS
  <2> QED BY Zenon, <1>1, <2>1, <2>2
<1> QED BY <1>1, <1>3, <1>4, <1>5 DEF ToolkitInv

\* No call, click or key moves the focus without its mark, or selects what is not there.
LEMMA ToolkitStep == ToolkitInv /\ WidgetNext => ToolkitInv'
<1> SUFFICES ASSUME ToolkitInv, WidgetCalls, kind' = kind PROVE ToolkitInv'
  BY DEF WidgetNext
<1>1. /\ kind \in Programs /\ DOMAIN wid = Widgets
      /\ focused_widget \in Widgets \cup {NoWidget}
      /\ \A w \in Widgets : FieldsOk(wid[w]) /\ (wid[w].focused <=> w = focused_widget)
  BY DEF ToolkitInv
<1>2. PICK s \in Seq(Widgets) : widget_list = s
  BY DEF ToolkitInv
<1>3. Widgets' = Widgets /\ NoWidget \notin Widgets
  BY <1>1, WidgetsAre DEF Widgets
<1>4. ToSet(widget_list) \subseteq Widgets
  BY <1>2 DEF ToSet
\* A call that leaves the focus
<1>5. ASSUME focused_widget' = focused_widget, NEW t \in Seq(Widgets), widget_list' = t, DOMAIN wid' = Widgets,
             \A w \in Widgets : FieldsOk(wid'[w]) /\ wid'[w].focused = wid[w].focused
      PROVE  ToolkitInv'
  <2>1. \A w \in Widgets : wid'[w].focused <=> w = focused_widget'
    BY <1>1, <1>5
  <2>2. kind' \in Programs /\ focused_widget' \in Widgets' \cup {NoWidget} /\ DOMAIN wid' = Widgets'
    BY <1>1, <1>3, <1>5
  <2>3. \A w \in Widgets' : FieldsOk(wid'[w]) /\ (wid'[w].focused <=> w = focused_widget')
    BY <1>3, <1>5, <2>1
  <2>4. (\E u \in Seq(Widgets) : widget_list = u)'
    BY <1>3, <1>5
  <2> QED BY <2>2, <2>3, <2>4 DEF ToolkitInv
\* One that changes fields of a widget
<1>6. ASSUME NEW w \in Widgets, NEW c, Field(w, c), "focused" \notin DOMAIN c, focused_widget' = focused_widget,
             NEW t \in Seq(Widgets), widget_list' = t,
             \E n \in Nat, i \in Int : /\ n = IF "count" \in DOMAIN c THEN c["count"] ELSE wid[w].count
                                       /\ i = IF "selected" \in DOMAIN c THEN c["selected"] ELSE wid[w].selected
                                       /\ i < 1 \/ i < n
      PROVE  ToolkitInv'
  <2>1. /\ DOMAIN wid' = Widgets
        /\ \A v \in Widgets : v # w => wid'[v] = wid[v]
        /\ DOMAIN wid'[w] = DOMAIN wid[w]
        /\ \A f \in DOMAIN wid[w] : wid'[w][f] = IF f \in DOMAIN c THEN c[f] ELSE wid[w][f]
    BY <1>1, <1>6, FieldIs
  <2>2. PICK r, q : r = wid[w] /\ q = wid'[w]
    OBVIOUS
  <2>3. {"focused", "count", "selected"} \subseteq DOMAIN r
    BY <1>1, <2>2 DEF FieldsOk
  <2>4. /\ DOMAIN q = DOMAIN r
        /\ q.focused = r.focused
        /\ q.count = IF "count" \in DOMAIN c THEN c["count"] ELSE r.count
        /\ q.selected = IF "selected" \in DOMAIN c THEN c["selected"] ELSE r.selected
    BY <1>6, <2>1, <2>2, <2>3
  <2>5. PICK n \in Nat, i \in Int : q.count = n /\ q.selected = i /\ (i < 1 \/ i < n)
    BY <1>6, <2>2, <2>4
  <2>6. FieldsOk(q)
    BY <2>3, <2>4, <2>5 DEF FieldsOk
  <2>7. \A v \in Widgets : FieldsOk(wid'[v]) /\ wid'[v].focused = wid[v].focused
    BY <1>1, <2>1, <2>2, <2>4, <2>6
  <2> QED BY <1>5, <1>6, <2>1, <2>7
\* The common case: neither items nor selection
<1>7. ASSUME NEW w \in Widgets, NEW c, Field(w, c), {"focused", "count", "selected"} \cap DOMAIN c = {},
             focused_widget' = focused_widget, NEW t \in Seq(Widgets), widget_list' = t
      PROVE  ToolkitInv'
  <2>1. "focused" \notin DOMAIN c /\ "count" \notin DOMAIN c /\ "selected" \notin DOMAIN c
    BY <1>7
  <2>2. PICK n \in Nat, i \in Int : n = wid[w].count /\ i = wid[w].selected /\ (i < 1 \/ i < n)
    BY Zenon, <1>1 DEF FieldsOk
  <2> QED BY <1>6, <1>7, <2>1, <2>2
<1>8. ASSUME NEW w, NEW c, Set(w, c) PROVE w \in Widgets /\ Field(w, c) /\ widget_list' = s /\ focused_widget' = focused_widget
  BY <1>2, <1>4, <1>8 DEF Set
<1>9. ASSUME NEW w \in Widgets, Create(w) PROVE ToolkitInv'
  <2>1. PICK t \in Seq(Widgets) : widget_list' = t
    <3>1. <<w>> \o s \in Seq(Widgets)
      BY ConcatProperties
    <3> QED BY Zenon, <1>2, <1>9, <3>1 DEF Create
  <2>2. PICK c : c = [visible |-> ~StartsHidden(kind[w]), max |-> FirstMax(kind[w]), value |-> FirstValue(kind[w])]
    BY Zenon
  <2>3. DOMAIN c = {"visible", "max", "value"}
    BY <2>2
  <2>4. Field(w, c) /\ focused_widget' = focused_widget
    BY <1>9, <2>2 DEF Create
  <2> QED BY <1>7, <2>1, <2>3, <2>4
<1>10. ASSUME NEW w \in Widgets, AddItem(w) PROVE ToolkitInv'
  <2>1. PICK c : c = [count |-> wid[w].count + 1]
    BY Zenon
  <2>2. DOMAIN c = {"count"} /\ c["count"] = wid[w].count + 1
    BY <2>1
  <2>3. Set(w, c)
    BY <1>10, <2>1 DEF AddItem
  <2>4. PICK m \in Nat, i \in Int : m = wid[w].count /\ i = wid[w].selected /\ (i < 1 \/ i < m)
    BY <1>1 DEF FieldsOk
  <2>5. PICK n \in Nat : n = m + 1 /\ (i < 1 \/ i < n)
    <3>1. m + 1 \in Nat /\ (i < 1 \/ i < m + 1)
      BY <2>4
    <3> QED BY <3>1
  <2>6. "focused" \notin DOMAIN c /\ "selected" \notin DOMAIN c /\ "count" \in DOMAIN c
    BY <2>2
  <2>7. n = c["count"]
    BY <2>2, <2>4, <2>5
  <2> QED BY <1>6, <1>8, <2>3, <2>4, <2>5, <2>6, <2>7
<1>11. ASSUME NEW w \in Widgets, Clear(w) PROVE ToolkitInv'
  <2>1. PICK c : c = [count |-> 0, selected |-> -1]
    BY Zenon
  <2>2. DOMAIN c = {"count", "selected"} /\ c["count"] = 0 /\ c["selected"] = -1
    BY <2>1
  <2>3. Set(w, c)
    BY <1>11, <2>1 DEF Clear
  <2>4. PICK n \in Nat, i \in Int : n = 0 /\ i = -1 /\ (i < 1 \/ i < n)
    OBVIOUS
  <2>5. "focused" \notin DOMAIN c /\ "selected" \in DOMAIN c /\ "count" \in DOMAIN c
    BY <2>2
  <2> QED BY Zenon, <1>6, <1>8, <2>2, <2>3, <2>4, <2>5
<1>12. ASSUME NEW w \in Widgets, NEW i, Select(w, i) PROVE ToolkitInv'
  <2>1. PICK m \in Nat : m = wid[w].count
    BY <1>1 DEF FieldsOk
  <2>2. i \in Int /\ i < m
    BY <1>12, <2>1 DEF Select, InList
  <2>3. \/ Set(w, [selected |-> i, on |-> FALSE])
        \/ Set(w, [selected |-> i])
    BY <1>12 DEF Select
  <2>4. PICK c : Set(w, c) /\ "selected" \in DOMAIN c /\ c["selected"] = i /\ "focused" \notin DOMAIN c /\ "count" \notin DOMAIN c
    <3>1. PICK c1, c2 : c1 = [selected |-> i, on |-> FALSE] /\ c2 = [selected |-> i]
      BY Zenon
    <3>2. /\ "selected" \in DOMAIN c1 /\ c1["selected"] = i /\ "focused" \notin DOMAIN c1 /\ "count" \notin DOMAIN c1
          /\ "selected" \in DOMAIN c2 /\ c2["selected"] = i /\ "focused" \notin DOMAIN c2 /\ "count" \notin DOMAIN c2
      BY <3>1
    <3> QED BY <2>3, <3>1, <3>2
  <2> QED BY <1>6, <1>8, <2>1, <2>2, <2>4
<1>13. ASSUME NEW w \in Widgets, Show(w) \/ Hide(w) PROVE ToolkitInv'
  <2>1. Set(w, [visible |-> TRUE, shown |-> now]) \/ Set(w, [visible |-> FALSE])
    BY <1>13 DEF Show, Hide
  <2>2. PICK c : Set(w, c) /\ {"focused", "count", "selected"} \cap DOMAIN c = {}
    <3>1. PICK c1, c2 : c1 = [visible |-> TRUE, shown |-> now] /\ c2 = [visible |-> FALSE]
      BY Zenon
    <3>2. {"focused", "count", "selected"} \cap DOMAIN c1 = {} /\ {"focused", "count", "selected"} \cap DOMAIN c2 = {}
      BY <3>1
    <3> QED BY <2>1, <3>1, <3>2
  <2> QED BY <1>7, <1>8, <2>2
<1>14. ASSUME NEW w \in Widgets, NEW v, SetValue(w, v) PROVE ToolkitInv'
  <2>1. Set(w, [value |-> Clamped(w, v)]) \/ Set(w, [value |-> v])
    BY <1>14 DEF SetValue
  <2>2. PICK c : Set(w, c) /\ {"focused", "count", "selected"} \cap DOMAIN c = {}
    <3>1. PICK c1, c2 : c1 = [value |-> Clamped(w, v)] /\ c2 = [value |-> v]
      BY Zenon
    <3>2. {"focused", "count", "selected"} \cap DOMAIN c1 = {} /\ {"focused", "count", "selected"} \cap DOMAIN c2 = {}
      BY <3>1
    <3> QED BY <2>1, <3>1, <3>2
  <2> QED BY <1>7, <1>8, <2>2
<1>15. ASSUME NEW w \in Widgets, NEW v, NEW u, SetRange(w, v, u) PROVE ToolkitInv'
  <2>1. PICK c : c = [min |-> v, max |-> u]
    BY Zenon
  <2>2. Set(w, c) /\ {"focused", "count", "selected"} \cap DOMAIN c = {}
    BY <1>15, <2>1 DEF SetRange
  <2> QED BY <1>7, <1>8, <2>2
\* The focus moves.
<1>16. ASSUME NEW w \in Widgets \cup {NoWidget}, focused_widget' = w, widget_list' = widget_list,
              DOMAIN wid' = Widgets,
              \A v \in Widgets : /\ wid'[v].focused = FocusTo(w)[v].focused /\ DOMAIN wid'[v] = DOMAIN wid[v]
                                 /\ wid'[v].count = wid[v].count /\ wid'[v].selected = wid[v].selected
       PROVE  ToolkitInv'
  <2>1. ASSUME NEW v \in Widgets PROVE FieldsOk(wid'[v]) /\ (wid'[v].focused <=> v = focused_widget')
    <3>1. PICK r, q : r = wid[v] /\ q = wid'[v]
      OBVIOUS
    <3>2. FieldsOk(r) /\ (r.focused <=> v = focused_widget)
      BY <1>1, <3>1
    <3>3. DOMAIN q = DOMAIN r /\ q.count = r.count /\ q.selected = r.selected
      BY <1>16, <3>1
    <3>4. FieldsOk(q)
      BY <3>2, <3>3 DEF FieldsOk
    <3>5. PICK b : b = IF v = w THEN TRUE ELSE IF v = focused_widget THEN FALSE ELSE r.focused
      BY Zenon
    <3>6. FocusTo(w)[v] = [r EXCEPT !.focused = b]
      BY <3>1, <3>5 DEF FocusTo
    <3>7. "focused" \in DOMAIN r
      BY <3>2 DEF FieldsOk
    <3>8. q.focused = b
      BY <1>16, <3>1, <3>6, <3>7
    <3>9. b <=> v = w
      BY Zenon, <3>2, <3>5
    <3> QED BY <1>16, <3>1, <3>4, <3>8, <3>9
  <2>2. kind' \in Programs /\ focused_widget' \in Widgets' \cup {NoWidget} /\ DOMAIN wid' = Widgets'
    BY <1>1, <1>3, <1>16
  <2>3. \A v \in Widgets' : FieldsOk(wid'[v]) /\ (wid'[v].focused <=> v = focused_widget')
    BY <1>3, <2>1
  <2>4. (\E u \in Seq(Widgets) : widget_list = u)'
    BY <1>2, <1>3, <1>16
  <2> QED BY <2>2, <2>3, <2>4 DEF ToolkitInv
<1>17. ASSUME NEW w
       PROVE  /\ DOMAIN FocusTo(w) = Widgets
              /\ \A v \in Widgets : /\ DOMAIN FocusTo(w)[v] = DOMAIN wid[v]
                                    /\ FocusTo(w)[v].count = wid[v].count /\ FocusTo(w)[v].selected = wid[v].selected
  <2>1. DOMAIN FocusTo(w) = Widgets
    BY DEF FocusTo
  <2>2. ASSUME NEW v \in Widgets
        PROVE  /\ DOMAIN FocusTo(w)[v] = DOMAIN wid[v]
               /\ FocusTo(w)[v].count = wid[v].count /\ FocusTo(w)[v].selected = wid[v].selected
    <3>1. PICK r, b : r = wid[v] /\ b = IF v = w THEN TRUE ELSE IF v = focused_widget THEN FALSE ELSE r.focused
      BY Zenon
    <3>2. FocusTo(w)[v] = [r EXCEPT !.focused = b]
      BY <3>1 DEF FocusTo
    <3>3. {"focused", "count", "selected"} \subseteq DOMAIN r
      BY <1>1, <3>1 DEF FieldsOk
    <3> QED BY <3>1, <3>2, <3>3
  <2> QED BY <2>1, <2>2
<1>18. ASSUME NEW w \in ToSet(widget_list) \cup {NoWidget}, WidgetSetFocus(w) PROVE ToolkitInv'
  <2>1. w \in Widgets \cup {NoWidget}
    BY <1>4
  <2>2. focused_widget' = w /\ wid' = FocusTo(w) /\ widget_list' = widget_list
    BY <1>18 DEF WidgetSetFocus
  <2> QED BY <1>16, <1>17, <2>1, <2>2
<1>19. ASSUME NEW p, NEW pressed, WidgetHandleMouse(p, pressed) PROVE ToolkitInv'
  <2>1. Hits(p) # {} /\ Hits(p) \in SUBSET Nat /\ Hits(p) \subseteq DOMAIN s
    <3>1. Hits(p) # {}
      BY <1>19 DEF WidgetHandleMouse
    <3>2. Hits(p) \subseteq DOMAIN s
      BY <1>2 DEF Hits
    <3>3. DOMAIN s = 1 .. Len(s) /\ Len(s) \in Nat
      BY <1>2
    <3>4. DOMAIN s \subseteq Nat
      BY <3>3
    <3> QED BY <3>1, <3>2, <3>4
  <2>2. Min(Hits(p)) \in Hits(p)
    BY <2>1, Least
  <2>3. PICK w \in Widgets : w = widget_list[Min(Hits(p))]
    BY <1>2, <2>1, <2>2
  <2>4. PICK on, dragging, F : /\ focused_widget' = w /\ widget_list' = widget_list /\ F = FocusTo(w)
                               /\ wid' = [F EXCEPT ![w].on = on, ![w].dragging = dragging]
    BY Zenon, <1>19, <2>3 DEF WidgetHandleMouse
  <2>5. /\ DOMAIN F = Widgets
        /\ \A v \in Widgets : DOMAIN F[v] = DOMAIN wid[v] /\ F[v].count = wid[v].count /\ F[v].selected = wid[v].selected
    BY <1>17, <2>4
  <2>6. PICK r : r = F[w]
    OBVIOUS
  <2>7. {"focused", "count", "selected"} \subseteq DOMAIN r
    BY <1>1, <2>5, <2>6 DEF FieldsOk
  <2>8. PICK q : q = [[r EXCEPT !.on = on] EXCEPT !.dragging = dragging]
    OBVIOUS
  <2>9. wid' = [F EXCEPT ![w] = q]
    BY Zenon, <2>4, <2>5, <2>6, <2>8
  <2>10. DOMAIN q = DOMAIN r /\ q.focused = r.focused /\ q.count = r.count /\ q.selected = r.selected
    BY <2>7, <2>8
  <2>11. DOMAIN wid' = Widgets /\ wid'[w] = q /\ \A v \in Widgets : v # w => wid'[v] = F[v]
    BY <2>5, <2>9
  <2>12. \A v \in Widgets : /\ wid'[v].focused = FocusTo(w)[v].focused /\ DOMAIN wid'[v] = DOMAIN wid[v]
                            /\ wid'[v].count = wid[v].count /\ wid'[v].selected = wid[v].selected
    <3> TAKE v \in Widgets
    <3>1. CASE v = w
      BY <2>4, <2>5, <2>6, <2>10, <2>11, <3>1
    <3>2. CASE v # w
      BY <2>4, <2>5, <2>11, <3>2
    <3> QED BY <3>1, <3>2
  <2> QED BY <1>16, <2>4, <2>11, <2>12
<1>20. ASSUME WidgetDrawAll PROVE ToolkitInv'
  <2>1. /\ DOMAIN wid' = Widgets /\ focused_widget' = focused_widget /\ widget_list' = s
        /\ \A w \in Widgets : wid'[w] = wid[w] \/ wid'[w] = [wid[w] EXCEPT !.visible = FALSE]
    BY <1>2, <1>20 DEF WidgetDrawAll
  <2>2. ASSUME NEW w \in Widgets PROVE FieldsOk(wid'[w]) /\ wid'[w].focused = wid[w].focused
    <3>1. PICK r : r = wid[w]
      OBVIOUS
    <3>2. FieldsOk(r)
      BY <1>1, <3>1
    <3>3. PICK q : q = [r EXCEPT !.visible = FALSE]
      BY Zenon
    <3>4. DOMAIN q = DOMAIN r /\ q.focused = r.focused /\ q.count = r.count /\ q.selected = r.selected
      BY <3>2, <3>3 DEF FieldsOk
    <3>5. FieldsOk(q)
      BY <3>2, <3>4 DEF FieldsOk
    <3> QED BY Zenon, <2>1, <3>1, <3>2, <3>3, <3>4, <3>5
  <2> QED BY <1>5, <2>1, <2>2
<1>21. ASSUME Tick PROVE ToolkitInv'
  BY <1>1, <1>2, <1>5, <1>21 DEF Tick
<1> QED BY <1>9, <1>10, <1>11, <1>12, <1>13, <1>14, <1>15, <1>18, <1>19, <1>20, <1>21 DEF WidgetCalls

\* Then the one widget that has the focus is marked.
LEMMA ToolkitSafe == ToolkitInv => FocusAndSelection
<1> SUFFICES ASSUME ToolkitInv PROVE FocusAndSelection
  OBVIOUS
<1>1. /\ kind \in Programs /\ focused_widget \in Widgets \cup {NoWidget}
      /\ \A w \in Widgets : FieldsOk(wid[w]) /\ (wid[w].focused <=> w = focused_widget)
  BY DEF ToolkitInv
<1>2. NoWidget \notin Widgets
  BY <1>1, WidgetsAre
<1>3. {w \in Widgets : wid[w].focused} = {focused_widget} \ {NoWidget}
  BY <1>1, <1>2
<1>4. ASSUME NEW w \in Of({"listview", "combobox", "tab"}) PROVE wid[w].selected < Max({wid[w].count, 1})
  <2>1. w \in Widgets
    <3>1. PICK s \in Seq(Widgets) : widget_list = s
      BY DEF ToolkitInv
    <3> QED BY <1>4, <3>1 DEF Of, ToSet
  <2>2. PICK n \in Nat, i \in Int : n = wid[w].count /\ i = wid[w].selected /\ (i < 1 \/ i < n)
    BY <1>1, <2>1 DEF FieldsOk
  <2>3. Max({n, 1}) = IF n >= 1 THEN n ELSE 1
    BY MaxOfTwo
  <2>4. i < Max({n, 1})
    BY <2>2, <2>3
  <2> QED BY <2>2, <2>4
<1> QED BY <1>3, <1>4 DEF FocusAndSelection

-----------------------------------------------------------------------------
(* The list view.                                                            *)

Items == [text : Int, id : Nat, marked : BOOLEAN]
Listed(n) == {s \in Seq(Items) : Len(s) = n}

\* What calls keep of the items: each once, with its text, and one mark.
Pairing(s) == {<<s[j].text, s[j].id>> : j \in 1 .. Len(s)}
Kept(s, all) == /\ \A j, k \in 1 .. Len(s) : s[j].id = s[k].id => j = k
                /\ \A j, k \in 1 .. Len(s) : s[j].marked = TRUE /\ s[k].marked = TRUE => j = k
                /\ Pairing(s) = all

\* An item is made of its fields.
LEMMA ListedAre ==
  ASSUME NEW n \in Nat, NEW s \in Listed(n)
  PROVE  /\ s \in Seq(Items) /\ Len(s) = n /\ DOMAIN s = 1 .. n
         /\ \A k \in 1 .. n : /\ s[k] \in Items /\ s[k].text \in Int /\ s[k].id \in Nat
                              /\ s[k].marked \in BOOLEAN
<1>1. s \in Seq(Items) /\ Len(s) = n
  BY DEF Listed
<1>2. DOMAIN s = 1 .. n /\ \A k \in 1 .. n : s[k] \in Items
  BY <1>1
<1>3. \A q \in Items : q.text \in Int /\ q.id \in Nat /\ q.marked \in BOOLEAN
  BY DEF Items
<1> QED BY <1>1, <1>2, <1>3

\* Items in another order are the same items.
LEMMA Rearranged ==
  ASSUME NEW n \in Nat, NEW s \in Listed(n), NEW t \in Listed(n), NEW all, Kept(s, all),
         NEW p \in [1 .. n -> 1 .. n], \A k \in 1 .. n : p[p[k]] = k /\ t[k] = s[p[k]]
  PROVE  Kept(t, all)
<1>1. Len(s) = n /\ Len(t) = n
  BY DEF Listed
<1>2. \A k \in 1 .. n : t[k] = s[p[k]] /\ p[k] \in 1 .. n
  OBVIOUS
<1>3. \A j, k \in 1 .. n : p[j] = p[k] => j = k
  <2> SUFFICES ASSUME NEW j \in 1 .. n, NEW k \in 1 .. n, p[j] = p[k] PROVE j = k
    OBVIOUS
  <2>1. p[p[j]] = j /\ p[p[k]] = k
    OBVIOUS
  <2> QED BY <2>1
<1>4. \A j, k \in 1 .. Len(t) : t[j].id = t[k].id => j = k
  <2> SUFFICES ASSUME NEW j \in 1 .. n, NEW k \in 1 .. n, t[j].id = t[k].id PROVE j = k
    BY <1>1
  <2>1. s[p[j]].id = s[p[k]].id
    BY <1>2
  <2>2. p[j] = p[k]
    BY <1>1, <1>2, <2>1 DEF Kept
  <2> QED BY <1>3, <2>2
<1>5. \A j, k \in 1 .. Len(t) : t[j].marked = TRUE /\ t[k].marked = TRUE => j = k
  <2> SUFFICES ASSUME NEW j \in 1 .. n, NEW k \in 1 .. n, t[j].marked = TRUE, t[k].marked = TRUE PROVE j = k
    BY Zenon, <1>1
  <2>1. s[p[j]].marked = TRUE /\ s[p[k]].marked = TRUE
    BY <1>2
  <2>2. p[j] = p[k]
    BY <1>1, <1>2, <2>1 DEF Kept
  <2> QED BY <1>3, <2>2
<1>6. Pairing(t) = Pairing(s)
  <2>1. ASSUME NEW j \in 1 .. n PROVE <<t[j].text, t[j].id>> \in Pairing(s)
    BY <1>1, <1>2 DEF Pairing
  <2>2. ASSUME NEW j \in 1 .. n PROVE <<s[j].text, s[j].id>> \in Pairing(t)
    <3>1. PICK k \in 1 .. n : k = p[j]
      OBVIOUS
    <3>2. t[k] = s[j]
      BY <3>1
    <3> QED BY <1>1, <3>2 DEF Pairing
  <2>3. Pairing(t) \subseteq Pairing(s)
    BY Zenon, <1>1, <2>1 DEF Pairing
  <2>4. Pairing(s) \subseteq Pairing(t)
    BY Zenon, <1>1, <2>2 DEF Pairing
  <2> QED BY Zenon, <2>3, <2>4
<1> QED BY <1>4, <1>5, <1>6 DEF Kept

\* Putting a pair in order exchanges its items or nothing.
LEMMA OrderedPair ==
  ASSUME NEW n \in Nat, NEW s \in Listed(n), NEW j \in 1 .. n - 1
  PROVE  \E t \in Listed(n) :
            /\ t = Ordered(s, j)
            /\ \A k \in 1 .. n : k # j /\ k # j + 1 => t[k] = s[k]
            /\ (t[j] = s[j] /\ t[j + 1] = s[j + 1]) \/ (t[j] = s[j + 1] /\ t[j + 1] = s[j])
            /\ t[j].text <= t[j + 1].text
<1>1. PICK m \in 1 .. n : m = j + 1 /\ m # j /\ j \in 1 .. n
  <2>1. j + 1 \in 1 .. n /\ j + 1 # j /\ j \in 1 .. n
    OBVIOUS
  <2> QED BY <2>1
<1>2. /\ s \in Seq(Items) /\ Len(s) = n /\ DOMAIN s = 1 .. n
      /\ \A k \in 1 .. n : s[k] \in Items /\ s[k].text \in Int
  BY ListedAre
<1>3. PICK a \in Int, b \in Int : a = s[j].text /\ b = s[m].text
  BY <1>1, <1>2
<1>4. CASE a > b
  <2>1. PICK t : t = [s EXCEPT ![j] = s[m], ![m] = s[j]]
    BY Zenon
  <2>2. Ordered(s, j) = t
    BY <1>1, <1>3, <1>4, <2>1 DEF Ordered
  <2>3. t[j] = s[m] /\ t[m] = s[j] /\ \A k \in 1 .. n : k # j /\ k # m => t[k] = s[k]
    BY <1>1, <1>2, <2>1
  <2>4. t \in Listed(n)
    <3>1. DOMAIN t = 1 .. n
      BY <1>2, <2>1
    <3>2. t = [k \in 1 .. n |-> t[k]]
      BY Zenon, <1>2, <2>1
    <3>3. \A k \in 1 .. n : t[k] \in Items
      BY <1>1, <1>2, <2>3
    <3>4. t \in Seq(Items) /\ Len(t) = n
      <4>1. t \in [1 .. n -> Items]
        BY <3>2, <3>3
      <4>2. t \in Seq(Items)
        BY <4>1, SeqDef
      <4> QED BY <3>1, <4>2, LenProperties
    <3> QED BY <3>4 DEF Listed
  <2>5. t[j].text = b /\ t[m].text = a
    BY <1>3, <2>3
  <2>6. b <= a
    BY <1>3, <1>4
  <2>7. t[j].text <= t[m].text
    BY <2>5, <2>6
  <2> QED BY <1>1, <2>2, <2>3, <2>4, <2>7
<1>5. CASE ~(a > b)
  <2>1. Ordered(s, j) = s
    BY <1>1, <1>3, <1>5 DEF Ordered
  <2>2. a <= b
    BY <1>3, <1>5
  <2>3. s[j].text <= s[m].text
    BY <1>3, <2>2
  <2> QED BY <1>1, <2>1, <2>3
<1> QED BY <1>4, <1>5

\* So it keeps the items.
LEMMA OrderedKeeps ==
  ASSUME NEW n \in Nat, NEW s \in Listed(n), NEW t \in Listed(n), NEW j \in 1 .. n - 1, NEW all, Kept(s, all),
         \A k \in 1 .. n : k # j /\ k # j + 1 => t[k] = s[k],
         (t[j] = s[j] /\ t[j + 1] = s[j + 1]) \/ (t[j] = s[j + 1] /\ t[j + 1] = s[j])
  PROVE  Kept(t, all)
<1>1. PICK m \in 1 .. n : m = j + 1 /\ m # j /\ j \in 1 .. n
  <2>1. j + 1 \in 1 .. n /\ j + 1 # j /\ j \in 1 .. n
    OBVIOUS
  <2> QED BY <2>1
<1>2. CASE t[j] = s[j] /\ t[m] = s[m]
  <2>1. PICK p : p = [k \in 1 .. n |-> k]
    BY Zenon
  <2>2. p \in [1 .. n -> 1 .. n] /\ \A k \in 1 .. n : p[p[k]] = k
    BY <2>1
  <2>3. \A k \in 1 .. n : t[k] = s[k]
    BY <1>1, <1>2
  <2>4. \A k \in 1 .. n : t[k] = s[p[k]]
    BY <2>1, <2>3
  <2> QED BY <2>2, <2>4, Rearranged
<1>3. CASE t[j] = s[m] /\ t[m] = s[j]
  <2>1. PICK p : p = [k \in 1 .. n |-> IF k = j THEN m ELSE IF k = m THEN j ELSE k]
    BY Zenon
  <2>2. p \in [1 .. n -> 1 .. n] /\ p[j] = m /\ p[m] = j /\ \A k \in 1 .. n : k # j /\ k # m => p[k] = k
    BY <1>1, <2>1
  <2>3. \A k \in 1 .. n : p[p[k]] = k
    BY Zenon, <1>1, <2>2
  <2>4. \A k \in 1 .. n : t[k] = s[p[k]]
    BY Zenon, <1>1, <1>3, <2>2
  <2> QED BY <2>2, <2>3, <2>4, Rearranged
<1> QED BY <1>1, <1>2, <1>3

\* From a place on, every item comes after all those before it.
Top(s, n, m) == \A a, b \in 1 .. n : m <= b /\ a <= b => s[a].text <= s[b].text

\* A pair put in order leaves the items behind it, and its second item comes
\* after all those before it.
LEMMA PairTop ==
  ASSUME NEW n \in Nat, NEW s \in Listed(n), NEW t \in Listed(n), NEW j \in 1 .. n - 1, NEW m \in j + 2 .. n + 1,
         \A k \in 1 .. n : k # j /\ k # j + 1 => t[k] = s[k],
         (t[j] = s[j] /\ t[j + 1] = s[j + 1]) \/ (t[j] = s[j + 1] /\ t[j + 1] = s[j]),
         t[j].text <= t[j + 1].text,
         Top(s, n, m), \A a \in 1 .. j - 1 : s[a].text <= s[j].text
  PROVE  Top(t, n, m) /\ \A a \in 1 .. j : t[a].text <= t[j + 1].text
<1>1. PICK i \in 1 .. n : i = j + 1 /\ i # j /\ j \in 1 .. n
  <2>1. j + 1 \in 1 .. n /\ j + 1 # j /\ j \in 1 .. n
    OBVIOUS
  <2> QED BY <2>1
<1>2. PICK x : x = [k \in 1 .. n |-> s[k].text]
  BY Zenon
<1>3. PICK y : y = [k \in 1 .. n |-> t[k].text]
  BY Zenon
<1>4. x \in [1 .. n -> Int] /\ y \in [1 .. n -> Int]
  BY <1>2, <1>3, ListedAre
<1>5. /\ \A k \in 1 .. n : k # j /\ k # i => y[k] = x[k]
      /\ (y[j] = x[j] /\ y[i] = x[i]) \/ (y[j] = x[i] /\ y[i] = x[j])
      /\ y[j] <= y[i]
  BY Zenon, <1>1, <1>2, <1>3
<1>6. \A a, b \in 1 .. n : m <= b /\ a <= b => x[a] <= x[b]
  BY <1>2 DEF Top
<1>7. \A a \in 1 .. j - 1 : x[a] <= x[j]
  <2> TAKE a \in 1 .. j - 1
  <2>1. a \in 1 .. n
    BY <1>1
  <2> QED BY <1>1, <1>2, <2>1
<1>8. ASSUME NEW a \in 1 .. n, NEW b \in 1 .. n, m <= b, a <= b PROVE y[a] <= y[b]
  <2>1. b # j /\ b # i /\ j <= b /\ i <= b
    BY <1>1, <1>8
  <2>2. y[b] = x[b] /\ x[a] <= x[b] /\ x[j] <= x[b] /\ x[i] <= x[b]
    BY <1>1, <1>5, <1>6, <1>8, <2>1
  <2>3. y[a] = x[a] \/ y[a] = x[j] \/ y[a] = x[i]
    BY <1>1, <1>5
  <2> QED BY <2>2, <2>3
<1>9. ASSUME NEW a \in 1 .. j PROVE a \in 1 .. n /\ y[a] <= y[i]
  <2>1. a \in 1 .. n
    BY <1>1
  <2>2. CASE a = j
    BY <1>5, <2>1, <2>2
  <2>3. CASE a # j
    <3>1. a \in 1 .. j - 1 /\ a # i
      BY <1>1, <2>3
    <3>2. y[a] = x[a] /\ x[a] <= x[j]
      BY <1>5, <1>7, <2>1, <2>3, <3>1
    <3>3. PICK u \in Int, v \in Int, w \in Int, z \in Int : u = x[j] /\ v = x[i] /\ w = y[i] /\ z = x[a]
      BY <1>1, <1>4, <2>1
    <3>4. u <= w
      <4>1. (y[j] = u /\ w = v) \/ (y[j] = v /\ w = u)
        BY <1>5, <3>3
      <4>2. y[j] <= w
        BY <1>5, <3>3
      <4> QED BY <3>3, <4>1, <4>2
    <3>5. z <= u
      BY <3>2, <3>3
    <3>6. z <= w
      BY <3>3, <3>4, <3>5
    <3> QED BY <2>1, <3>2, <3>3, <3>6
  <2> QED BY <2>2, <2>3
<1>10. Top(t, n, m)
  <2>1. \A a, b \in 1 .. n : m <= b /\ a <= b => t[a].text <= t[b].text
    <3> TAKE a, b \in 1 .. n
    <3> HAVE m <= b /\ a <= b
    <3>1. y[a] <= y[b]
      BY <1>8
    <3> QED BY <1>3, <3>1
  <2> QED BY <2>1 DEF Top
<1>11. \A a \in 1 .. j : t[a].text <= t[i].text
  <2> TAKE a \in 1 .. j
  <2>1. a \in 1 .. n /\ y[a] <= y[i]
    BY <1>9
  <2> QED BY <1>1, <1>3, <2>1
<1> QED BY <1>1, <1>10, <1>11

\* A pass puts one pair after another in order.
IsPass(g, s, l) == \A j \in 0 .. l : g[j] = IF j = 0 THEN s ELSE Ordered(g[j - 1], j)

\* A pass over a list exists and every stage of it is a list of the same items.
LEMMA PassIs ==
  ASSUME NEW n \in Nat, NEW s \in Listed(n), NEW i \in 1 .. n - 1
  PROVE  \E g : IsPass(g, s, n - i) /\ Pass(s, i) = g[n - i] /\ \A j \in 0 .. n - i : g[j] \in Listed(n)
<1>1. PICK l \in 1 .. n - 1 : l = n - i /\ l \in Nat
  <2>1. n - i \in 1 .. n - 1 /\ n - i \in Nat
    OBVIOUS
  <2> QED BY <2>1
<1>2. Len(s) = n /\ LastPair(Len(s), i) = l
  BY <1>1 DEF Listed, LastPair
<1> DEFINE IsAfterAll(h) == h = [j \in 0 .. l |-> IF j = 0 THEN s ELSE Ordered(h[j - 1], j)]
<1>3. PICK g : IsAfterAll(g) /\ Pass(s, i) = g[l]
  <2>1. PICK step : step = [q \in (1 .. l) \X Listed(n) |-> Ordered(q[2], q[1])]
    BY Zenon
  <2>2. \A q \in (1 .. l) \X Listed(n) : Ordered(q[2], q[1]) \in Listed(n)
    <3> TAKE q \in (1 .. l) \X Listed(n)
    <3>1. PICK v \in Listed(n), j \in 1 .. l : v = q[2] /\ j = q[1]
      OBVIOUS
    <3>2. j \in 1 .. n - 1
      BY <1>1
    <3>3. Ordered(v, j) \in Listed(n)
      BY <3>2, OrderedPair
    <3> QED BY <3>1, <3>3
  <2>3. step \in [(1 .. l) \X Listed(n) -> Listed(n)]
    BY <2>1, <2>2
  <2>4. PICK t \in [0 .. l -> Listed(n)] : Steps(t, s, l, step)
    BY Zenon, <1>1, <2>3, Iterated
  <2>5. ASSUME NEW j \in 0 .. l PROVE t[j] = IF j = 0 THEN s ELSE Ordered(t[j - 1], j)
    <3>1. CASE j = 0
      BY <2>4, <3>1 DEF Steps
    <3>2. CASE j # 0
      <4>1. j \in 1 .. l /\ j - 1 \in 0 .. l
        BY <3>2
      <4>2. PICK v \in Listed(n) : v = t[j - 1]
        BY <4>1
      <4>3. t[j] = step[<<j, v>>]
        BY <2>4, <4>1, <4>2 DEF Steps
      <4>4. PICK w : w = <<j, v>>
        BY Zenon
      <4>5. w \in (1 .. l) \X Listed(n) /\ w[1] = j /\ w[2] = v
        BY <4>1, <4>4
      <4>6. step[w] = Ordered(w[2], w[1])
        BY <2>1, <4>5
      <4> QED BY <3>2, <4>2, <4>3, <4>4, <4>5, <4>6
    <3> QED BY <3>1, <3>2
  <2>6. t = [j \in 0 .. l |-> t[j]]
    OBVIOUS
  <2>7. IsAfterAll(t)
    BY <2>5, <2>6
  <2>8. Pass(s, i) = (CHOOSE h : IsAfterAll(h))[l]
    BY <1>2 DEF Pass
  <2>9. IsAfterAll(CHOOSE h : IsAfterAll(h))
    <3> HIDE DEF IsAfterAll
    <3> QED BY Zenon, <2>7
  <2> HIDE DEF IsAfterAll
  <2> QED BY Zenon, <2>8, <2>9
<1>4. IsPass(g, s, l)
  <2>1. \A j \in 0 .. l : g[j] = IF j = 0 THEN s ELSE Ordered(g[j - 1], j)
    BY <1>3
  <2> QED BY <2>1 DEF IsPass
<1> HIDE DEF IsAfterAll
<1> DEFINE Good == {j \in 0 .. l : g[j] \in Listed(n)}
<1>5. 0 \in Good
  <2>1. g[0] = s /\ 0 \in 0 .. l
    BY <1>1, <1>4 DEF IsPass
  <2> QED BY <2>1
<1>6. ASSUME NEW j \in 1 .. l, j - 1 \in Good PROVE j \in Good
  <2>1. PICK u \in Listed(n) : u = g[j - 1]
    BY <1>6
  <2>2. j \in 1 .. n - 1 /\ j \in 0 .. l /\ j # 0
    BY <1>1
  <2>3. Ordered(u, j) \in Listed(n)
    BY <2>2, OrderedPair
  <2> QED BY <1>4, <2>1, <2>2, <2>3 DEF IsPass
<1>7. \A j \in 0 .. l : j \in Good
  <2> HIDE DEF Good
  <2> QED BY <1>1, <1>5, <1>6, UpTo
<1> QED BY <1>1, <1>3, <1>4, <1>7

\* A pass carries the last of the items that are not yet in place to its place.
LEMMA PassTop ==
  ASSUME NEW n \in Nat, NEW s \in Listed(n), NEW i \in 1 .. n - 1, NEW all, Kept(s, all), Top(s, n, n - i + 2)
  PROVE  \E t \in Listed(n) : t = Pass(s, i) /\ Kept(t, all) /\ Top(t, n, n - i + 1)
<1>1. PICK l \in 1 .. n - 1 : l = n - i /\ l \in Nat
  <2>1. n - i \in 1 .. n - 1 /\ n - i \in Nat
    OBVIOUS
  <2> QED BY <2>1
<1>3. PICK g : IsPass(g, s, l) /\ Pass(s, i) = g[l]
  BY <1>1, PassIs
<1>4. \A j \in 0 .. l : g[j] = IF j = 0 THEN s ELSE Ordered(g[j - 1], j)
  BY <1>3 DEF IsPass
<1> DEFINE Good == {j \in 0 .. l : /\ g[j] \in Listed(n) /\ Kept(g[j], all) /\ Top(g[j], n, l + 2)
                                   /\ \A a \in 1 .. j : g[j][a].text <= g[j][j + 1].text}
<1>5. 0 \in Good
  <2>1. g[0] = s /\ 0 \in 0 .. l
    BY <1>1, <1>4
  <2>2. Top(s, n, l + 2)
    BY <1>1
  <2> QED BY <2>1, <2>2
<1>6. ASSUME NEW j \in 1 .. l, j - 1 \in Good PROVE j \in Good
  <2>1. PICK u \in Listed(n) : u = g[j - 1] /\ Kept(u, all) /\ Top(u, n, l + 2) /\ \A a \in 1 .. j - 1 : u[a].text <= u[j].text
    <3>1. j - 1 + 1 = j
      OBVIOUS
    <3> QED BY <1>6, <3>1
  <2>2. j \in 1 .. n - 1 /\ j \in 0 .. l /\ j # 0 /\ l + 2 \in j + 2 .. n + 1
    BY <1>1
  <2>3. PICK t \in Listed(n) :
            /\ t = Ordered(u, j)
            /\ \A k \in 1 .. n : k # j /\ k # j + 1 => t[k] = u[k]
            /\ (t[j] = u[j] /\ t[j + 1] = u[j + 1]) \/ (t[j] = u[j + 1] /\ t[j + 1] = u[j])
            /\ t[j].text <= t[j + 1].text
    BY <2>2, OrderedPair
  <2>4. g[j] = t
    BY <1>4, <2>1, <2>2, <2>3
  <2>5. Kept(t, all)
    BY <2>1, <2>2, <2>3, OrderedKeeps
  <2>6. PICK m \in j + 2 .. n + 1 : m = l + 2
    BY <2>2
  <2>7. Top(u, n, m)
    BY <2>1, <2>6
  <2>8. Top(t, n, m) /\ \A a \in 1 .. j : t[a].text <= t[j + 1].text
    BY <2>1, <2>2, <2>3, <2>7, PairTop
  <2> QED BY <2>2, <2>4, <2>5, <2>6, <2>8
<1>7. l \in Good
  <2>1. l \in 0 .. l
    BY <1>1
  <2> HIDE DEF Good
  <2> QED BY <1>1, <1>5, <1>6, <2>1, UpTo
<1>8. PICK t \in Listed(n) : /\ t = Pass(s, i) /\ Kept(t, all) /\ Top(t, n, l + 2)
                           /\ \A a \in 1 .. l : t[a].text <= t[l + 1].text
  BY <1>3, <1>7
<1>9. Top(t, n, l + 1)
  <2>1. ASSUME NEW a \in 1 .. n, NEW b \in 1 .. n, l + 1 <= b, a <= b PROVE t[a].text <= t[b].text
    <3>1. CASE l + 2 <= b
      BY <1>8, <2>1, <3>1 DEF Top
    <3>2. CASE ~(l + 2 <= b)
      <4>1. b = l + 1
        BY <1>1, <2>1, <3>2
      <4>2. CASE a = b
        <5>1. t[b].text \in Int
          BY ListedAre
        <5>2. t[b].text <= t[b].text
          BY <5>1
        <5> QED BY <4>2, <5>2
      <4>3. CASE a # b
        <5>1. a \in 1 .. l
          BY <1>1, <2>1, <4>1, <4>3
        <5> QED BY <1>8, <4>1, <5>1
      <4> QED BY <4>2, <4>3
    <3> QED BY <3>1, <3>2
  <2> QED BY <2>1 DEF Top
<1> QED BY <1>1, <1>8, <1>9

\* So the passes of the sort put all items in order.
LEMMA BubbledRises ==
  ASSUME NEW n \in Nat, NEW s \in Listed(n), n >= 1, NEW all, Kept(s, all)
  PROVE  \E t \in Listed(n) : t = Bubbled(s) /\ Kept(t, all) /\ Top(t, n, 1)
<1>1. PICK l \in Nat : l = n - 1
  <2>1. n - 1 \in Nat
    OBVIOUS
  <2> QED BY <2>1
<1>2. Len(s) - 1 = l
  BY <1>1 DEF Listed
<1> DEFINE IsAfterAll(h) == h = [i \in 0 .. l |-> IF i = 0 THEN s ELSE Pass(h[i - 1], i)]
<1>3. PICK g : IsAfterAll(g) /\ Bubbled(s) = g[l]
  <2>1. PICK step : step = [q \in (1 .. l) \X Listed(n) |-> Pass(q[2], q[1])]
    BY Zenon
  <2>2. \A q \in (1 .. l) \X Listed(n) : Pass(q[2], q[1]) \in Listed(n)
    <3> TAKE q \in (1 .. l) \X Listed(n)
    <3>1. PICK v \in Listed(n), i \in 1 .. l : v = q[2] /\ i = q[1]
      OBVIOUS
    <3>2. i \in 1 .. n - 1 /\ n - i \in 0 .. n - i
      BY <1>1
    <3>3. Pass(v, i) \in Listed(n)
      BY <3>2, PassIs
    <3> QED BY <3>1, <3>3
  <2>3. step \in [(1 .. l) \X Listed(n) -> Listed(n)]
    BY <2>1, <2>2
  <2>4. PICK t \in [0 .. l -> Listed(n)] : Steps(t, s, l, step)
    BY Zenon, <1>1, <2>3, Iterated
  <2>5. ASSUME NEW i \in 0 .. l PROVE t[i] = IF i = 0 THEN s ELSE Pass(t[i - 1], i)
    <3>1. CASE i = 0
      BY <2>4, <3>1 DEF Steps
    <3>2. CASE i # 0
      <4>1. i \in 1 .. l /\ i - 1 \in 0 .. l
        BY <3>2
      <4>2. PICK v \in Listed(n) : v = t[i - 1]
        BY <4>1
      <4>3. t[i] = step[<<i, v>>]
        BY <2>4, <4>1, <4>2 DEF Steps
      <4>4. PICK w : w = <<i, v>>
        BY Zenon
      <4>5. w \in (1 .. l) \X Listed(n) /\ w[1] = i /\ w[2] = v
        BY <4>1, <4>4
      <4>6. step[w] = Pass(w[2], w[1])
        BY <2>1, <4>5
      <4> QED BY <3>2, <4>2, <4>3, <4>4, <4>5, <4>6
    <3> QED BY <3>1, <3>2
  <2>6. t = [i \in 0 .. l |-> t[i]]
    OBVIOUS
  <2>7. IsAfterAll(t)
    BY <2>5, <2>6
  <2>8. Bubbled(s) = (CHOOSE h : IsAfterAll(h))[l]
    BY Zenon, <1>2 DEF Bubbled
  <2>9. IsAfterAll(CHOOSE h : IsAfterAll(h))
    <3> HIDE DEF IsAfterAll
    <3> QED BY Zenon, <2>7
  <2> HIDE DEF IsAfterAll
  <2> QED BY Zenon, <2>8, <2>9
<1>4. \A i \in 0 .. l : g[i] = IF i = 0 THEN s ELSE Pass(g[i - 1], i)
  BY <1>3
<1> HIDE DEF IsAfterAll
<1> DEFINE Good == {i \in 0 .. l : g[i] \in Listed(n) /\ Kept(g[i], all) /\ Top(g[i], n, n - i + 1)}
<1>5. 0 \in Good
  <2>1. g[0] = s /\ 0 \in 0 .. l /\ n - 0 + 1 = n + 1
    BY <1>4
  <2>2. Top(s, n, n + 1)
    BY DEF Top
  <2> QED BY <2>1, <2>2
<1>6. ASSUME NEW i \in 1 .. l, i - 1 \in Good PROVE i \in Good
  <2>1. PICK u \in Listed(n) : u = g[i - 1] /\ Kept(u, all) /\ Top(u, n, n - i + 2)
    <3>1. n - (i - 1) + 1 = n - i + 2
      OBVIOUS
    <3> QED BY <1>6, <3>1
  <2>2. i \in 1 .. n - 1 /\ i \in 0 .. l /\ i # 0
    BY <1>1
  <2>3. PICK t \in Listed(n) : t = Pass(u, i) /\ Kept(t, all) /\ Top(t, n, n - i + 1)
    BY <2>1, <2>2, PassTop
  <2> QED BY <1>4, <2>1, <2>2, <2>3
<1>7. l \in Good
  <2>1. l \in 0 .. l
    BY <1>1
  <2> HIDE DEF Good
  <2> QED BY <1>1, <1>5, <1>6, <2>1, UpTo
<1>8. PICK t \in Listed(n) : t = Bubbled(s) /\ Kept(t, all) /\ Top(t, n, 2)
  <2>1. n - l + 1 = 2
    BY <1>1
  <2> QED BY <1>3, <1>7, <2>1
<1>9. Top(t, n, 1)
  <2>1. ASSUME NEW a \in 1 .. n, NEW b \in 1 .. n, 1 <= b, a <= b PROVE t[a].text <= t[b].text
    <3>1. CASE 2 <= b
      BY <1>8, <2>1, <3>1 DEF Top
    <3>2. CASE ~(2 <= b)
      <4>1. a = b
        BY <2>1, <3>2
      <4>2. t[b].text \in Int
        BY ListedAre
      <4>3. t[b].text <= t[b].text
        BY <4>2
      <4> QED BY <4>1, <4>3
    <3> QED BY <3>1, <3>2
  <2> QED BY <2>1 DEF Top
<1> QED BY <1>8, <1>9

\* A sequence without the item at a place
IsWithout(t, s, n, i) == /\ t = RemoveAt(s, i) /\ Len(t) = n - 1
                         /\ \A k \in 1 .. n - 1 : t[k] = IF k < i THEN s[k] ELSE s[k + 1]

\* Taking an item out leaves the others in their order.
LEMMA WithoutOne ==
  ASSUME NEW S, NEW s \in Seq(S), NEW n \in Nat, n = Len(s), NEW i \in 1 .. n
  PROVE  \E t \in Seq(S) : IsWithout(t, s, n, i)
<1>1. PICK j \in 0 .. Len(s) : j = i - 1
  OBVIOUS
<1>2. PICK a \in Seq(S) : IsBefore(a, s, j)
  BY TextBefore
<1>3. PICK b \in Seq(S) : IsAfter(b, s, i)
  <2>1. i \in 0 .. Len(s)
    OBVIOUS
  <2> QED BY <2>1, TextAfter
<1>4. RemoveAt(s, i) = a \o b
  BY <1>1, <1>2, <1>3 DEF RemoveAt, IsBefore, IsAfter
<1>5. PICK t : t = a \o b
  BY Zenon
<1>6. /\ t \in Seq(S) /\ Len(t) = Len(a) + Len(b)
      /\ \A k \in 1 .. Len(a) + Len(b) : t[k] = IF k <= Len(a) THEN a[k] ELSE b[k - Len(a)]
  BY <1>5, ConcatProperties
<1>7. /\ Len(a) = j /\ Len(b) = n - i
      /\ \A k \in 1 .. j : a[k] = s[k]
      /\ \A k \in 1 .. n - i : b[k] = s[i + k]
  BY <1>2, <1>3 DEF IsBefore, IsAfter
<1>8. Len(t) = n - 1
  BY <1>1, <1>6, <1>7
<1>9. ASSUME NEW k \in 1 .. n - 1 PROVE t[k] = IF k < i THEN s[k] ELSE s[k + 1]
  <2>1. k \in 1 .. Len(a) + Len(b)
    BY <1>1, <1>7
  <2>2. CASE k < i
    <3>1. k \in 1 .. j /\ k <= Len(a)
      BY <1>1, <1>7, <2>2
    <3> QED BY <1>6, <1>7, <2>1, <2>2, <3>1
  <2>3. CASE ~(k < i)
    <3>1. k - j \in 1 .. n - i /\ ~(k <= j) /\ i + (k - j) = k + 1
      BY <1>1, <2>3
    <3>2. t[k] = b[k - j]
      BY <1>6, <1>7, <2>1, <3>1
    <3>3. b[k - j] = s[i + (k - j)]
      BY Zenon, <1>7, <3>1
    <3> QED BY Zenon, <2>3, <3>1, <3>2, <3>3
  <2> QED BY <2>2, <2>3
<1>10. IsWithout(t, s, n, i)
  BY <1>4, <1>5, <1>8, <1>9 DEF IsWithout
<1> QED BY <1>6, <1>10

\* The invariant of a list: its items are those that were added, each once, at
\* most one of them marked, in order if they were sorted; and a selected
\* position that is in the list.
ListIs(n, s, i) == /\ n <= MaxItems
                   /\ list = [items |-> s, selected |-> i]
                   /\ Kept(s, added)
                   /\ sorted = TRUE => Top(s, n, 1)
                   /\ -1 <= i /\ (i < 1 \/ i < n)
ListInv == \E n \in Nat : \E s \in Listed(n) : \E i \in Int : ListIs(n, s, i)

\* How many numbers are in use
LEMMA IdsCounted ==
  ASSUME NEW n \in Nat, NEW s \in Listed(n), NEW all, Kept(s, all)
  PROVE  /\ IsFiniteSet(all) /\ Cardinality(all) = n
         /\ IsFiniteSet({a[2] : a \in all}) /\ Cardinality({a[2] : a \in all}) <= n
         /\ {a[2] : a \in all} = {s[k].id : k \in 1 .. n}
<1>1. Len(s) = n
  BY ListedAre
<1>2. all = {<<s[k].text, s[k].id>> : k \in 1 .. n}
  BY <1>1 DEF Kept, Pairing
<1>3. \A j, k \in 1 .. n : s[j].id = s[k].id => j = k
  BY <1>1 DEF Kept
<1>4. PICK f : f = [k \in 1 .. n |-> <<s[k].text, s[k].id>>]
  BY Zenon
<1>5. f \in Bijection(1 .. n, all)
  <2>1. f \in Surjection(1 .. n, all)
    <3>1. f \in [1 .. n -> all]
      BY <1>2, <1>4
    <3>2. \A a \in all : \E k \in 1 .. n : f[k] = a
      BY <1>2, <1>4
    <3> QED BY <3>1, <3>2 DEF Surjection
  <2>2. f \in Injection(1 .. n, all)
    <3>1. \A j, k \in 1 .. n : f[j] = f[k] => j = k
      <4> TAKE j, k \in 1 .. n
      <4> HAVE f[j] = f[k]
      <4>1. <<s[j].text, s[j].id>> = <<s[k].text, s[k].id>>
        BY <1>4
      <4>2. s[j].id = s[k].id
        BY <4>1
      <4> QED BY <1>3, <4>2
    <3>2. f \in [1 .. n -> all]
      BY <1>2, <1>4
    <3> QED BY <3>1, <3>2 DEF Injection, IsInjective
  <2> QED BY <2>1, <2>2 DEF Bijection
<1>6. IsFiniteSet(1 .. n) /\ Cardinality(1 .. n) = n
  BY FS_Interval
<1>7. IsFiniteSet(all) /\ Cardinality(all) = n
  <2>1. ExistsBijection(1 .. n, all)
    BY <1>5 DEF ExistsBijection
  <2> QED BY <1>6, <2>1, FS_Bijection
<1>8. {a[2] : a \in all} = {s[k].id : k \in 1 .. n}
  <2>1. ASSUME NEW a \in all PROVE a[2] \in {s[k].id : k \in 1 .. n}
    <3>1. PICK k \in 1 .. n : a = <<s[k].text, s[k].id>>
      BY <1>2
    <3>2. a[2] = s[k].id
      BY <3>1
    <3> QED BY <3>2
  <2>2. ASSUME NEW k \in 1 .. n PROVE s[k].id \in {a[2] : a \in all}
    <3>1. PICK a : a = <<s[k].text, s[k].id>>
      BY Zenon
    <3>2. a \in all /\ a[2] = s[k].id
      BY <1>2, <3>1
    <3> QED BY <3>2
  <2>3. {a[2] : a \in all} \subseteq {s[k].id : k \in 1 .. n}
    BY <2>1
  <2>4. {s[k].id : k \in 1 .. n} \subseteq {a[2] : a \in all}
    BY <2>2
  <2> QED BY Zenon, <2>3, <2>4
<1>9. PICK I : I = {a[2] : a \in all}
  BY Zenon
<1>10. IsFiniteSet(I) /\ Cardinality(I) <= n
  <2>1. PICK g : g = [k \in 1 .. n |-> s[k].id]
    BY Zenon
  <2>2. g \in Surjection(1 .. n, I)
    <3>1. I = {s[k].id : k \in 1 .. n}
      BY Zenon, <1>8, <1>9
    <3>2. g \in [1 .. n -> I] /\ \A a \in I : \E k \in 1 .. n : g[k] = a
      BY <2>1, <3>1
    <3> QED BY <3>2 DEF Surjection
  <2> QED BY <1>6, <2>2, FS_Surjection
<1> QED BY Zenon, <1>7, <1>8, <1>9, <1>10

\* A number is free for a new item.
LEMMA NewIdIs ==
  ASSUME NEW n \in Nat, n < MaxItems, NEW s \in Listed(n), Kept(s, added)
  PROVE  NewId \in Nat /\ \A k \in 1 .. n : s[k].id # NewId
<1>1. MaxItems \in Nat /\ MaxItems + 1 \in Nat
  BY ViewsAssumption
<1>2. PICK I : I = {a[2] : a \in added}
  BY Zenon
<1>3. IsFiniteSet(I) /\ Cardinality(I) <= n /\ I = {s[k].id : k \in 1 .. n} /\ Cardinality(I) \in Nat
  <2>1. IsFiniteSet(I) /\ Cardinality(I) <= n /\ I = {s[k].id : k \in 1 .. n}
    BY Zenon, <1>2, IdsCounted
  <2> QED BY <2>1, FS_CardinalityType
<1>4. PICK F : F = (1 .. MaxItems + 1) \ I
  BY Zenon
<1>5. F # {}
  <2> SUFFICES ASSUME F = {} PROVE FALSE
    OBVIOUS
  <2>1. 1 .. MaxItems + 1 \in SUBSET I
    BY <1>4
  <2>2. Cardinality(1 .. MaxItems + 1) <= Cardinality(I)
    BY Zenon, <1>3, <2>1, FS_Subset
  <2>3. Cardinality(1 .. MaxItems + 1) = MaxItems + 1
    <3>1. Cardinality(1 .. MaxItems + 1) = IF 1 > MaxItems + 1 THEN 0 ELSE MaxItems + 1 - 1 + 1
      BY <1>1, FS_Interval
    <3> QED BY <1>1, <3>1
  <2>4. PICK c \in Nat, m \in Nat : c = Cardinality(I) /\ m = MaxItems
    BY Zenon, <1>1, <1>3
  <2>5. m + 1 <= c /\ c <= n /\ n < m
    BY <1>3, <2>2, <2>3, <2>4
  <2> QED BY <2>5
<1>6. F \in SUBSET Nat
  BY <1>1, <1>4
<1>7. Min(F) \in F
  BY <1>5, <1>6, Least
<1>8. NewId = Min(F)
  BY <1>2, <1>4 DEF NewId
<1>9. NewId \in Nat /\ NewId \notin I
  BY <1>4, <1>6, <1>7, <1>8
<1> QED BY <1>3, <1>9

\* At the start the list is empty.
LEMMA ListStart == ListInit => ListInv
<1> SUFFICES ASSUME ListInit PROVE ListInv
  OBVIOUS
<1>1. PICK s : s = <<>>
  OBVIOUS
<1>2. s \in Listed(0) /\ Len(s) = 0
  <2>1. <<>> \in Seq(Items) /\ Len(<<>>) = 0
    OBVIOUS
  <2> QED BY <1>1, <2>1 DEF Listed
<1>3. Kept(s, {}) /\ Top(s, 0, 1)
  <2>1. \A j \in 1 .. 0 : FALSE
    OBVIOUS
  <2> QED BY <1>2, <2>1 DEF Kept, Pairing, Top
<1>4. MaxItems \in Nat
  BY ViewsAssumption
<1>5. list = [items |-> s, selected |-> 0] /\ added = {}
  BY <1>1 DEF ListInit
<1>6. 0 <= MaxItems
  BY <1>4
<1>7. ListIs(0, s, 0)
  BY <1>3, <1>5, <1>6 DEF ListIs
<1> QED BY <1>2, <1>7 DEF ListInv

\* An item is appended.
LEMMA AddedItem ==
  ASSUME NEW n \in Nat, NEW s \in Listed(n), NEW a \in Int, NEW b \in Nat, NEW all, Kept(s, all),
         \A k \in 1 .. n : s[k].id # b
  PROVE  \E t \in Listed(n + 1) : /\ t = Append(s, [text |-> a, id |-> b, marked |-> FALSE])
                                  /\ Kept(t, all \cup {<<a, b>>})
<1>1. PICK q : q = [text |-> a, id |-> b, marked |-> FALSE]
  BY Zenon
<1>2. q \in Items /\ q.text = a /\ q.id = b /\ q.marked = FALSE
  BY <1>1 DEF Items
<1>3. s \in Seq(Items) /\ Len(s) = n
  BY ListedAre
<1>4. PICK t \in Seq(Items) : t = Append(s, q)
  <2>1. Append(s, q) \in Seq(Items)
    BY <1>2, <1>3, AppendProperties
  <2> QED BY Zenon, <2>1
<1>5. Len(t) = n + 1 /\ t[n + 1] = q /\ \A k \in 1 .. n : t[k] = s[k]
  BY <1>2, <1>3, <1>4
<1>6. \A k \in 1 .. n + 1 : k = n + 1 \/ k \in 1 .. n
  OBVIOUS
<1>7. n + 1 \in 1 .. n + 1 /\ \A k \in 1 .. n : k \in 1 .. n + 1
  OBVIOUS
<1>8. \A j, k \in 1 .. Len(t) : t[j].id = t[k].id => j = k
  <2> SUFFICES ASSUME NEW j \in 1 .. n + 1, NEW k \in 1 .. n + 1, t[j].id = t[k].id PROVE j = k
    BY <1>5
  <2>1. CASE j \in 1 .. n /\ k \in 1 .. n
    BY <1>3, <1>5, <2>1 DEF Kept
  <2>2. CASE j = n + 1 \/ k = n + 1
    BY <1>2, <1>5, <1>6, <2>2
  <2> QED BY <1>6, <2>1, <2>2
<1>9. \A j, k \in 1 .. Len(t) : t[j].marked = TRUE /\ t[k].marked = TRUE => j = k
  <2> SUFFICES ASSUME NEW j \in 1 .. n + 1, NEW k \in 1 .. n + 1, t[j].marked = TRUE, t[k].marked = TRUE PROVE j = k
    BY Zenon, <1>5
  <2>1. j \in 1 .. n /\ k \in 1 .. n
    BY <1>2, <1>5, <1>6
  <2> QED BY <1>3, <1>5, <2>1 DEF Kept
<1>10. Pairing(t) = all \cup {<<a, b>>}
  <2>1. all = {<<s[k].text, s[k].id>> : k \in 1 .. n}
    BY <1>3 DEF Kept, Pairing
  <2>2. Pairing(t) = {<<t[k].text, t[k].id>> : k \in 1 .. n + 1}
    BY <1>5 DEF Pairing
  <2>3. \A k \in 1 .. n : <<t[k].text, t[k].id>> = <<s[k].text, s[k].id>>
    BY <1>5
  <2>4. <<t[n + 1].text, t[n + 1].id>> = <<a, b>>
    BY <1>2, <1>5
  <2>5. Pairing(t) \subseteq all \cup {<<a, b>>}
    <3> SUFFICES ASSUME NEW x \in Pairing(t) PROVE x \in all \cup {<<a, b>>}
      OBVIOUS
    <3>1. PICK k \in 1 .. n + 1 : x = <<t[k].text, t[k].id>>
      BY Zenon, <2>2
    <3>2. CASE k = n + 1
      BY Zenon, <2>4, <3>1, <3>2
    <3>3. CASE k \in 1 .. n
      <4>1. x = <<s[k].text, s[k].id>>
        BY Zenon, <2>3, <3>1, <3>3
      <4> QED BY Zenon, <2>1, <3>3, <4>1
    <3> QED BY Zenon, <1>6, <3>1, <3>2, <3>3
  <2>6. all \cup {<<a, b>>} \subseteq Pairing(t)
    BY <1>7, <2>1, <2>2, <2>3, <2>4
  <2> QED BY <2>5, <2>6
<1>11. t \in Listed(n + 1)
  BY <1>5 DEF Listed
<1> QED BY Zenon, <1>1, <1>4, <1>8, <1>9, <1>10, <1>11 DEF Kept

\* An item is removed.
LEMMA RemovedItem ==
  ASSUME NEW n \in Nat, NEW s \in Listed(n), NEW i \in 1 .. n, NEW all, Kept(s, all)
  PROVE  \E t \in Listed(n - 1) : /\ t = RemoveAt(s, i)
                                  /\ Kept(t, all \ {<<s[i].text, s[i].id>>})
                                  /\ Top(s, n, 1) => Top(t, n - 1, 1)
<1>1. s \in Seq(Items) /\ Len(s) = n
  BY ListedAre
<1>2. PICK t \in Seq(Items) : /\ t = RemoveAt(s, i) /\ Len(t) = n - 1
                              /\ \A k \in 1 .. n - 1 : t[k] = IF k < i THEN s[k] ELSE s[k + 1]
  <2>1. PICK S : S = Items
    OBVIOUS
  <2>2. s \in Seq(S) /\ n = Len(s)
    BY <1>1, <2>1
  <2>3. \E t \in Seq(S) : IsWithout(t, s, n, i)
    BY <2>2, WithoutOne
  <2> QED BY <2>1, <2>3 DEF IsWithout
<1>3. PICK p : p = [k \in 1 .. n - 1 |-> IF k < i THEN k ELSE k + 1]
  BY Zenon
<1>4. /\ p \in [1 .. n - 1 -> 1 .. n]
      /\ \A k \in 1 .. n - 1 : p[k] # i
      /\ \A j, k \in 1 .. n - 1 : j <= k => p[j] <= p[k]
      /\ \A j, k \in 1 .. n - 1 : p[j] = p[k] => j = k
      /\ \A m \in 1 .. n : m # i => \E k \in 1 .. n - 1 : p[k] = m
  <2>1. p \in [1 .. n - 1 -> 1 .. n]
    BY <1>3
  <2>2. \A k \in 1 .. n - 1 : p[k] # i
    BY <1>3
  <2>3. \A j, k \in 1 .. n - 1 : (j <= k => p[j] <= p[k]) /\ (p[j] = p[k] => j = k)
    BY <1>3
  <2>4. ASSUME NEW m \in 1 .. n, m # i PROVE \E k \in 1 .. n - 1 : p[k] = m
    <3>1. CASE m < i
      <4>1. m \in 1 .. n - 1
        BY <3>1
      <4> QED BY <1>3, <3>1, <4>1
    <3>2. CASE ~(m < i)
      <4>1. m - 1 \in 1 .. n - 1 /\ ~(m - 1 < i) /\ m - 1 + 1 = m
        BY <2>4, <3>2
      <4>2. p[m - 1] = m
        BY <1>3, <4>1
      <4> QED BY <4>1, <4>2
    <3> QED BY <3>1, <3>2
  <2> QED BY <2>1, <2>2, <2>3, <2>4
<1>5. \A k \in 1 .. n - 1 : t[k] = s[p[k]]
  BY <1>2, <1>3
<1>6. \A j, k \in 1 .. Len(t) : t[j].id = t[k].id => j = k
  <2> SUFFICES ASSUME NEW j \in 1 .. n - 1, NEW k \in 1 .. n - 1, t[j].id = t[k].id PROVE j = k
    BY <1>2
  <2>1. PICK a \in 1 .. n, b \in 1 .. n : a = p[j] /\ b = p[k]
    BY <1>4
  <2>2. s[a].id = s[b].id
    BY Zenon, <1>5, <2>1
  <2>3. a = b
    BY <1>1, <2>2 DEF Kept
  <2> QED BY Zenon, <1>4, <2>1, <2>3
<1>7. \A j, k \in 1 .. Len(t) : t[j].marked = TRUE /\ t[k].marked = TRUE => j = k
  <2> SUFFICES ASSUME NEW j \in 1 .. n - 1, NEW k \in 1 .. n - 1, t[j].marked = TRUE, t[k].marked = TRUE PROVE j = k
    BY Zenon, <1>2
  <2>1. PICK a \in 1 .. n, b \in 1 .. n : a = p[j] /\ b = p[k]
    BY <1>4
  <2>2. s[a].marked = TRUE /\ s[b].marked = TRUE
    BY Zenon, <1>5, <2>1
  <2>3. a = b
    BY <1>1, <2>2 DEF Kept
  <2> QED BY Zenon, <1>4, <2>1, <2>3
<1>8. Pairing(t) = all \ {<<s[i].text, s[i].id>>}
  <2>1. all = {<<s[k].text, s[k].id>> : k \in 1 .. n}
    BY <1>1 DEF Kept, Pairing
  <2>2. Pairing(t) = {<<t[k].text, t[k].id>> : k \in 1 .. n - 1}
    BY <1>2 DEF Pairing
  <2>3. ASSUME NEW x \in Pairing(t) PROVE x \in all /\ x # <<s[i].text, s[i].id>>
    <3>1. PICK k \in 1 .. n - 1 : x = <<t[k].text, t[k].id>>
      BY <2>2
    <3>2. PICK a \in 1 .. n : a = p[k] /\ a # i /\ t[k] = s[a]
      BY Zenon, <1>4, <1>5
    <3>3. s[a].id # s[i].id
      BY <1>1, <3>2 DEF Kept
    <3>4. x = <<s[a].text, s[a].id>>
      BY <3>1, <3>2
    <3> QED BY <2>1, <3>3, <3>4
  <2>4. ASSUME NEW x \in all, x # <<s[i].text, s[i].id>> PROVE x \in Pairing(t)
    <3>1. PICK m \in 1 .. n : x = <<s[m].text, s[m].id>>
      BY <2>1
    <3>2. PICK k \in 1 .. n - 1 : p[k] = m
      BY <1>4, <2>4, <3>1
    <3>3. t[k] = s[m]
      BY <1>5, <3>2
    <3> QED BY Zenon, <2>2, <3>1, <3>3
  <2> QED BY <2>3, <2>4
<1>9. ASSUME Top(s, n, 1) PROVE Top(t, n - 1, 1)
  <2>1. ASSUME NEW j \in 1 .. n - 1, NEW k \in 1 .. n - 1, j <= k PROVE t[j].text <= t[k].text
    <3>1. PICK a \in 1 .. n, b \in 1 .. n : a = p[j] /\ b = p[k]
      BY <1>4
    <3>2. a <= b /\ 1 <= b
      BY <1>4, <2>1, <3>1
    <3>3. s[a].text <= s[b].text
      BY <1>9, <3>2 DEF Top
    <3> QED BY <1>5, <3>1, <3>3
  <2> QED BY <2>1 DEF Top
<1>10. t \in Listed(n - 1)
  BY <1>2 DEF Listed
<1> QED BY <1>2, <1>6, <1>7, <1>8, <1>9, <1>10 DEF Kept

\* An item is selected.
LEMMA MarkedItem ==
  ASSUME NEW n \in Nat, NEW s \in Listed(n), NEW i \in 1 .. n, NEW all, Kept(s, all)
  PROVE  \E t \in Listed(n) : /\ t = Marked(s, i) /\ Kept(t, all)
                              /\ Top(s, n, 1) => Top(t, n, 1)
<1>1. /\ s \in Seq(Items) /\ Len(s) = n /\ DOMAIN s = 1 .. n
      /\ \A k \in 1 .. n : s[k] \in Items
  BY ListedAre
<1>2. PICK t : t = Marked(s, i)
  OBVIOUS
<1>3. t = [k \in 1 .. n |-> [s[k] EXCEPT !.marked = (k = i)]]
  BY <1>1, <1>2 DEF Marked
<1>4. ASSUME NEW k \in 1 .. n
      PROVE  t[k] \in Items /\ t[k].text = s[k].text /\ t[k].id = s[k].id /\ (t[k].marked = TRUE => k = i)
  <2>1. PICK q \in Items : q = s[k]
    BY <1>1
  <2>2. PICK b \in BOOLEAN : b <=> k = i
    <3>1. (k = i) \in BOOLEAN
      OBVIOUS
    <3> QED BY Zenon, <3>1
  <2>3. b = (k = i)
    BY <2>2
  <2>4. PICK r : r = [q EXCEPT !.marked = b]
    BY Zenon
  <2>5. r \in Items /\ r.text = q.text /\ r.id = q.id /\ r.marked = b
    BY <2>4 DEF Items
  <2>6. t[k] = r
    BY Zenon, <1>3, <2>1, <2>3, <2>4
  <2> QED BY <2>1, <2>2, <2>5, <2>6
<1>5. t \in Seq(Items) /\ Len(t) = n
  <2>1. t \in [1 .. n -> Items]
    BY Zenon, <1>3, <1>4
  <2>2. t \in Seq(Items)
    BY <2>1, SeqDef
  <2> QED BY <2>1, <2>2, LenProperties
<1>6. Kept(t, all)
  <2>1. \A j, k \in 1 .. n : t[j].id = t[k].id => j = k
    BY Zenon, <1>1, <1>4 DEF Kept
  <2>2. \A j, k \in 1 .. n : t[j].marked = TRUE /\ t[k].marked = TRUE => j = k
    BY Zenon, <1>4
  <2>3. Pairing(t) = Pairing(s)
    <3>1. \A k \in 1 .. n : <<t[k].text, t[k].id>> = <<s[k].text, s[k].id>>
      BY Zenon, <1>4
    <3> QED BY Zenon, <1>1, <1>5, <3>1 DEF Pairing
  <2> QED BY <1>5, <2>1, <2>2, <2>3 DEF Kept
<1>7. ASSUME Top(s, n, 1) PROVE Top(t, n, 1)
  BY Zenon, <1>4, <1>7 DEF Top
<1>8. t \in Listed(n)
  BY <1>5 DEF Listed
<1> QED BY <1>2, <1>6, <1>7, <1>8

\* No call loses an item, marks two, or leaves the selection outside.
LEMMA ListStep == ListInv /\ ListNext => ListInv'
<1> SUFFICES ASSUME ListInv, ListNext PROVE ListInv'
  OBVIOUS
<1>1. PICK n \in Nat : \E s \in Listed(n) : \E i \in Int : ListIs(n, s, i)
  BY DEF ListInv
<1>2. PICK s \in Listed(n) : \E i \in Int : ListIs(n, s, i)
  BY <1>1
<1>3. PICK i \in Int : ListIs(n, s, i)
  BY <1>2
<1>4. /\ n <= MaxItems /\ list = [items |-> s, selected |-> i] /\ Kept(s, added)
      /\ sorted = TRUE => Top(s, n, 1)
      /\ -1 <= i /\ (i < 1 \/ i < n)
  BY <1>3 DEF ListIs
<1>5. /\ s \in Seq(Items) /\ Len(s) = n /\ DOMAIN s = 1 .. n
      /\ \A k \in 1 .. n : s[k] \in Items /\ s[k].text \in Int /\ s[k].id \in Nat
  BY ListedAre
<1>6. list.items = s /\ list.selected = i
  BY <1>4
<1>7. MaxItems \in Nat
  BY ViewsAssumption
<1>8. ASSUME NEW m \in Nat, NEW t \in Listed(m), NEW j \in Int, ListIs(m, t, j)' PROVE ListInv'
  BY <1>8 DEF ListInv
<1>9. ASSUME NEW label \in Labels, ListviewAddItem(label) PROVE ListInv'
  <2>1. label \in Int
    BY ViewsAssumption
  <2>2. n < MaxItems
    BY <1>4, <1>5, <1>6, <1>7, <1>9 DEF ListviewAddItem
  <2>3. PICK b \in Nat : b = NewId /\ \A k \in 1 .. n : s[k].id # b
    BY <1>4, <2>2, NewIdIs
  <2>4. PICK t \in Listed(n + 1) : /\ t = Append(s, [text |-> label, id |-> b, marked |-> FALSE])
                                   /\ Kept(t, added \cup {<<label, b>>})
    BY Zenon, <1>4, <2>1, <2>3, AddedItem
  <2>5. list' = [items |-> t, selected |-> i] /\ added' = added \cup {<<label, b>>} /\ sorted' = FALSE
    BY Zenon, <1>4, <1>9, <2>3, <2>4 DEF ListviewAddItem
  <2>6. n + 1 \in Nat /\ n + 1 <= MaxItems /\ -1 <= i /\ (i < 1 \/ i < n + 1)
    BY <1>4, <1>7, <2>2
  <2>7. ListIs(n + 1, t, i)'
    BY <2>4, <2>5, <2>6 DEF ListIs
  <2> QED BY <1>8, <2>6, <2>7
<1>10. ASSUME NEW k \in 1 .. MaxItems, ListviewRemoveItem(k) PROVE ListInv'
  <2>1. k \in 1 .. n
    BY <1>5, <1>6, <1>10 DEF ListviewRemoveItem
  <2>2. PICK t \in Listed(n - 1) : /\ t = RemoveAt(s, k)
                                   /\ Kept(t, added \ {<<s[k].text, s[k].id>>})
                                   /\ Top(s, n, 1) => Top(t, n - 1, 1)
    BY <1>4, <2>1, RemovedItem
  <2>3. PICK j \in Int : j = IF i >= n - 1 THEN n - 1 - 1 ELSE i
    OBVIOUS
  <2>4. list' = [items |-> t, selected |-> j]
    BY <1>5, <1>6, <1>10, <2>2, <2>3 DEF ListviewRemoveItem
  <2>5. added' = added \ {<<s[k].text, s[k].id>>} /\ sorted' = sorted
    BY <1>6, <1>10 DEF ListviewRemoveItem
  <2>6. n - 1 \in Nat /\ n - 1 <= MaxItems /\ -1 <= j /\ (j < 1 \/ j < n - 1)
    BY <1>4, <1>7, <2>1, <2>3
  <2>7. ListIs(n - 1, t, j)'
    BY <1>4, <2>2, <2>4, <2>5, <2>6 DEF ListIs
  <2> QED BY <1>8, <2>6, <2>7
<1>11. ASSUME NEW k \in 1 .. MaxItems, ListviewSetSelected(k) PROVE ListInv'
  <2>1. k \in 1 .. n
    BY <1>5, <1>6, <1>11 DEF ListviewSetSelected
  <2>2. PICK t \in Listed(n) : t = Marked(s, k) /\ Kept(t, added) /\ (Top(s, n, 1) => Top(t, n, 1))
    BY <1>4, <2>1, MarkedItem
  <2>3. list' = [items |-> t, selected |-> k - 1] /\ added' = added /\ sorted' = sorted
    BY <1>6, <1>11, <2>2 DEF ListviewSetSelected
  <2>4. k - 1 \in Int /\ -1 <= k - 1 /\ (k - 1 < 1 \/ k - 1 < n)
    BY <2>1
  <2>5. ListIs(n, t, k - 1)'
    BY <1>4, <2>2, <2>3, <2>4 DEF ListIs
  <2> QED BY <1>8, <2>4, <2>5
<1>12. ASSUME ListviewClear PROVE ListInv'
  <2>1. PICK t : t = <<>>
    OBVIOUS
  <2>2. t \in Listed(0) /\ Len(t) = 0
    <3>1. <<>> \in Seq(Items) /\ Len(<<>>) = 0
      OBVIOUS
    <3> QED BY <2>1, <3>1 DEF Listed
  <2>3. Kept(t, {}) /\ Top(t, 0, 1)
    <3>1. \A j \in 1 .. 0 : FALSE
      OBVIOUS
    <3> QED BY <2>2, <3>1 DEF Kept, Pairing, Top
  <2>4. list' = [items |-> t, selected |-> -1] /\ added' = {}
    BY <1>12, <2>1 DEF ListviewClear
  <2>5. 0 <= MaxItems /\ -1 <= -1 /\ -1 < 1 /\ -1 \in Int /\ 0 \in Nat
    BY <1>7
  <2>6. ListIs(0, t, -1)'
    BY <2>3, <2>4, <2>5 DEF ListIs
  <2> QED BY <1>8, <2>2, <2>5, <2>6
<1>13. ASSUME ListviewSort PROVE ListInv'
  <2>1. n >= 1
    BY <1>5, <1>6, <1>13 DEF ListviewSort
  <2>2. PICK t \in Listed(n) : t = Bubbled(s) /\ Kept(t, added) /\ Top(t, n, 1)
    BY <1>4, <2>1, BubbledRises
  <2>3. list' = [items |-> t, selected |-> i] /\ added' = added
    BY <1>4, <1>13, <2>2 DEF ListviewSort
  <2>4. ListIs(n, t, i)'
    BY <1>4, <2>2, <2>3 DEF ListIs
  <2> QED BY <1>8, <2>4
<1> QED BY <1>9, <1>10, <1>11, <1>12, <1>13 DEF ListNext

\* Then the list has the items that were added.
LEMMA ListSafe == ListInv => ListKeepsItems
<1> SUFFICES ASSUME ListInv PROVE ListKeepsItems
  OBVIOUS
<1>1. PICK n \in Nat : \E s \in Listed(n) : \E i \in Int : ListIs(n, s, i)
  BY DEF ListInv
<1>2. PICK s \in Listed(n) : \E i \in Int : ListIs(n, s, i)
  BY <1>1
<1>3. PICK i \in Int : ListIs(n, s, i)
  BY <1>2
<1>4. /\ n <= MaxItems /\ list = [items |-> s, selected |-> i] /\ Kept(s, added)
      /\ sorted = TRUE => Top(s, n, 1)
      /\ -1 <= i /\ (i < 1 \/ i < n)
  BY <1>3 DEF ListIs
<1>5. /\ s \in Seq(Items) /\ Len(s) = n /\ DOMAIN s = 1 .. n
      /\ \A k \in 1 .. n : s[k] \in Items /\ s[k].text \in Int /\ s[k].id \in Nat
  BY ListedAre
<1>6. list.items = s /\ list.selected = i
  BY <1>4
<1>7. {<<q.text, q.id>> : q \in ToSet(s)} = added
  <2>1. added = {<<s[k].text, s[k].id>> : k \in 1 .. n}
    BY <1>4, <1>5 DEF Kept, Pairing
  <2>2. ToSet(s) = {s[k] : k \in 1 .. n}
    BY <1>5 DEF ToSet
  <2>3. PICK A : A = {<<q.text, q.id>> : q \in ToSet(s)}
    BY Zenon
  <2>4. \A x : x \in A <=> \E q \in ToSet(s) : x = <<q.text, q.id>>
    BY <2>3
  <2>5. \A x : x \in added <=> \E k \in 1 .. n : x = <<s[k].text, s[k].id>>
    BY <2>1
  <2>6. \A q : q \in ToSet(s) <=> \E k \in 1 .. n : q = s[k]
    BY <2>2
  <2>7. \A x : x \in A <=> x \in added
    BY <2>4, <2>5, <2>6
  <2>8. A = added
    BY Zenon, <2>7
  <2> QED BY <2>3, <2>8
<1>8. n = Cardinality(added)
  BY Zenon, <1>4, IdsCounted
<1>9. ASSUME sorted, NEW k \in 1 .. n - 1 PROVE s[k].text <= s[k + 1].text
  <2>1. k \in 1 .. n /\ k + 1 \in 1 .. n /\ k <= k + 1 /\ 1 <= k + 1
    OBVIOUS
  <2>2. Top(s, n, 1)
    BY <1>4, <1>9
  <2> QED BY <2>1, <2>2 DEF Top
<1>10. PICK M : M = {k \in DOMAIN s : s[k].marked}
  BY Zenon
<1>11. Cardinality(M) <= 1
  <2>1. \A j, k \in M : j = k
    <3>1. \A k \in M : k \in 1 .. n /\ s[k].marked = TRUE
      BY <1>5, <1>10, ListedAre
    <3>2. \A j, k \in 1 .. n : s[j].marked = TRUE /\ s[k].marked = TRUE => j = k
      BY <1>4, <1>5 DEF Kept
    <3> QED BY <3>1, <3>2
  <2>2. CASE M = {}
    BY <2>2, FS_EmptySet
  <2>3. CASE M # {}
    <3>1. PICK k : k \in M
      BY <2>3
    <3>2. M = {k}
      BY <2>1, <3>1
    <3> QED BY <3>2, FS_Singleton
  <2> QED BY <2>2, <2>3
<1>12. i \in -1 .. Max({n - 1, 0})
  <2>1. Max({n - 1, 0}) = IF n - 1 >= 0 THEN n - 1 ELSE 0
    BY MaxOfTwo
  <2>2. PICK m \in Int : m = Max({n - 1, 0}) /\ m = IF n - 1 >= 0 THEN n - 1 ELSE 0
    <3>1. (IF n - 1 >= 0 THEN n - 1 ELSE 0) \in Int
      OBVIOUS
    <3> QED BY <2>1, <3>1
  <2>3. -1 <= i /\ i <= m
    BY <1>4, <2>2
  <2>4. i \in -1 .. m
    BY <2>3
  <2> QED BY <2>2, <2>4
<1> QED BY Zenon, <1>5, <1>6, <1>7, <1>8, <1>9, <1>10, <1>11, <1>12 DEF ListKeepsItems

\* The invariant of a combo box
ComboInv == \E n \in Nat, i \in Int, b \in BOOLEAN :
               combo = [count |-> n, selected |-> i, open |-> b] /\ (IF n = 0 THEN i = -1 ELSE i \in 0 .. n - 1)

\* At the start nothing is selected.
LEMMA ComboStart == ComboInit => ComboInv
<1> SUFFICES ASSUME ComboInit PROVE ComboInv
  OBVIOUS
<1>1. PICK n \in Nat, i \in Int, b \in BOOLEAN : n = 0 /\ i = -1 /\ b = FALSE
  <2>1. 0 \in Nat /\ -1 \in Int /\ FALSE \in BOOLEAN
    OBVIOUS
  <2> QED BY Zenon, <2>1
<1>2. combo = [count |-> n, selected |-> i, open |-> b]
  BY Zenon, <1>1 DEF ComboInit
<1> QED BY <1>1, <1>2 DEF ComboInv

\* No call selects what is not there.
LEMMA ComboStep == ComboInv /\ ComboNext => ComboInv'
<1> SUFFICES ASSUME ComboInv, ComboNext PROVE ComboInv'
  OBVIOUS
<1>1. PICK n \in Nat, i \in Int, b \in BOOLEAN :
         combo = [count |-> n, selected |-> i, open |-> b] /\ (IF n = 0 THEN i = -1 ELSE i \in 0 .. n - 1)
  BY DEF ComboInv
<1>2. ASSUME NEW m \in Nat, NEW j \in Int, NEW c \in BOOLEAN, combo' = [count |-> m, selected |-> j, open |-> c],
             IF m = 0 THEN j = -1 ELSE j \in 0 .. m - 1
      PROVE  ComboInv'
  BY <1>2 DEF ComboInv
<1>3. ASSUME ComboboxAddItem PROVE ComboInv'
  <2>1. PICK j \in Int : j = IF i < 0 THEN 0 ELSE i
    OBVIOUS
  <2>2. combo' = [count |-> n + 1, selected |-> j, open |-> b]
    BY Zenon, <1>1, <1>3, <2>1 DEF ComboboxAddItem
  <2>3. n + 1 \in Nat /\ n + 1 # 0 /\ j \in 0 .. n + 1 - 1
    BY <1>1, <2>1
  <2> QED BY <1>2, <2>2, <2>3
<1>4. ASSUME ComboboxToggleDropdown PROVE ComboInv'
  <2>1. combo' = [count |-> n, selected |-> i, open |-> ~b]
    BY <1>1, <1>4 DEF ComboboxToggleDropdown
  <2>2. (~b) \in BOOLEAN
    BY Zenon
  <2> QED BY Zenon, <1>1, <1>2, <2>1, <2>2
<1>5. ASSUME ComboboxClear PROVE ComboInv'
  <2>1. PICK m \in Nat, j \in Int, c \in BOOLEAN : m = 0 /\ j = -1 /\ c = FALSE
    <3>1. 0 \in Nat /\ -1 \in Int /\ FALSE \in BOOLEAN
      OBVIOUS
    <3> QED BY Zenon, <3>1
  <2>2. combo' = [count |-> m, selected |-> j, open |-> c]
    BY Zenon, <1>5, <2>1 DEF ComboboxClear
  <2> QED BY <1>2, <2>1, <2>2
<1>6. ASSUME NEW k \in 0 .. MaxItems - 1, ComboboxSetSelected(k) \/ ComboboxHandleItemClick(k) PROVE ComboInv'
  <2>1. k \in Int /\ k \in Nat
    BY ViewsAssumption
  <2>2. k < n
    BY <1>1, <1>6 DEF ComboboxSetSelected, ComboboxHandleItemClick
  <2>3. n # 0 /\ k \in 0 .. n - 1
    BY <2>1, <2>2
  <2>4. PICK c \in BOOLEAN : combo' = [count |-> n, selected |-> k, open |-> c]
    BY Zenon, <1>1, <1>6 DEF ComboboxSetSelected, ComboboxHandleItemClick
  <2> QED BY <1>2, <2>1, <2>3, <2>4
<1> QED BY <1>3, <1>4, <1>5, <1>6 DEF ComboNext

\* Then it selects exactly when it has items.
LEMMA ComboSafe == ComboInv => ComboSelects
  BY DEF ComboInv, ComboSelects

-----------------------------------------------------------------------------
(* The tree view.                                                            *)

OrNone == Nodes \cup {None}
Links  == [Nodes -> OrNone]

\* The nodes that links lead to: they have the first ones, are closed, and are
\* in every other such set.
IsReached(G, from, links) ==
    /\ G \subseteq Nodes /\ from \subseteq G
    /\ \A m \in G : \A link \in links : link[m] \in G \cup {None}
    /\ \A S \in SUBSET Nodes :
          from \subseteq S /\ (\A m \in S : \A link \in links : link[m] \in S \cup {None}) => G \subseteq S

\* What is reached is the least set with its start that the links stay in.
LEMMA ReachedIs ==
  ASSUME NEW from \in SUBSET Nodes, NEW links, \A link \in links : link \in Links
  PROVE  IsReached(Reached(from, links), from, links)
<1> DEFINE Closed(S) == from \subseteq S /\ \A m \in S, link \in links : link[m] \in S \cup {None}
<1>1. PICK G : G = {n \in Nodes : \A S \in SUBSET Nodes : Closed(S) => n \in S}
  BY Zenon
<1>2. Reached(from, links) = G
  BY <1>1 DEF Reached
<1>3. G \subseteq Nodes /\ from \subseteq G
  BY <1>1
<1>4. ASSUME NEW m \in G, NEW link \in links PROVE link[m] \in G \cup {None}
  <2>1. PICK v \in OrNone : v = link[m]
    BY <1>3 DEF Links
  <2>2. CASE v = None
    BY <2>1, <2>2
  <2>3. CASE v # None
    <3>1. v \in Nodes
      BY <2>3 DEF OrNone
    <3>2. ASSUME NEW S \in SUBSET Nodes, Closed(S) PROVE v \in S
      <4>1. m \in S
        BY <1>1, <3>2
      <4> QED BY <2>1, <2>3, <3>2, <4>1
    <3>3. v \in G
      <4> HIDE DEF Closed
      <4> QED BY <1>1, <3>1, <3>2
    <3> QED BY <2>1, <3>3
  <2> QED BY <2>2, <2>3
<1>5. ASSUME NEW S \in SUBSET Nodes, from \subseteq S, \A m \in S : \A link \in links : link[m] \in S \cup {None}
      PROVE  G \subseteq S
  <2>1. Closed(S)
    BY <1>5
  <2> HIDE DEF Closed
  <2> QED BY <1>1, <2>1
<1>6. IsReached(G, from, links)
  <2> HIDE DEF Closed
  <2> QED BY <1>3, <1>4, <1>5 DEF IsReached
<1> QED BY <1>2, <1>6

\* Some node of a set was made first.
LEMMA FirstMade ==
  ASSUME NEW a \in [Nodes -> Nat], NEW S \in SUBSET Nodes, S # {}
  PROVE  \E m \in S : \A k \in S : a[m] <= a[k]
<1>1. PICK A : A = {a[m] : m \in S}
  BY Zenon
<1>2. A \in SUBSET Nat /\ A # {}
  BY <1>1
<1>3. PICK l : l = Min(A)
  OBVIOUS
<1>4. l \in A /\ \A j \in A : l <= j
  BY <1>2, <1>3, Least
<1>5. PICK m \in S : l = a[m]
  BY <1>1, <1>4
<1>6. \A k \in S : a[k] \in A
  BY <1>1
<1> QED BY <1>4, <1>5, <1>6

\* Some node of a set was made last.
LEMMA LastMade ==
  ASSUME NEW a \in [Nodes -> Nat], NEW B \in Nat, \A m \in Nodes : a[m] <= B, NEW S \in SUBSET Nodes, S # {}
  PROVE  \E m \in S : \A k \in S : a[k] <= a[m]
<1>1. PICK b : b = [m \in Nodes |-> B - a[m]]
  BY Zenon
<1>2. b \in [Nodes -> Nat]
  <2>1. \A m \in Nodes : B - a[m] \in Nat
    OBVIOUS
  <2> QED BY <1>1, <2>1
<1>3. PICK m \in S : \A k \in S : b[m] <= b[k]
  BY <1>2, FirstMade
<1>4. ASSUME NEW k \in S PROVE a[k] <= a[m]
  <2>1. PICK i \in Nat, j \in Nat : i = a[k] /\ j = a[m]
    OBVIOUS
  <2>2. B - j <= B - i
    BY <1>1, <1>3, <2>1
  <2>3. i <= j
    BY <2>2
  <2> QED BY <2>1, <2>3
<1> QED BY <1>4

\* The links of a tree: every live node but the root is the first child or the
\* next sibling of exactly one live node, which was made before it, and has the
\* same parent as its siblings.
TreeTypes(L, r, c, x, p, a, B) ==
    /\ L \in SUBSET Nodes /\ r \in OrNone /\ c \in Links /\ x \in Links /\ p \in Links
    /\ a \in [Nodes -> Nat] /\ B \in Nat /\ \A m \in Nodes : a[m] <= B
TreeLinks(L, r, c, x, p, a) ==
    /\ r # None => r \in L /\ p[r] = None
    /\ \A m \in L : c[m] # None => c[m] \in L /\ a[m] < a[c[m]] /\ p[c[m]] = m
    /\ \A m \in L : x[m] # None => x[m] \in L /\ a[m] < a[x[m]] /\ p[x[m]] = p[m]
    /\ \A m \in L : p[m] # None => p[m] \in L /\ a[p[m]] < a[m]
OneLink(L, r, c, x) ==
    /\ \A m, k \in L : x[m] = x[k] /\ x[m] # None => m = k
    /\ \A m \in L : x[m] # None => x[m] # r
    /\ \A m, k \in L : x[m] # None => x[m] # c[k]
    /\ \A m \in L : m = r \/ \E k \in L : x[k] = m \/ c[k] = m
TreeOk(L, r, c, x, p, a, B) == /\ TreeTypes(L, r, c, x, p, a, B)
                               /\ TreeLinks(L, r, c, x, p, a)
                               /\ OneLink(L, r, c, x)

\* The absent node is none of them.
LEMMA NoNode == None \notin Nodes /\ IsFiniteSet(Nodes)
  BY ViewsAssumption

\* Such a tree leads to every live node and to no other.
LEMMA AllLinked ==
  ASSUME NEW L, NEW r, NEW c, NEW x, NEW p, NEW a, NEW B, TreeOk(L, r, c, x, p, a, B)
  PROVE  Reached({r} \ {None}, {c, x}) = L
<1>1. TreeTypes(L, r, c, x, p, a, B) /\ TreeLinks(L, r, c, x, p, a) /\ OneLink(L, r, c, x)
  BY DEF TreeOk
<1>2. L \in SUBSET Nodes /\ r \in OrNone /\ c \in Links /\ x \in Links /\ a \in [Nodes -> Nat]
  BY <1>1 DEF TreeTypes
<1>3. PICK G, F : G = Reached({r} \ {None}, {c, x}) /\ F = {r} \ {None}
  OBVIOUS
<1>4. F \in SUBSET Nodes /\ F \subseteq L
  BY <1>1, <1>2, <1>3, NoNode DEF OrNone, TreeLinks
<1>5. IsReached(G, F, {c, x})
  BY <1>2, <1>3, <1>4, ReachedIs
<1>6. G \subseteq L
  <2>1. \A m \in L : \A link \in {c, x} : link[m] \in L \cup {None}
    BY <1>1 DEF TreeLinks
  <2> QED BY <1>2, <1>4, <1>5, <2>1 DEF IsReached
<1>7. L \subseteq G
  <2>1. PICK S \in SUBSET Nodes : S = L \ G
    BY Zenon, <1>2
  <2> SUFFICES ASSUME S # {} PROVE FALSE
    BY <2>1
  <2>2. PICK m \in S : \A k \in S : a[m] <= a[k]
    BY <1>2, FirstMade
  <2>3. m \in L /\ m \notin G /\ m \in Nodes
    BY <2>1
  <2>4. m # r
    BY <1>3, <1>5, <2>3, NoNode DEF IsReached
  <2>5. PICK k \in L : x[k] = m \/ c[k] = m
    BY <1>1, <2>3, <2>4 DEF OneLink
  <2>6. a[k] < a[m]
    BY <1>1, <2>3, <2>5, NoNode DEF TreeLinks
  <2>7. k \notin S
    <3>1. a[k] \in Nat /\ a[m] \in Nat
      BY <1>2, <2>3
    <3>2. ~(a[m] <= a[k])
      BY <2>6, <3>1
    <3> QED BY <2>2, <3>2
  <2>8. k \in G
    BY <2>1, <2>7
  <2>9. \A link \in {c, x} : link[k] \in G \cup {None}
    BY <1>5, <2>8 DEF IsReached
  <2>10. m \in G \cup {None}
    BY <2>5, <2>9
  <2> QED BY <2>3, <2>10, NoNode
<1> QED BY Zenon, <1>3, <1>6, <1>7

\* The siblings from one on have one parent, and one of them is the last.
LEMMA SiblingsAre ==
  ASSUME NEW L, NEW r, NEW c, NEW x, NEW p, NEW a, NEW B, TreeOk(L, r, c, x, p, a, B), NEW f \in L
  PROVE  LET S == Reached({f} \ {None}, {x})
         IN  /\ S \subseteq {m \in L : p[m] = p[f]}
             /\ \E m \in S : x[m] = None
<1>1. TreeTypes(L, r, c, x, p, a, B) /\ TreeLinks(L, r, c, x, p, a)
  BY DEF TreeOk
<1>2. /\ L \in SUBSET Nodes /\ x \in Links /\ a \in [Nodes -> Nat] /\ B \in Nat
      /\ \A m \in Nodes : a[m] <= B
  BY <1>1 DEF TreeTypes
<1>3. PICK S, F : S = Reached({f} \ {None}, {x}) /\ F = {f} \ {None}
  OBVIOUS
<1>4. F = {f} /\ F \in SUBSET Nodes
  BY <1>2, <1>3, NoNode
<1>5. IsReached(S, F, {x})
  BY <1>2, <1>3, <1>4, ReachedIs
<1>6. PICK Q \in SUBSET Nodes : Q = {m \in L : p[m] = p[f]}
  BY Zenon, <1>2
<1>7. S \subseteq Q
  <2>1. F \subseteq Q
    BY <1>4, <1>6
  <2>2. \A m \in Q : x[m] \in Q \cup {None}
    BY <1>1, <1>6 DEF TreeLinks
  <2>3. \A m \in Q : \A link \in {x} : link[m] \in Q \cup {None}
    BY <2>2
  <2> QED BY <1>5, <2>1, <2>3 DEF IsReached
<1>8. \E m \in S : x[m] = None
  <2>1. S # {} /\ S \in SUBSET Nodes
    BY <1>4, <1>5 DEF IsReached
  <2>2. PICK m \in S : \A k \in S : a[k] <= a[m]
    BY <1>2, <2>1, LastMade
  <2>3. x[m] \in S \cup {None}
    BY <1>5 DEF IsReached
  <2>4. CASE x[m] = None
    BY <2>4
  <2>5. CASE x[m] # None
    <3>1. x[m] \in S /\ m \in L
      BY <1>6, <1>7, <2>3, <2>5
    <3>2. a[m] < a[x[m]] /\ a[x[m]] <= a[m]
      BY <1>1, <2>2, <2>5, <3>1 DEF TreeLinks
    <3>3. PICK i \in Nat, j \in Nat : i = a[m] /\ j = a[x[m]]
      BY <1>2, <2>1, <3>1
    <3> QED BY <3>2, <3>3
  <2> QED BY <2>4, <2>5
<1> QED BY <1>3, <1>6, <1>7, <1>8

\* All roots are siblings of the first one.
LEMMA RootsLinked ==
  ASSUME NEW L, NEW r, NEW c, NEW x, NEW p, NEW a, NEW B, TreeOk(L, r, c, x, p, a, B)
  PROVE  \A m \in L : p[m] = None => m \in Reached({r} \ {None}, {x})
<1>1. TreeTypes(L, r, c, x, p, a, B) /\ TreeLinks(L, r, c, x, p, a) /\ OneLink(L, r, c, x)
  BY DEF TreeOk
<1>2. L \in SUBSET Nodes /\ r \in OrNone /\ x \in Links /\ a \in [Nodes -> Nat]
  BY <1>1 DEF TreeTypes
<1>3. PICK G, F : G = Reached({r} \ {None}, {x}) /\ F = {r} \ {None}
  OBVIOUS
<1>4. F \in SUBSET Nodes
  BY <1>2, <1>3 DEF OrNone
<1>5. IsReached(G, F, {x})
  BY <1>2, <1>3, <1>4, ReachedIs
<1>6. PICK S \in SUBSET Nodes : S = {m \in L : p[m] = None /\ m \notin G}
  BY Zenon, <1>2
<1>7. S = {}
  <2> SUFFICES ASSUME S # {} PROVE FALSE
    OBVIOUS
  <2>2. PICK m \in S : \A k \in S : a[m] <= a[k]
    BY <1>2, FirstMade
  <2>3. m \in L /\ m \notin G /\ m \in Nodes /\ p[m] = None
    BY <1>6
  <2>4. m # r
    BY Zenon, <1>3, <1>5, <2>3, NoNode DEF IsReached
  <2>5. PICK k \in L : x[k] = m \/ c[k] = m
    BY <1>1, <2>3, <2>4 DEF OneLink
  <2>6. x[k] = m
    <3>1. c[k] # m
      <4> SUFFICES ASSUME c[k] = m PROVE FALSE
        OBVIOUS
      <4>1. p[m] = k
        BY <1>1, <2>3, NoNode DEF TreeLinks
      <4> QED BY <1>2, <2>3, <4>1, NoNode
    <3> QED BY <2>5, <3>1
  <2>7. a[k] < a[m] /\ p[k] = None
    BY <1>1, <2>3, <2>6, NoNode DEF TreeLinks
  <2>8. k \notin S
    <3>1. a[k] \in Nat /\ a[m] \in Nat
      BY <1>2, <2>3
    <3>2. ~(a[m] <= a[k])
      BY <2>7, <3>1
    <3> QED BY <2>2, <3>2
  <2>9. k \in G
    BY <1>6, <2>7, <2>8
  <2>10. m \in G \cup {None}
    BY <1>5, <2>6, <2>9 DEF IsReached
  <2> QED BY <2>3, <2>10, NoNode
<1> QED BY <1>3, <1>6, <1>7

\* A node that is not yet linked, made after all others
IsFresh(n, L, c, x, p, a) == /\ n \in Nodes \ L /\ c[n] = None /\ x[n] = None /\ p[n] \in L \cup {None}
                             /\ \A m \in L : a[m] < a[n]

\* A node that is made is fresh.
LEMMA FreshNode ==
  ASSUME NEW L, NEW r, NEW c, NEW x, NEW p, NEW a, NEW B, TreeOk(L, r, c, x, p, a, B),
         NEW n \in Nodes \ L, NEW q \in L \cup {None}
  PROVE  \E d, y, o, b : /\ d = [c EXCEPT ![n] = None] /\ y = [x EXCEPT ![n] = None]
                         /\ o = [p EXCEPT ![n] = q]
                         /\ TreeOk(L, r, d, y, o, b, B + 1) /\ IsFresh(n, L, d, y, o, b)
<1>1. TreeTypes(L, r, c, x, p, a, B) /\ TreeLinks(L, r, c, x, p, a) /\ OneLink(L, r, c, x)
  BY DEF TreeOk
<1>2. /\ L \in SUBSET Nodes /\ r \in OrNone /\ c \in Links /\ x \in Links /\ p \in Links
      /\ a \in [Nodes -> Nat] /\ B \in Nat /\ \A m \in Nodes : a[m] <= B
  BY <1>1 DEF TreeTypes
<1>3. PICK d, y, o, b : /\ d = [c EXCEPT ![n] = None] /\ y = [x EXCEPT ![n] = None]
                        /\ o = [p EXCEPT ![n] = q] /\ b = [a EXCEPT ![n] = B + 1]
  BY Zenon
<1>4. /\ d \in Links /\ y \in Links /\ o \in Links
      /\ d[n] = None /\ y[n] = None /\ o[n] = q
      /\ \A m \in L : d[m] = c[m] /\ y[m] = x[m] /\ o[m] = p[m]
  <2>1. None \in OrNone /\ q \in OrNone
    BY <1>2 DEF OrNone
  <2> QED BY <1>2, <1>3, <2>1 DEF Links
<1>5. b \in [Nodes -> Nat] /\ b[n] = B + 1 /\ \A m \in Nodes : m # n => b[m] = a[m]
  BY <1>2, <1>3
<1>6. TreeTypes(L, r, d, y, o, b, B + 1)
  <2>1. B + 1 \in Nat
    BY <1>2
  <2>2. ASSUME NEW m \in Nodes PROVE b[m] <= B + 1
    <3>1. CASE m = n
      BY <1>2, <1>5, <3>1
    <3>2. CASE m # n
      <4>1. PICK i \in Nat : i = a[m] /\ i <= B
        BY <1>2
      <4>2. i <= B + 1
        BY <1>2, <4>1
      <4> QED BY <1>5, <3>2, <4>1, <4>2
    <3> QED BY <3>1, <3>2
  <2> QED BY <1>2, <1>4, <1>5, <2>1, <2>2 DEF TreeTypes
<1>7. TreeLinks(L, r, d, y, o, b)
  <2>1. \A m \in L : m # n /\ m \in Nodes /\ b[m] = a[m]
    BY <1>2, <1>5
  <2>2. r # None => r \in L /\ o[r] = None
    BY <1>1, <1>4 DEF TreeLinks
  <2>3. \A m \in L : d[m] # None => d[m] \in L /\ b[m] < b[d[m]] /\ o[d[m]] = m
    BY <1>1, <1>4, <2>1 DEF TreeLinks
  <2>4. \A m \in L : y[m] # None => y[m] \in L /\ b[m] < b[y[m]] /\ o[y[m]] = o[m]
    BY <1>1, <1>4, <2>1 DEF TreeLinks
  <2>5. \A m \in L : o[m] # None => o[m] \in L /\ b[o[m]] < b[m]
    BY <1>1, <1>4, <2>1 DEF TreeLinks
  <2> QED BY <2>2, <2>3, <2>4, <2>5 DEF TreeLinks
<1>8. OneLink(L, r, d, y)
  BY <1>1, <1>4 DEF OneLink
<1>9. IsFresh(n, L, d, y, o, b)
  <2>1. \A m \in L : b[m] < b[n]
    <3> TAKE m \in L
    <3>1. PICK i \in Nat : i = a[m] /\ i <= B
      BY <1>2
    <3>2. i < B + 1
      BY <1>2, <3>1
    <3>3. m \in Nodes /\ m # n
      BY <1>2
    <3> QED BY <1>5, <3>1, <3>2, <3>3
  <2> QED BY <1>4, <2>1 DEF IsFresh
<1> QED BY Zenon, <1>3, <1>6, <1>7, <1>8, <1>9 DEF TreeOk

\* It becomes the first root,
LEMMA FirstRoot ==
  ASSUME NEW L, NEW c, NEW x, NEW p, NEW a, NEW B, TreeOk(L, None, c, x, p, a, B),
         NEW n, IsFresh(n, L, c, x, p, a), p[n] = None
  PROVE  TreeOk(L \cup {n}, n, c, x, p, a, B)
<1>1. TreeTypes(L, None, c, x, p, a, B) /\ TreeLinks(L, None, c, x, p, a) /\ OneLink(L, None, c, x)
  BY DEF TreeOk
<1>2. n \in Nodes /\ n \notin L /\ c[n] = None /\ x[n] = None
  BY DEF IsFresh
<1>3. L \in SUBSET Nodes
  BY <1>1 DEF TreeTypes
<1>4. TreeTypes(L \cup {n}, n, c, x, p, a, B)
  BY <1>1, <1>2 DEF TreeTypes, OrNone
<1>5. TreeLinks(L \cup {n}, n, c, x, p, a)
  BY <1>1, <1>2, NoNode DEF TreeLinks
<1>6. OneLink(L \cup {n}, n, c, x)
  <2>1. \A m \in L : x[m] # None => x[m] \in L /\ x[m] # n
    BY <1>1, <1>2 DEF TreeLinks
  <2>2. \A m \in L : m # None
    BY <1>3, NoNode
  <2>3. \A m, k \in L \cup {n} : x[m] = x[k] /\ x[m] # None => m = k
    BY <1>1, <1>2 DEF OneLink
  <2>4. \A m \in L \cup {n} : x[m] # None => x[m] # n
    BY <1>2, <2>1
  <2>5. \A m, k \in L \cup {n} : x[m] # None => x[m] # c[k]
    BY <1>1, <1>2 DEF OneLink
  <2>6. \A m \in L \cup {n} : m = n \/ \E k \in L \cup {n} : x[k] = m \/ c[k] = m
    BY <1>1, <2>2 DEF OneLink
  <2> QED BY <2>3, <2>4, <2>5, <2>6 DEF OneLink
<1> QED BY <1>4, <1>5, <1>6 DEF TreeOk

\* or the first child of a node that has none,
LEMMA FirstChild ==
  ASSUME NEW L, NEW r, NEW c, NEW x, NEW p, NEW a, NEW B, TreeOk(L, r, c, x, p, a, B),
         NEW n, IsFresh(n, L, c, x, p, a), NEW q \in L, p[n] = q, c[q] = None
  PROVE  TreeOk(L \cup {n}, r, [c EXCEPT ![q] = n], x, p, a, B)
<1>1. TreeTypes(L, r, c, x, p, a, B) /\ TreeLinks(L, r, c, x, p, a) /\ OneLink(L, r, c, x)
  BY DEF TreeOk
<1>2. n \in Nodes /\ n \notin L /\ c[n] = None /\ x[n] = None /\ a[q] < a[n] /\ q # n
  BY DEF IsFresh
<1>3. L \in SUBSET Nodes /\ c \in Links
  BY <1>1 DEF TreeTypes
<1>4. PICK d : d = [c EXCEPT ![q] = n]
  BY Zenon
<1>5. d \in Links /\ d[q] = n /\ \A m \in Nodes : m # q => d[m] = c[m]
  <2>1. n \in OrNone
    BY <1>2 DEF OrNone
  <2> QED BY <1>3, <1>4, <2>1 DEF Links
<1>6. TreeTypes(L \cup {n}, r, d, x, p, a, B)
  BY <1>1, <1>2, <1>5 DEF TreeTypes, OrNone
<1>7. d[n] = None /\ \A m \in L : m # q => d[m] = c[m]
  BY <1>2, <1>3, <1>5
<1>8. TreeLinks(L \cup {n}, r, d, x, p, a)
  <2>1. r # None => r \in L \cup {n} /\ p[r] = None
    BY <1>1 DEF TreeLinks
  <2>2. \A m \in L \cup {n} : d[m] # None => d[m] \in L \cup {n} /\ a[m] < a[d[m]] /\ p[d[m]] = m
    BY <1>1, <1>2, <1>5, <1>7 DEF TreeLinks
  <2>3. \A m \in L \cup {n} : x[m] # None => x[m] \in L \cup {n} /\ a[m] < a[x[m]] /\ p[x[m]] = p[m]
    BY <1>1, <1>2 DEF TreeLinks
  <2>4. \A m \in L \cup {n} : p[m] # None => p[m] \in L \cup {n} /\ a[p[m]] < a[m]
    BY <1>1, <1>2 DEF TreeLinks
  <2> QED BY <2>1, <2>2, <2>3, <2>4 DEF TreeLinks
<1>9. OneLink(L \cup {n}, r, d, x)
  <2>1. \A m \in L : x[m] # None => x[m] \in L /\ x[m] # n
    BY <1>1, <1>2 DEF TreeLinks
  <2>2. \A m \in L : m # None
    BY <1>3, NoNode
  <2>3. \A m, k \in L \cup {n} : x[m] = x[k] /\ x[m] # None => m = k
    BY <1>1, <1>2 DEF OneLink
  <2>4. \A m \in L \cup {n} : x[m] # None => x[m] # r
    BY <1>1, <1>2 DEF OneLink
  <2>5. \A m, k \in L \cup {n} : x[m] # None => x[m] # d[k]
    BY <1>1, <1>2, <1>5, <1>7, <2>1 DEF OneLink
  <2>6. \A m \in L \cup {n} : m = r \/ \E k \in L \cup {n} : x[k] = m \/ d[k] = m
    <3> TAKE m \in L \cup {n}
    <3>1. CASE m = n
      BY <1>5, <3>1
    <3>2. CASE m # n /\ m # r
      <4>1. PICK k \in L : x[k] = m \/ c[k] = m
        BY <1>1, <3>2 DEF OneLink
      <4>2. c[k] = m => k # q
        BY <2>2, <3>2
      <4> QED BY <1>7, <4>1, <4>2
    <3> QED BY <3>1, <3>2
  <2> QED BY <2>3, <2>4, <2>5, <2>6 DEF OneLink
<1> QED BY <1>4, <1>6, <1>8, <1>9 DEF TreeOk

\* or the next sibling of the last one.
LEMMA NextSibling ==
  ASSUME NEW L, NEW r, NEW c, NEW x, NEW p, NEW a, NEW B, TreeOk(L, r, c, x, p, a, B),
         NEW n, IsFresh(n, L, c, x, p, a), NEW q \in L, p[n] = p[q], x[q] = None
  PROVE  TreeOk(L \cup {n}, r, c, [x EXCEPT ![q] = n], p, a, B)
<1>1. TreeTypes(L, r, c, x, p, a, B) /\ TreeLinks(L, r, c, x, p, a) /\ OneLink(L, r, c, x)
  BY DEF TreeOk
<1>2. /\ n \in Nodes /\ n \notin L /\ c[n] = None /\ x[n] = None /\ p[n] \in L \cup {None}
      /\ \A m \in L : a[m] < a[n]
  BY DEF IsFresh
<1>2a. q # n
  BY <1>2
<1>3. L \in SUBSET Nodes /\ x \in Links /\ r \in OrNone
  BY <1>1 DEF TreeTypes
<1>4. PICK d : d = [x EXCEPT ![q] = n]
  BY Zenon
<1>5. d \in Links /\ d[q] = n /\ \A m \in Nodes : m # q => d[m] = x[m]
  <2>1. n \in OrNone
    BY <1>2 DEF OrNone
  <2> QED BY <1>3, <1>4, <2>1 DEF Links
<1>6. TreeTypes(L \cup {n}, r, c, d, p, a, B)
  BY <1>1, <1>2, <1>5 DEF TreeTypes, OrNone
<1>7. d[n] = None /\ \A m \in L : m # q => d[m] = x[m]
  BY <1>2, <1>2a, <1>3, <1>5
<1>8. TreeLinks(L \cup {n}, r, c, d, p, a)
  <2>1. r # None => r \in L \cup {n} /\ p[r] = None
    BY <1>1 DEF TreeLinks
  <2>2. \A m \in L \cup {n} : c[m] # None => c[m] \in L \cup {n} /\ a[m] < a[c[m]] /\ p[c[m]] = m
    BY <1>1, <1>2 DEF TreeLinks
  <2>3. \A m \in L \cup {n} : d[m] # None => d[m] \in L \cup {n} /\ a[m] < a[d[m]] /\ p[d[m]] = p[m]
    BY <1>1, <1>2, <1>5, <1>7 DEF TreeLinks
  <2>4. \A m \in L \cup {n} : p[m] # None => p[m] \in L \cup {n} /\ a[p[m]] < a[m]
    BY <1>1, <1>2 DEF TreeLinks
  <2> QED BY <2>1, <2>2, <2>3, <2>4 DEF TreeLinks
<1>9. OneLink(L \cup {n}, r, c, d)
  <2>1. \A m \in L : x[m] # None => x[m] \in L /\ x[m] # n
    BY <1>1, <1>2 DEF TreeLinks
  <2>2. \A m \in L : m # None
    BY <1>3, NoNode
  <2>2a. n # r /\ \A m \in L \cup {n} : c[m] # n
    BY <1>1, <1>2, NoNode DEF TreeLinks
  <2>3. \A m, k \in L \cup {n} : d[m] = d[k] /\ d[m] # None => m = k
    BY <1>1, <1>2, <1>5, <1>7, <2>1 DEF OneLink
  <2>4. \A m \in L \cup {n} : d[m] # None => d[m] # r
    BY <1>1, <1>2, <1>5, <1>7, <2>2a DEF OneLink
  <2>5. \A m, k \in L \cup {n} : d[m] # None => d[m] # c[k]
    <3> SUFFICES ASSUME NEW m \in L \cup {n}, NEW k \in L \cup {n}, d[m] # None PROVE d[m] # c[k]
      OBVIOUS
    <3>1. CASE m = q
      BY <1>5, <2>2a, <3>1
    <3>2. CASE m # q
      <4>1. m \in L /\ d[m] = x[m]
        BY <1>7, <3>2
      <4>2. CASE k = n
        BY <1>2, <4>2
      <4>3. CASE k # n
        BY <1>1, <4>1, <4>3 DEF OneLink
      <4> QED BY <4>2, <4>3
    <3> QED BY <3>1, <3>2
  <2>6. \A m \in L \cup {n} : m = r \/ \E k \in L \cup {n} : d[k] = m \/ c[k] = m
    <3> TAKE m \in L \cup {n}
    <3>1. CASE m = n
      BY <1>5, <3>1
    <3>2. CASE m # n /\ m # r
      <4>1. PICK k \in L : x[k] = m \/ c[k] = m
        BY <1>1, <3>2 DEF OneLink
      <4>2. x[k] = m => k # q
        BY <2>2, <3>2
      <4> QED BY <1>7, <4>1, <4>2
    <3> QED BY <3>1, <3>2
  <2> QED BY <2>3, <2>4, <2>5, <2>6 DEF OneLink
<1> QED BY <1>4, <1>6, <1>8, <1>9 DEF TreeOk

\* The nodes that go with n: they were made after it, are closed, and no link
\* but those to n leads from others to them.
Gone(n, c, x) == {n} \cup Reached({c[n]} \ {None}, {c, x})

\* Nothing leads out of the nodes that go with n but n's sibling link, or into them but to n.
LEMMA GoneAre ==
  ASSUME NEW L, NEW r, NEW c, NEW x, NEW p, NEW a, NEW B, TreeOk(L, r, c, x, p, a, B), NEW n \in L
  PROVE  LET D == Gone(n, c, x)
         IN  /\ n \in D /\ D \subseteq L
             /\ \A m \in D : m # n => /\ a[n] < a[m] /\ c[m] \in (D \cup {None}) /\ x[m] \in (D \cup {None})
             /\ c[n] \in D \cup {None}
             /\ x[n] \in (L \ D) \cup {None}
             /\ r \in D => r = n
             /\ \A m \in L \ D : c[m] \in D => c[m] = n
             /\ \A m \in L \ D : x[m] \in D => x[m] = n
<1>1. TreeTypes(L, r, c, x, p, a, B) /\ TreeLinks(L, r, c, x, p, a) /\ OneLink(L, r, c, x)
  BY DEF TreeOk
<1>2. /\ L \in SUBSET Nodes /\ r \in OrNone /\ c \in Links /\ x \in Links /\ a \in [Nodes -> Nat]
      /\ n \in Nodes
  BY <1>1 DEF TreeTypes
<1>3. PICK G, F, D : G = Reached({c[n]} \ {None}, {c, x}) /\ F = {c[n]} \ {None} /\ D = {n} \cup G
  BY Zenon
<1>4. D = Gone(n, c, x)
  BY <1>3 DEF Gone
<1>5. F \in SUBSET Nodes
  BY <1>2, <1>3 DEF Links, OrNone
<1>6. IsReached(G, F, {c, x})
  BY <1>2, <1>3, <1>5, ReachedIs
<1>7. \A m \in G : c[m] \in G \cup {None} /\ x[m] \in G \cup {None}
  BY <1>6 DEF IsReached
\* They were made after it.
<1>8. \A m \in G : m \in L /\ a[n] < a[m]
  <2>1. PICK S \in SUBSET Nodes : S = {m \in L : a[n] < a[m]}
    BY Zenon, <1>2
  <2>2. F \subseteq S
    BY <1>1, <1>3, <2>1 DEF TreeLinks
  <2>3. ASSUME NEW m \in S PROVE c[m] \in S \cup {None} /\ x[m] \in S \cup {None}
    <3>1. m \in L /\ a[n] < a[m]
      BY <2>1
    <3>2. ASSUME NEW k \in L, a[m] < a[k] PROVE k \in S
      <4>1. PICK i \in Nat, j \in Nat, l \in Nat : i = a[n] /\ j = a[m] /\ l = a[k]
        BY <1>2, <3>1
      <4>2. i < l
        BY <3>1, <3>2, <4>1
      <4> QED BY <2>1, <4>1, <4>2
    <3> QED BY <1>1, <3>1, <3>2 DEF TreeLinks
  <2>4. \A m \in S : \A link \in {c, x} : link[m] \in S \cup {None}
    BY <2>3
  <2>5. G \subseteq S
    BY <1>6, <2>2, <2>4 DEF IsReached
  <2> QED BY <2>1, <2>5
<1>9. n \notin G
  <2> SUFFICES ASSUME n \in G PROVE FALSE
    OBVIOUS
  <2>1. a[n] < a[n] /\ a[n] \in Nat
    BY <1>2, <1>8
  <2> QED BY <2>1
\* Each is the first child of n or linked from another of them.
<1>10. \A y \in G : y = c[n] \/ \E k \in G : x[k] = y \/ c[k] = y
  <2>1. PICK S \in SUBSET Nodes : S = {y \in G : y = c[n] \/ \E k \in G : x[k] = y \/ c[k] = y}
    BY Zenon, <1>2, <1>8
  <2>2. F \subseteq S
    BY Zenon, <1>3, <1>6, <2>1 DEF IsReached
  <2>3. \A m \in S : c[m] \in S \cup {None} /\ x[m] \in S \cup {None}
    BY <1>7, <2>1
  <2>4. \A m \in S : \A link \in {c, x} : link[m] \in S \cup {None}
    BY <2>3
  <2>5. G \subseteq S
    BY <1>6, <2>2, <2>4 DEF IsReached
  <2> QED BY <2>1, <2>5
<1>11. c[n] \in G \cup {None}
  BY Zenon, <1>3, <1>6 DEF IsReached
<1>12. \A y \in G : y \in L /\ y # None
  BY <1>2, <1>8, NoNode
\* The links from others
<1>13. ASSUME NEW m \in L \ D, c[m] \in G PROVE FALSE
  <2>1. PICK y \in G : y = c[m]
    BY <1>13
  <2>2. p[y] = m
    BY <1>1, <1>12, <2>1 DEF TreeLinks
  <2>3. CASE y = c[n]
    BY Zenon, <1>1, <1>3, <1>12, <2>2, <2>3 DEF TreeLinks
  <2>4. CASE \E k \in G : x[k] = y \/ c[k] = y
    <3>1. PICK k \in G : x[k] = y \/ c[k] = y
      BY <2>4
    <3>2. CASE x[k] = y
      BY <1>1, <1>12, <2>1, <3>2 DEF OneLink
    <3>3. CASE c[k] = y
      BY Zenon, <1>1, <1>3, <1>12, <2>2, <3>3 DEF TreeLinks
    <3> QED BY <3>1, <3>2, <3>3
  <2> QED BY <1>10, <2>3, <2>4
<1>14. ASSUME NEW m \in L, m \notin G, x[m] \in G PROVE FALSE
  <2>1. PICK y \in G : y = x[m]
    BY <1>14
  <2>2. CASE y = c[n]
    BY Zenon, <1>1, <1>12, <2>1, <2>2 DEF OneLink
  <2>3. CASE \E k \in G : x[k] = y \/ c[k] = y
    <3>1. PICK k \in G : x[k] = y \/ c[k] = y
      BY <2>3
    <3>2. CASE x[k] = y
      BY <1>1, <1>12, <1>14, <2>1, <3>2 DEF OneLink
    <3>3. CASE c[k] = y
      BY <1>1, <1>12, <2>1, <3>3 DEF OneLink
    <3> QED BY <3>1, <3>2, <3>3
  <2> QED BY <1>10, <2>2, <2>3
<1>15. r \notin G
  <2> SUFFICES ASSUME r \in G PROVE FALSE
    OBVIOUS
  <2>1. r \in L /\ r # None /\ p[r] = None
    BY <1>1, <1>12 DEF TreeLinks
  <2>2. CASE r = c[n]
    BY <1>1, <1>2, <2>1, <2>2, NoNode DEF TreeLinks
  <2>3. CASE \E k \in G : x[k] = r \/ c[k] = r
    <3>1. PICK k \in G : x[k] = r \/ c[k] = r
      BY <2>3
    <3>2. CASE x[k] = r
      BY <1>1, <1>12, <2>1, <3>2 DEF OneLink
    <3>3. CASE c[k] = r
      BY <1>1, <1>2, <1>12, <2>1, <3>3, NoNode DEF TreeLinks
    <3> QED BY <3>1, <3>2, <3>3
  <2> QED BY <1>10, <2>2, <2>3
<1>16. x[n] \in (L \ D) \cup {None}
  <2>1. x[n] # None => x[n] \in L /\ a[n] < a[x[n]]
    BY <1>1 DEF TreeLinks
  <2>2. x[n] # None => x[n] # n
    <3> SUFFICES ASSUME x[n] # None, x[n] = n PROVE FALSE
      OBVIOUS
    <3>1. a[n] < a[n] /\ a[n] \in Nat
      BY <1>2, <2>1
    <3> QED BY <3>1
  <2>3. x[n] \notin G
    BY <1>9, <1>14
  <2> QED BY <1>3, <2>1, <2>2, <2>3
<1>17. \A m \in D : m # n => /\ a[n] < a[m] /\ c[m] \in (D \cup {None}) /\ x[m] \in (D \cup {None})
  BY Zenon, <1>3, <1>7, <1>8
<1>18. n \in D /\ D \subseteq L /\ c[n] \in D \cup {None}
  BY Zenon, <1>3, <1>8, <1>11
<1>19. r \in D => r = n
  BY <1>3, <1>15
<1>20. \A m \in L \ D : c[m] \in D => c[m] = n
  BY <1>3, <1>13
<1>21. \A m \in L \ D : x[m] \in D => x[m] = n
  BY <1>3, <1>14
<1> QED BY <1>4, <1>16, <1>17, <1>18, <1>19, <1>20, <1>21

\* The parent of a node that stays stays.
LEMMA ParentsStay ==
  ASSUME NEW L, NEW r, NEW c, NEW x, NEW p, NEW a, NEW B, TreeOk(L, r, c, x, p, a, B), NEW n \in L
  PROVE  \A m \in L \ Gone(n, c, x) : p[m] \notin Gone(n, c, x)
<1>1. TreeTypes(L, r, c, x, p, a, B) /\ TreeLinks(L, r, c, x, p, a) /\ OneLink(L, r, c, x)
  BY DEF TreeOk
<1>2. L \in SUBSET Nodes /\ r \in OrNone /\ a \in [Nodes -> Nat]
  BY <1>1 DEF TreeTypes
<1>3. PICK D : D = Gone(n, c, x)
  OBVIOUS
<1>4. /\ n \in D /\ D \subseteq L
      /\ \A m \in D : m # n => /\ a[n] < a[m] /\ c[m] \in (D \cup {None}) /\ x[m] \in (D \cup {None})
      /\ c[n] \in D \cup {None}
  BY <1>3, GoneAre
<1>5. PICK S \in SUBSET Nodes : S = {m \in L \ D : p[m] \in D}
  BY Zenon, <1>2
<1>6. S = {}
  <2> SUFFICES ASSUME S # {} PROVE FALSE
    OBVIOUS
  <2>1. PICK m \in S : \A k \in S : a[m] <= a[k]
    BY <1>2, FirstMade
  <2>2. m \in L /\ m \notin D /\ p[m] \in D /\ m # None /\ p[m] # None
    BY <1>2, <1>4, <1>5, NoNode
  <2>3. m # r
    BY <1>1, <2>2 DEF TreeLinks
  <2>4. PICK k \in L : x[k] = m \/ c[k] = m
    BY <1>1, <2>2, <2>3 DEF OneLink
  <2>5. CASE c[k] = m
    <3>1. p[m] = k
      BY <1>1, <2>2, <2>5 DEF TreeLinks
    <3>2. k \in D
      BY <2>2, <3>1
    <3> QED BY <1>4, <2>2, <2>5, <3>2
  <2>6. CASE x[k] = m
    <3>1. a[k] < a[m] /\ p[k] = p[m]
      BY <1>1, <2>2, <2>6 DEF TreeLinks
    <3>2. k \notin S
      <4>1. a[k] \in Nat /\ a[m] \in Nat
        BY <1>2, <2>2
      <4>2. ~(a[m] <= a[k])
        BY <3>1, <4>1
      <4> QED BY <2>1, <4>2
    <3>3. k \in D
      BY <1>5, <2>2, <3>1, <3>2
    <3>4. k = n
      BY <1>4, <2>2, <2>6, <3>3
    <3>5. p[n] \in D /\ p[n] # None /\ a[p[n]] < a[n]
      BY <1>1, <2>2, <3>1, <3>4 DEF TreeLinks
    <3>6. PICK q \in D : q = p[n]
      BY <3>5
    <3>7. q = n \/ a[n] < a[q]
      BY <1>4
    <3>8. a[q] \in Nat /\ a[n] \in Nat /\ a[q] < a[n]
      BY <1>2, <1>4, <3>5, <3>6
    <3> QED BY <3>7, <3>8
  <2> QED BY <2>4, <2>5, <2>6
<1> QED BY <1>3, <1>5, <1>6

\* Where n was linked, the node behind it is.
Behind(v, n, z) == IF v = n THEN z ELSE v

\* Unlinking n and what goes with it leaves a tree of the other nodes.
LEMMA TreeWithout ==
  ASSUME NEW L, NEW r, NEW c, NEW x, NEW p, NEW a, NEW B, TreeOk(L, r, c, x, p, a, B), NEW n \in L,
         NEW d \in Links, NEW y \in Links,
         \A m \in L \ Gone(n, c, x) : d[m] = Behind(c[m], n, x[n]) /\ y[m] = Behind(x[m], n, x[n])
  PROVE  TreeOk(L \ Gone(n, c, x), Behind(r, n, x[n]), d, y, p, a, B)
<1>1. TreeTypes(L, r, c, x, p, a, B) /\ TreeLinks(L, r, c, x, p, a) /\ OneLink(L, r, c, x)
  BY DEF TreeOk
<1>2. /\ L \in SUBSET Nodes /\ r \in OrNone /\ c \in Links /\ x \in Links /\ a \in [Nodes -> Nat]
      /\ n \in Nodes /\ n # None
  BY <1>1, NoNode DEF TreeTypes
<1>3. PICK D, z, s, K : D = Gone(n, c, x) /\ z = x[n] /\ s = Behind(r, n, x[n]) /\ K = L \ D
  BY Zenon
<1>4. /\ n \in D /\ D \subseteq L
      /\ \A m \in D : m # n => /\ a[n] < a[m] /\ c[m] \in (D \cup {None}) /\ x[m] \in (D \cup {None})
      /\ c[n] \in D \cup {None}
      /\ z \in K \cup {None}
      /\ r \in D => r = n
      /\ \A m \in K : c[m] \in D => c[m] = n
      /\ \A m \in K : x[m] \in D => x[m] = n
  BY <1>3, GoneAre
<1>5. \A m \in K : p[m] \notin D
  BY <1>3, ParentsStay
<1>6. /\ \A m \in K : d[m] = IF c[m] = n THEN z ELSE c[m]
      /\ \A m \in K : y[m] = IF x[m] = n THEN z ELSE x[m]
      /\ s = IF r = n THEN z ELSE r
  BY <1>3 DEF Behind
<1>7. \A m \in K : m \in L /\ m \notin D /\ m # n /\ m # None /\ m \in Nodes
  BY <1>2, <1>3, <1>4, NoNode
<1>8. z # None => z \in K /\ a[n] < a[z] /\ p[z] = p[n] /\ z # r /\ \A k \in L : c[k] # z
  <2>1. z # None => a[n] < a[z] /\ p[z] = p[n]
    BY <1>1, <1>3 DEF TreeLinks
  <2>2. z # None => z # r /\ \A k \in L : c[k] # z
    BY <1>1, <1>3 DEF OneLink
  <2> QED BY <1>4, <2>1, <2>2
<1>9. \A m \in L : x[m] = z /\ z # None => m = n
  BY <1>1, <1>3 DEF OneLink
<1>10. TreeTypes(K, s, d, y, p, a, B)
  <2>1. K \in SUBSET Nodes /\ s \in OrNone
    BY <1>2, <1>4, <1>6, <1>7 DEF OrNone
  <2> QED BY <1>1, <2>1 DEF TreeTypes
<1>11. TreeLinks(K, s, d, y, p, a)
  <2>1. s # None => s \in K /\ p[s] = None
    <3>1. CASE r = n
      BY <1>1, <1>2, <1>6, <1>8, <3>1 DEF TreeLinks
    <3>2. CASE r # n
      BY <1>1, <1>3, <1>4, <1>6, <3>2 DEF TreeLinks
    <3> QED BY <3>1, <3>2
  <2>2. ASSUME NEW m \in K, d[m] # None PROVE d[m] \in K /\ a[m] < a[d[m]] /\ p[d[m]] = m
    <3>1. CASE c[m] = n
      <4>1. d[m] = z /\ z # None
        BY <1>6, <2>2, <3>1
      <4>2. a[m] < a[n] /\ p[n] = m
        BY <1>1, <1>2, <1>7, <3>1 DEF TreeLinks
      <4>3. a[m] < a[z]
        <5>1. a[m] \in Nat /\ a[n] \in Nat /\ a[z] \in Nat
          BY <1>2, <1>7, <1>8, <4>1
        <5> QED BY <1>8, <4>1, <4>2, <5>1
      <4> QED BY <1>8, <4>1, <4>2, <4>3
    <3>2. CASE c[m] # n
      <4>1. d[m] = c[m]
        BY <1>6, <3>2
      <4>2. c[m] \in L /\ a[m] < a[c[m]] /\ p[c[m]] = m
        BY <1>1, <1>7, <2>2, <4>1 DEF TreeLinks
      <4> QED BY <1>3, <1>4, <3>2, <4>1, <4>2
    <3> QED BY <3>1, <3>2
  <2>3. ASSUME NEW m \in K, y[m] # None PROVE y[m] \in K /\ a[m] < a[y[m]] /\ p[y[m]] = p[m]
    <3>1. CASE x[m] = n
      <4>1. y[m] = z /\ z # None
        BY <1>6, <2>3, <3>1
      <4>2. a[m] < a[n] /\ p[n] = p[m]
        BY <1>1, <1>2, <1>7, <3>1 DEF TreeLinks
      <4>3. a[m] < a[z]
        <5>1. a[m] \in Nat /\ a[n] \in Nat /\ a[z] \in Nat
          BY <1>2, <1>7, <1>8, <4>1
        <5> QED BY <1>8, <4>1, <4>2, <5>1
      <4> QED BY <1>8, <4>1, <4>2, <4>3
    <3>2. CASE x[m] # n
      <4>1. y[m] = x[m]
        BY <1>6, <3>2
      <4>2. x[m] \in L /\ a[m] < a[x[m]] /\ p[x[m]] = p[m]
        BY <1>1, <1>7, <2>3, <4>1 DEF TreeLinks
      <4> QED BY <1>3, <1>4, <3>2, <4>1, <4>2
    <3> QED BY <3>1, <3>2
  <2>4. ASSUME NEW m \in K, p[m] # None PROVE p[m] \in K /\ a[p[m]] < a[m]
    <3>1. p[m] \in L /\ a[p[m]] < a[m]
      BY <1>1, <1>7, <2>4 DEF TreeLinks
    <3> QED BY <1>3, <1>5, <3>1
  <2> QED BY <2>1, <2>2, <2>3, <2>4 DEF TreeLinks
<1>12. OneLink(K, s, d, y)
  <2>1. ASSUME NEW m \in K, NEW k \in K, y[m] = y[k], y[m] # None PROVE m = k
    <3>1. CASE x[m] = n /\ x[k] = n
      BY <1>1, <1>2, <1>7, <3>1 DEF OneLink
    <3>2. CASE x[m] # n /\ x[k] # n
      BY <1>1, <1>6, <1>7, <2>1, <3>2 DEF OneLink
    <3>3. CASE x[m] = n /\ x[k] # n
      BY <1>6, <1>7, <1>9, <2>1, <3>3
    <3>4. CASE x[m] # n /\ x[k] = n
      BY <1>6, <1>7, <1>9, <2>1, <3>4
    <3> QED BY <3>1, <3>2, <3>3, <3>4
  <2>2. ASSUME NEW m \in K, y[m] # None PROVE y[m] # s
    <3>1. CASE x[m] = n /\ r = n
      BY <1>1, <1>2, <1>7, <3>1 DEF OneLink
    <3>2. CASE x[m] # n /\ r # n
      BY <1>1, <1>6, <1>7, <2>2, <3>2 DEF OneLink
    <3>3. CASE x[m] = n /\ r # n
      BY <1>6, <1>8, <2>2, <3>3
    <3>4. CASE x[m] # n /\ r = n
      BY <1>6, <1>7, <1>9, <2>2, <3>4
    <3> QED BY <3>1, <3>2, <3>3, <3>4
  <2>3. ASSUME NEW m \in K, NEW k \in K, y[m] # None PROVE y[m] # d[k]
    <3>1. CASE x[m] = n /\ c[k] = n
      BY <1>1, <1>2, <1>7, <3>1 DEF OneLink
    <3>2. CASE x[m] # n /\ c[k] # n
      BY <1>1, <1>6, <1>7, <2>3, <3>2 DEF OneLink
    <3>3. CASE x[m] = n /\ c[k] # n
      BY <1>6, <1>7, <1>8, <2>3, <3>3
    <3>4. CASE x[m] # n /\ c[k] = n
      BY <1>6, <1>7, <1>9, <2>3, <3>4
    <3> QED BY <3>1, <3>2, <3>3, <3>4
  <2>4. ASSUME NEW m \in K, m # s PROVE \E k \in K : y[k] = m \/ d[k] = m
    <3>1. CASE m = r
      BY <1>6, <1>7, <2>4, <3>1
    <3>2. CASE m # r
      <4>1. PICK k \in L : x[k] = m \/ c[k] = m
        BY <1>1, <1>7, <3>2 DEF OneLink
      <4>2. CASE k \in K
        BY <1>6, <1>7, <4>1, <4>2
      <4>3. CASE k \notin K
        <5>1. k \in D
          BY <1>3, <4>3
        <5>2. k = n /\ m = z
          BY <1>3, <1>4, <1>7, <4>1, <5>1
        <5>3. n # r
          BY <1>6, <2>4, <5>2
        <5>4. PICK j \in L : x[j] = n \/ c[j] = n
          BY <1>1, <5>3 DEF OneLink
        <5>5. j \in K
          <6> SUFFICES ASSUME j \in D PROVE FALSE
            BY <1>3
          <6>1. a[j] < a[n]
            BY <1>1, <1>2, <5>4 DEF TreeLinks
          <6>2. j = n \/ a[n] < a[j]
            BY <1>4
          <6>3. a[j] \in Nat /\ a[n] \in Nat
            BY <1>2
          <6> QED BY <6>1, <6>2, <6>3
        <5> QED BY <1>6, <5>2, <5>4, <5>5
      <4> QED BY <4>2, <4>3
    <3> QED BY <3>1, <3>2
  <2> QED BY <2>1, <2>2, <2>3, <2>4 DEF OneLink
<1> QED BY <1>3, <1>10, <1>11, <1>12 DEF TreeOk

\* The invariant of the tree, as long as no node was lost.
TreeIs(r, c, x, p, k, a, B) ==
    /\ tree = [root |-> r, count |-> k, child |-> c, next |-> x, parent |-> p]
    /\ TreeOk(live, r, c, x, p, a, B)
    /\ k = Cardinality(live)
TreeInv == ~lost => \E r, c, x, p, k, a, B : TreeIs(r, c, x, p, k, a, B)

\* What a tree without nodes is
LEMMA EmptyTree ==
  ASSUME NEW c \in Links, NEW x \in Links, NEW p \in Links
  PROVE  TreeOk({}, None, c, x, p, [m \in Nodes |-> 0], 0) /\ Cardinality({}) = 0
<1>1. PICK a : a = [m \in Nodes |-> 0]
  BY Zenon
<1>2. a \in [Nodes -> Nat] /\ \A m \in Nodes : a[m] <= 0
  BY <1>1
<1>3. TreeTypes({}, None, c, x, p, a, 0)
  BY <1>2 DEF TreeTypes, OrNone
<1>4. TreeLinks({}, None, c, x, p, a)
  BY DEF TreeLinks
<1>5. OneLink({}, None, c, x)
  BY DEF OneLink
<1> QED BY <1>1, <1>3, <1>4, <1>5, FS_EmptySet DEF TreeOk

\* At the start no node is linked.
LEMMA TreeStart == TreeInit => TreeInv
<1> SUFFICES ASSUME TreeInit PROVE TreeInv
  OBVIOUS
<1>1. PICK c : c = [n \in Nodes |-> None]
  BY Zenon
<1>2. c \in Links
  BY <1>1 DEF Links, OrNone
<1>3. PICK a : a = [m \in Nodes |-> 0]
  BY Zenon
<1>4. TreeOk({}, None, c, c, c, a, 0) /\ Cardinality({}) = 0
  BY <1>2, <1>3, EmptyTree
<1>5. tree = [root |-> None, count |-> 0, child |-> c, next |-> c, parent |-> c] /\ live = {}
  BY <1>1 DEF TreeInit
<1>6. TreeIs(None, c, c, c, 0, a, 0)
  BY <1>4, <1>5 DEF TreeIs
<1> QED BY <1>6 DEF TreeInv

\* The last sibling that the code finds is one.
LEMMA LastIs ==
  ASSUME NEW L, NEW r, NEW c, NEW x, NEW p, NEW a, NEW B, TreeOk(L, r, c, x, p, a, B), NEW f \in L,
         NEW t, t.next = x
  PROVE  \E q \in L : /\ q = CHOOSE m \in Siblings(t, f) : t.next[m] = None
                      /\ p[q] = p[f] /\ x[q] = None
<1>1. PICK S : S = Reached({f} \ {None}, {x})
  OBVIOUS
<1>2. S \subseteq {m \in L : p[m] = p[f]} /\ \E m \in S : x[m] = None
  BY <1>1, SiblingsAre
<1>3. Siblings(t, f) = S
  BY <1>1 DEF Siblings
<1>4. PICK q : q = CHOOSE m \in S : x[m] = None
  OBVIOUS
<1>5. q \in S /\ x[q] = None
  BY <1>2, <1>4
<1>6. q = CHOOSE m \in Siblings(t, f) : t.next[m] = None
  BY <1>3, <1>4
<1> QED BY <1>2, <1>5, <1>6

\* No call loses a live node or keeps a freed one, unless it removes a later child.
LEMMA TreeStep == TreeInv /\ TreeNext => TreeInv'
<1> SUFFICES ASSUME TreeInv, TreeNext PROVE TreeInv'
  OBVIOUS
<1>1. ~lost
  BY DEF TreeNext
<1>2. PICK r, c, x, p, k, a, B : TreeIs(r, c, x, p, k, a, B)
  BY <1>1 DEF TreeInv
<1>3. PICK L : L = live
  OBVIOUS
<1>4. /\ tree = [root |-> r, count |-> k, child |-> c, next |-> x, parent |-> p]
      /\ TreeOk(L, r, c, x, p, a, B) /\ k = Cardinality(L)
  BY <1>2, <1>3 DEF TreeIs
<1>5. /\ TreeTypes(L, r, c, x, p, a, B) /\ TreeLinks(L, r, c, x, p, a) /\ OneLink(L, r, c, x)
  BY <1>4 DEF TreeOk
<1>6. /\ L \in SUBSET Nodes /\ r \in OrNone /\ c \in Links /\ x \in Links /\ p \in Links
      /\ \A m \in L : m # None
  BY <1>5, NoNode DEF TreeTypes
<1>7. IsFiniteSet(L) /\ Cardinality(L) \in Nat
  <2>1. IsFiniteSet(L)
    BY <1>6, NoNode, FS_Subset
  <2> QED BY <2>1, FS_CardinalityType
<1>8. ASSUME NEW r1, NEW c1, NEW x1, NEW p1, NEW k1, NEW a1, NEW B1, TreeIs(r1, c1, x1, p1, k1, a1, B1)'
      PROVE  TreeInv'
  BY <1>8 DEF TreeInv
\* A node is made.
<1>9. ASSUME NEW n \in Nodes \ L, NEW q \in L \cup {None}, NEW t, t = Fresh(tree, n, q), live' = L \cup {n}
      PROVE  \E d, y, o, b : /\ t = [root |-> r, count |-> k + 1, child |-> d, next |-> y, parent |-> o]
                             /\ TreeOk(L, r, d, y, o, b, B + 1) /\ IsFresh(n, L, d, y, o, b) /\ o[n] = q
                             /\ \A m \in L : d[m] = c[m]
                             /\ k + 1 = Cardinality(L \cup {n})
  <2>1. PICK d, y, o, b : /\ d = [c EXCEPT ![n] = None] /\ y = [x EXCEPT ![n] = None]
                          /\ o = [p EXCEPT ![n] = q]
                          /\ TreeOk(L, r, d, y, o, b, B + 1) /\ IsFresh(n, L, d, y, o, b)
    BY <1>4, FreshNode
  <2>2. t = [root |-> r, count |-> k + 1, child |-> d, next |-> y, parent |-> o]
    BY Zenon, <1>4, <1>9, <2>1 DEF Fresh
  <2>3. o[n] = q /\ \A m \in L : d[m] = c[m]
    BY <1>6, <2>1 DEF Links
  <2>4. k + 1 = Cardinality(L \cup {n})
    <3>1. Cardinality(L \cup {n}) = IF n \in L THEN Cardinality(L) ELSE Cardinality(L) + 1
      BY Zenon, <1>7, FS_AddElement
    <3> QED BY <1>4, <3>1
  <2> QED BY Zenon, <2>1, <2>2, <2>3, <2>4
\* It goes behind the last of its siblings.
<1>10. ASSUME NEW n \in Nodes, NEW t, NEW d, NEW y, NEW o, NEW b, NEW f \in L,
              t = [root |-> r, count |-> k + 1, child |-> d, next |-> y, parent |-> o],
              TreeOk(L, r, d, y, o, b, B + 1), IsFresh(n, L, d, y, o, b), o[n] = o[f],
              k + 1 = Cardinality(L \cup {n}), live' = L \cup {n}, tree' = Appended(t, f, n)
       PROVE  TreeInv'
  <2>1. t.next = y
    BY <1>10
  <2>2. PICK q \in L : (q = CHOOSE m \in Siblings(t, f) : t.next[m] = None) /\ o[q] = o[f] /\ y[q] = None
    BY <1>10, <2>1, LastIs
  <2>3. PICK w : w = [y EXCEPT ![q] = n]
    BY Zenon
  <2>4. Appended(t, f, n) = [t EXCEPT !.next[q] = n]
    BY Zenon, <2>2 DEF Appended
  <2>5. tree' = [root |-> r, count |-> k + 1, child |-> d, next |-> w, parent |-> o]
    BY <1>10, <2>3, <2>4
  <2>6. TreeOk(L \cup {n}, r, d, w, o, b, B + 1)
    BY Zenon, <1>10, <2>2, <2>3, NextSibling
  <2>7. TreeIs(r, d, w, o, k + 1, b, B + 1)'
    BY <1>10, <2>5, <2>6 DEF TreeIs
  <2> QED BY <1>8, <2>7
<1>11. ASSUME NEW n \in Nodes, TreeviewAddRoot(n) PROVE TreeInv'
  <2>1. n \in Nodes \ L /\ live' = L \cup {n}
    BY <1>3, <1>11 DEF TreeviewAddRoot
  <2>2. PICK t : t = Fresh(tree, n, None)
    OBVIOUS
  <2>3. tree' = IF t.root = None THEN [t EXCEPT !.root = n] ELSE Appended(t, t.root, n)
    BY <1>11, <2>2 DEF TreeviewAddRoot
  <2>4. PICK d, y, o, b : /\ t = [root |-> r, count |-> k + 1, child |-> d, next |-> y, parent |-> o]
                          /\ TreeOk(L, r, d, y, o, b, B + 1) /\ IsFresh(n, L, d, y, o, b) /\ o[n] = None
                          /\ k + 1 = Cardinality(L \cup {n})
    BY <1>9, <2>1, <2>2
  <2>5. CASE r = None
    <3>1. tree' = [root |-> n, count |-> k + 1, child |-> d, next |-> y, parent |-> o]
      BY <2>3, <2>4, <2>5
    <3>2. TreeOk(L \cup {n}, n, d, y, o, b, B + 1)
      BY <2>4, <2>5, FirstRoot
    <3>3. TreeIs(n, d, y, o, k + 1, b, B + 1)'
      BY <2>1, <2>4, <3>1, <3>2 DEF TreeIs
    <3> QED BY <1>8, <3>3
  <2>6. CASE r # None
    <3>1. tree' = Appended(t, r, n)
      BY <2>3, <2>4, <2>6
    <3>2. r \in L /\ o[r] = None
      BY <2>4, <2>6 DEF TreeOk, TreeLinks
    <3> QED BY <1>10, <2>1, <2>4, <3>1, <3>2
  <2> QED BY <2>5, <2>6
<1>12. ASSUME NEW n \in Nodes, NEW q \in Nodes, TreeviewAddChild(q, n) PROVE TreeInv'
  <2>1. n \in Nodes \ L /\ live' = L \cup {n} /\ q \in L
    BY <1>3, <1>12 DEF TreeviewAddChild
  <2>2. PICK t : t = Fresh(tree, n, q)
    OBVIOUS
  <2>3. tree' = IF t.child[q] = None THEN [t EXCEPT !.child[q] = n] ELSE Appended(t, t.child[q], n)
    BY <1>12, <2>2 DEF TreeviewAddChild
  <2>4. PICK d, y, o, b : /\ t = [root |-> r, count |-> k + 1, child |-> d, next |-> y, parent |-> o]
                          /\ TreeOk(L, r, d, y, o, b, B + 1) /\ IsFresh(n, L, d, y, o, b) /\ o[n] = q
                          /\ k + 1 = Cardinality(L \cup {n})
    BY <1>9, <2>1, <2>2
  <2>5. t.child = d
    BY <2>4
  <2>6. CASE d[q] = None
    <3>1. PICK w : w = [d EXCEPT ![q] = n]
      BY Zenon
    <3>2. tree' = [t EXCEPT !.child[q] = n]
      BY <2>3, <2>5, <2>6
    <3>3. tree' = [root |-> r, count |-> k + 1, child |-> w, next |-> y, parent |-> o]
      BY <2>4, <3>1, <3>2
    <3>4. TreeOk(L \cup {n}, r, w, y, o, b, B + 1)
      BY Zenon, <2>1, <2>4, <2>6, <3>1, FirstChild
    <3>5. TreeIs(r, w, y, o, k + 1, b, B + 1)'
      BY <2>1, <2>4, <3>3, <3>4 DEF TreeIs
    <3> QED BY <1>8, <3>5
  <2>7. CASE d[q] # None
    <3>1. PICK f : f = d[q]
      OBVIOUS
    <3>2. tree' = Appended(t, f, n)
      BY <2>3, <2>5, <2>7, <3>1
    <3>3. f \in L /\ o[f] = q
      BY <2>1, <2>4, <2>7, <3>1 DEF TreeOk, TreeLinks
    <3> QED BY <1>10, <2>1, <2>4, <3>2, <3>3
  <2> QED BY <2>6, <2>7
\* A node is removed.
<1>13. ASSUME NEW n \in Nodes, TreeviewRemoveNode(n) PROVE TreeInv'
  <2> SUFFICES ASSUME ~lost' PROVE TreeInv'
    BY DEF TreeInv
  <2>1. /\ n \in L /\ tree' = Removed(tree, n) /\ live' = L \ WithNode(n)
        /\ p[n] = None \/ c[p[n]] = n
    <3>1. tree.parent = p /\ tree.child = c
      BY <1>4
    <3>2. ~(p[n] # None /\ c[p[n]] # n)
      BY Zenon, <1>13, <3>1 DEF TreeviewRemoveNode
    <3> QED BY <1>3, <1>13, <3>2 DEF TreeviewRemoveNode
  <2>2. PICK D, z : D = Gone(n, c, x) /\ z = x[n]
    OBVIOUS
  <2>3. WithNode(n) = D /\ Below(tree, n) = D
    <3>1. tree.child = c /\ tree.next = x
      BY <1>4
    <3> QED BY <2>2, <3>1 DEF WithNode, Below, Gone
  <2>4. n \in D /\ D \subseteq L
    BY <1>4, <2>1, <2>2, GoneAre
  <2>5. PICK t : t = Unlinked(tree, n)
    OBVIOUS
  <2>6. tree' = [t EXCEPT !.count = @ - Cardinality(D)]
    BY <2>1, <2>3, <2>5 DEF Removed
  <2>7. k - Cardinality(D) = Cardinality(L \ D)
    <3>1. Cardinality(L \ D) = Cardinality(L) - Cardinality(L \cap D)
      BY Zenon, <1>7, FS_Difference
    <3>2. L \cap D = D
      BY <2>4
    <3> QED BY <1>4, <3>1, <3>2
  <2>8. n # None /\ n \in Nodes /\ z \in OrNone
    BY <1>6, <2>1, <2>2 DEF Links
  <2>9. \A m \in L \ D : m \in L /\ m \in Nodes
    BY <1>6
  <2>10. ASSUME NEW s, NEW d \in Links, NEW y \in Links,
                t = [root |-> s, count |-> k, child |-> d, next |-> y, parent |-> p],
                s = Behind(r, n, z), \A m \in L \ D : d[m] = Behind(c[m], n, z) /\ y[m] = Behind(x[m], n, z)
         PROVE  TreeInv'
    <3>1. TreeOk(L \ D, s, d, y, p, a, B)
      BY Zenon, <1>4, <2>1, <2>2, <2>10, TreeWithout
    <3>2. PICK k1 : k1 = k - Cardinality(D)
      OBVIOUS
    <3>3. tree' = [root |-> s, count |-> k1, child |-> d, next |-> y, parent |-> p]
      BY <2>6, <2>10, <3>2
    <3>4. live' = L \ D /\ k1 = Cardinality(L \ D)
      BY <2>1, <2>3, <2>7, <3>2
    <3>5. TreeIs(s, d, y, p, k1, a, B)'
      BY <3>1, <3>3, <3>4 DEF TreeIs
    <3> QED BY <1>8, <3>5
  \* Only the link to n leads there.
  <2>11. \A m \in L : c[m] = n => p[n] = m
    BY <1>5, <2>8 DEF TreeLinks
  <2>12. \A m \in L : x[m] = n => p[n] = p[m]
    BY <1>5, <2>8 DEF TreeLinks
  <2>13. r = n => p[n] = None
    BY <1>5, <2>8 DEF TreeLinks
  <2>14. \A m, j \in L : x[m] = n => c[j] # n /\ r # n
    BY <1>5, <2>8 DEF OneLink
  <2>15. CASE p[n] # None
    <3>1. PICK q : q = p[n]
      OBVIOUS
    <3>2. q \in L /\ c[q] = n /\ q \in Nodes
      BY <1>5, <1>6, <2>1, <2>15, <3>1 DEF TreeLinks
    <3>3. PICK d : d = [c EXCEPT ![q] = z]
      BY Zenon
    <3>4. t = [tree EXCEPT !.child[q] = z]
      <4>1. tree.parent = p /\ tree.child = c /\ tree.next = x
        BY <1>4
      <4>2. tree.parent[n] = q /\ q # None /\ tree.child[q] = n /\ tree.next[n] = z
        BY <2>2, <2>15, <3>1, <3>2, <4>1
      <4> QED BY <2>5, <4>2 DEF Unlinked
    <3>5. t = [root |-> r, count |-> k, child |-> d, next |-> x, parent |-> p]
      BY <1>4, <3>3, <3>4
    <3>6. d \in Links /\ d[q] = z /\ \A m \in Nodes : m # q => d[m] = c[m]
      BY <1>6, <2>8, <3>2, <3>3 DEF Links
    <3>7. \A m \in L \ D : d[m] = Behind(c[m], n, z)
      BY <2>9, <2>11, <3>1, <3>2, <3>6 DEF Behind
    <3>8. \A m \in L \ D : x[m] = Behind(x[m], n, z)
      BY <2>9, <2>14, <3>2 DEF Behind
    <3>9. r = Behind(r, n, z)
      BY <2>13, <2>15 DEF Behind
    <3> QED BY <1>6, <2>10, <3>5, <3>6, <3>7, <3>8, <3>9
  <2>16. CASE p[n] = None /\ r = n
    <3>1. t = [tree EXCEPT !.root = z]
      <4>1. tree.parent = p /\ tree.root = r /\ tree.next = x
        BY <1>4
      <4> QED BY <2>2, <2>5, <2>16, <4>1 DEF Unlinked
    <3>2. t = [root |-> z, count |-> k, child |-> c, next |-> x, parent |-> p]
      BY <1>4, <3>1
    <3>3. \A m \in L \ D : c[m] = Behind(c[m], n, z)
      BY <1>6, <2>9, <2>11, <2>16 DEF Behind
    <3>4. \A m \in L \ D : x[m] = Behind(x[m], n, z)
      BY <2>9, <2>14, <2>16 DEF Behind
    <3>5. z = Behind(r, n, z)
      BY <2>16 DEF Behind
    <3> QED BY <1>6, <2>10, <3>2, <3>3, <3>4, <3>5
  <2>17. CASE p[n] = None /\ r # n
    <3>1. PICK S : S = Reached({r} \ {None}, {x})
      OBVIOUS
    <3>2. \A m \in L : p[m] = None => m \in S
      BY <1>4, <3>1, RootsLinked
    <3>3. PICK y : y = [m \in Nodes |-> IF m \in S /\ x[m] = n THEN z ELSE x[m]]
      BY Zenon
    <3>4. tree.parent = p /\ tree.root = r /\ tree.next = x
      BY <1>4
    <3>5. Siblings(tree, tree.root) = S
      BY <3>1, <3>4 DEF Siblings
    <3>6. t = [tree EXCEPT !.next = y]
      <4>1. tree.parent[n] = None /\ tree.root # n
        BY <2>17, <3>4
      <4>2. t = [tree EXCEPT !.next = [m \in Nodes |-> IF m \in Siblings(tree, tree.root) /\ @[m] = n
                                                       THEN @[n] ELSE @[m]]]
        BY <2>5, <4>1 DEF Unlinked
      <4>3. [m \in Nodes |-> IF m \in Siblings(tree, tree.root) /\ tree.next[m] = n
                             THEN tree.next[n] ELSE tree.next[m]] = y
        BY <2>2, <3>3, <3>4, <3>5
      <4> QED BY <4>2, <4>3
    <3>7. t = [root |-> r, count |-> k, child |-> c, next |-> y, parent |-> p]
      BY <1>4, <3>6
    <3>8. y \in Links
      BY <1>6, <2>8, <3>3 DEF Links
    <3>9. \A m \in L \ D : y[m] = Behind(x[m], n, z)
      <4> TAKE m \in L \ D
      <4>1. m \in L /\ m \in Nodes
        BY <2>9
      <4>2. x[m] = n => m \in S
        BY <2>12, <2>17, <3>2, <4>1
      <4> QED BY <3>3, <4>1, <4>2 DEF Behind
    <3>10. \A m \in L \ D : c[m] = Behind(c[m], n, z)
      BY <1>6, <2>9, <2>11, <2>17 DEF Behind
    <3>11. r = Behind(r, n, z)
      BY <2>17 DEF Behind
    <3> QED BY <1>6, <2>10, <3>7, <3>8, <3>9, <3>10, <3>11
  <2> QED BY <2>15, <2>16, <2>17
<1>14. ASSUME TreeviewClear PROVE TreeInv'
  <2>1. Linked(tree) = L
    <3>1. tree.root = r /\ tree.child = c /\ tree.next = x
      BY <1>4
    <3>2. Reached({r} \ {None}, {c, x}) = L
      BY <1>4, AllLinked
    <3> QED BY <3>1, <3>2 DEF Linked
  <2>2. live' = {} /\ tree' = [root |-> None, count |-> 0, child |-> c, next |-> x, parent |-> p]
    BY Zenon, <1>3, <1>4, <1>14, <2>1 DEF TreeviewClear
  <2>3. PICK b : b = [m \in Nodes |-> 0]
    BY Zenon
  <2>4. TreeOk({}, None, c, x, p, b, 0) /\ Cardinality({}) = 0
    BY <1>6, <2>3, EmptyTree
  <2>5. TreeIs(None, c, x, p, 0, b, 0)'
    BY <2>2, <2>4 DEF TreeIs
  <2> QED BY <1>8, <2>5
<1> QED BY <1>11, <1>12, <1>13, <1>14 DEF TreeNext

\* Then the tree leads to the live nodes.
LEMMA TreeSafe == TreeInv => TreeReachesLive
<1> SUFFICES ASSUME TreeInv, ~lost PROVE Linked(tree) = live /\ tree.count = Cardinality(live)
  BY DEF TreeReachesLive
<1>1. PICK r, c, x, p, k, a, B : TreeIs(r, c, x, p, k, a, B)
  BY DEF TreeInv
<1>2. /\ tree = [root |-> r, count |-> k, child |-> c, next |-> x, parent |-> p]
      /\ TreeOk(live, r, c, x, p, a, B) /\ k = Cardinality(live)
  BY <1>1 DEF TreeIs
<1>3. Reached({r} \ {None}, {c, x}) = live
  BY <1>2, AllLinked
<1>4. tree.root = r /\ tree.child = c /\ tree.next = x /\ tree.count = k
  BY <1>2
<1> QED BY <1>2, <1>3, <1>4 DEF Linked

-----------------------------------------------------------------------------
(* Theorems                                                                *)

\* Timers and instances of programs are those their users count on, but for a timer
\* that a callback puts in place of its own, of which it says what the poll does to it.
THEOREM ProgramsKeptCorrect == Spec => []ProgramsKept
<1> DEFINE Inv == TimersInv /\ AppsInv
<1>1. Init => Inv
  BY TimersStart, AppsStart DEF Init
<1>2. Inv /\ [Next]_vars => Inv'
  <2> SUFFICES ASSUME Inv, [Next]_vars PROVE Inv'
    OBVIOUS
  <2>1. TimersInv'
    <3>1. CASE UNCHANGED timerVars
      <4>1. UNCHANGED <<timers, jiffies, poll, armed, replaced, late>>
        BY <3>1 DEF timerVars
      <4>2. TimersTypes' /\ late' = {}
        BY <4>1 DEF TimersInv, TimersTypes
      <4>3. \A j \in Slots : Counted(j)' /\ Known(j)'
        BY <4>1, SlotKept DEF InHand, TimersInv
      <4> QED BY <4>2, <4>3 DEF TimersInv
    <3>2. CASE TimersNext
      BY <3>2, TimersStep
    <3> QED BY <3>1, <3>2, OnePart
  <2>2. AppsInv'
    <3>1. CASE UNCHANGED appVars
      <4>1. UNCHANGED <<app_instances, opened, gui, served, forgotten>>
        BY <3>1 DEF appVars
      <4>2. Active' = Active
        BY <4>1 DEF Active
      <4>3. AppsTypes' /\ ShellsOwn'
        BY <4>1, <4>2 DEF AppsTypes, ShellsOwn, AppsInv
      <4>4. {app_instances'[j].window : j \in Active'} = {app_instances[j].window : j \in Active}
        BY <4>1, <4>2
      <4>5. WindowsHaveOwners'
        BY <4>1, <4>2, <4>4 DEF WindowsHaveOwners, AppsInv
      <4> QED BY <4>3, <4>5 DEF AppsInv
    <3>2. CASE AppsNext
      BY <3>2, AppsStep
    <3> QED BY <3>1, <3>2, OnePart
  <2> QED BY <2>1, <2>2
<1>3. Inv => ProgramsKept
  BY DEF TimersInv, AppsInv, ProgramsKept, TimersRing, Counted
<1> QED BY <1>1, <1>2, <1>3, PTL DEF Spec

\* The text box and the editor are editors of a line, whatever the calls.
THEOREM ImplementsLineCorrect == Spec => ImplementsLine
<1> DEFINE Inv == BoxInv /\ EditorInv
<1>1. Init => Inv /\ BoxLine!LineInit /\ EditorLine!LineInit
  <2> SUFFICES ASSUME Init PROVE Inv /\ BoxLine!LineInit /\ EditorLine!LineInit
    OBVIOUS
  <2>1. /\ box = [buffer |-> EmptyBuffer, cursor |-> 0, multiline |-> FALSE, read_only |-> FALSE]
        /\ editor = [buffer |-> EmptyBuffer, cursor |-> 0, modified |-> FALSE]
    BY DEF Init, TextInit
  <2>2. IsLine(EmptyBuffer, 0) /\ EmptyBuffer \in [0 .. MaxText -> Chars \cup {NUL}]
    BY NoText DEF IsLine, Holds
  <2>3. BoxInv /\ EditorInv
    BY <2>1, <2>2 DEF BoxInv, BoxTypes, EditorInv
  <2> QED BY <2>1, <2>3, NoText DEF BoxLine!LineInit, EditorLine!LineInit
<1>2. Inv /\ [Next]_vars =>
        /\ Inv'
        /\ EditStep(Shown(box.buffer), box.cursor, Shown(box'.buffer), box'.cursor)
        /\ EditStep(Shown(editor.buffer), editor.cursor, Shown(editor'.buffer), editor'.cursor)
  <2> SUFFICES ASSUME Inv, [Next]_vars
               PROVE  /\ Inv'
                      /\ EditStep(Shown(box.buffer), box.cursor, Shown(box'.buffer), box'.cursor)
                      /\ EditStep(Shown(editor.buffer), editor.cursor, Shown(editor'.buffer), editor'.cursor)
    OBVIOUS
  <2>1. \/ UNCHANGED <<box, editor>>
        \/ TextBoxCalls /\ UNCHANGED editor
        \/ EditorCalls /\ UNCHANGED box
    BY OnePart DEF textVars, TextBoxCalls, EditorCalls
  <2>2. box' = box =>
           BoxInv' /\ EditStep(Shown(box.buffer), box.cursor, Shown(box'.buffer), box'.cursor)
    BY DEF BoxInv, BoxTypes, EditStep
  <2>3. editor' = editor =>
           /\ EditorInv'
           /\ EditStep(Shown(editor.buffer), editor.cursor, Shown(editor'.buffer), editor'.cursor)
    BY DEF EditorInv, EditStep
  <2> QED BY <2>1, <2>2, <2>3, BoxStep, EditorStep
<1>3. Inv /\ [Next]_vars =>
        [BoxLine!Move \/ BoxLine!Put \/ BoxLine!Erase \/ BoxLine!Delete \/ BoxLine!Set]_<<Shown(box.buffer), box.cursor>>
  BY <1>2, BoxImplements
<1>4. Inv /\ [Next]_vars =>
        [\/ EditorLine!Move \/ EditorLine!Put \/ EditorLine!Erase
         \/ EditorLine!Delete \/ EditorLine!Set]_<<Shown(editor.buffer), editor.cursor>>
  BY <1>2, EditorImplements
<1>5. Spec => []Inv
  BY <1>1, <1>2, PTL DEF Spec
<1> QED BY <1>1, <1>3, <1>4, <1>5, PTL DEF Spec, ImplementsLine, BoxLine!Line, EditorLine!Line

\* What the taskbar, the fonts and the images draw is what was asked for, from

\* blocks of the heap that each have one owner.
THEOREM DrawnAsAskedCorrect == Spec => []DrawnAsAsked
<1>1. Init => DrawnInv
  <2> SUFFICES ASSUME Init PROVE DrawnInv
    OBVIOUS
  <2>1. BlitInv /\ RowsInv
    BY DEF Init, ImagesInit, BlitInv, RowsInv
  <2>2. TaskbarInv
    BY TaskbarStart DEF Init
  <2>3. LayoutInv
    BY LayoutStart DEF Init
  <2>4. CacheInv
    BY CacheStart DEF Init
  <2>5. PictureInv
    BY PictureStart DEF Init
  <2> QED BY <2>1, <2>2, <2>3, <2>4, <2>5 DEF DrawnInv
<1>2. DrawnInv /\ [Next]_vars => DrawnInv'
  <2> SUFFICES ASSUME DrawnInv, [Next]_vars PROVE DrawnInv'
    OBVIOUS
  <2>0. TaskbarInv /\ LayoutInv /\ CacheInv /\ PictureInv /\ BlitInv /\ RowsInv
    BY DEF DrawnInv
  <2>1. TaskbarInv'
    <3>1. CASE UNCHANGED taskbarVars
      BY <2>0, <3>1, Zenon DEF taskbarVars, TaskbarInv
    <3>2. CASE TaskbarNext
      BY <2>0, <3>2, TaskbarStep
    <3> QED BY <3>1, <3>2, OnePart
  <2>2. LayoutInv'
    <3>1. CASE UNCHANGED layoutVars
      BY <2>0, <3>1 DEF layoutVars, LayoutInv, LayoutTypes, Follow, InPass, Ended, EndOf, Done
    <3>2. CASE LayoutNext
      BY <2>0, <3>2, LayoutSteps
    <3> QED BY <3>1, <3>2, OnePart
  <2>3. CacheInv'
    <3>1. CASE UNCHANGED cacheVars
      <4>1. UNCHANGED <<glyph_cache, cache_initialized, bitmaps, drawn, leaked, clock>>
        BY <3>1 DEF cacheVars
      <4>2. InUse' = InUse
        BY <4>1 DEF InUse
      <4>3. CacheTypes' /\ CacheKept'
        BY <2>0, <4>1, <4>2 DEF CacheInv, CacheTypes, CacheKept
      <4>4. CacheHoldsCopies'
        BY <2>0, <4>1, Zenon DEF CacheInv, CacheHoldsCopies
      <4> QED BY <4>3, <4>4 DEF CacheInv
    <3>2. CASE GlyphCacheNext
      BY <2>0, <3>2, CacheStep
    <3> QED BY <3>1, <3>2, OnePart
  <2>4. CASE UNCHANGED imageVars
    <3>1. UNCHANGED <<heap_free, images, decoder, astray, blit, png>>
      BY <2>4 DEF imageVars
    <3>2. BlitInv' /\ RowsInv'
      BY <2>0, <3>1 DEF BlitInv, RowsInv
    <3>3. Buffers' = Buffers
      BY <3>1 DEF Buffers
    <3>4. ImagesTypes' /\ DecoderTypes' /\ ThreeApart(heap_free, Buffers, astray)'
      BY <2>0, <3>1, <3>3 DEF PictureInv, ImagesTypes, DecoderTypes, ThreeApart
    <3>5. Shares(images, heap_free \cup Buffers \cup astray)'
      BY <2>0, <3>1, <3>3 DEF PictureInv, Shares, Used
    <3> QED BY <2>1, <2>2, <2>3, <3>2, <3>4, <3>5 DEF DrawnInv, PictureInv
  <2>5. CASE ImagesNext
    <3>1. UNCHANGED <<blit, png>>
      BY Zenon, <2>5 DEF ImagesNext, ReadFile, ImageLoadFromMemory, Decode, Idat, Inflate, Rows, NewImage,
                  ImageGetLogo, ImageFree, Overwritten, WithPixels, Failed, KeepRest
    <3>2. BlitInv' /\ RowsInv'
      BY <2>0, <3>1 DEF BlitInv, RowsInv
    <3> QED BY <2>0, <2>1, <2>2, <2>3, <2>5, <3>2, PictureStep DEF DrawnInv
  <2>6. CASE ColumnsNext \/ RowsNext
    <3>1. UNCHANGED <<heap_free, images, decoder, astray>>
      BY <2>6 DEF ColumnsNext, RowsNext, Blit, PngDecode
    <3>2. BlitInv' /\ RowsInv'
      <4>1. CASE ColumnsNext
        BY <2>0, <4>1 DEF ColumnsNext, Blit, BlitInv, RowsInv
      <4>2. CASE RowsNext
        <5>1. PICK rows \in [1 .. 2 -> RowsOfBytes], f \in 0 .. 4, g \in 0 .. 4 : PngDecode(rows, <<f, g>>)
          BY Zenon, <4>2 DEF RowsNext, RowsOfBytes
        <5>2. png'.rows = rows /\ png'.filters = <<f, g>> /\ blit' = blit
          BY <5>1 DEF PngDecode
        <5> QED BY <2>0, <5>2 DEF BlitInv, RowsInv
      <4> QED BY <2>6, <4>1, <4>2
    <3>3. Buffers' = Buffers
      BY <3>1 DEF Buffers
    <3>4. ImagesTypes' /\ DecoderTypes' /\ ThreeApart(heap_free, Buffers, astray)'
      BY <2>0, <3>1, <3>3 DEF PictureInv, ImagesTypes, DecoderTypes, ThreeApart
    <3>5. Shares(images, heap_free \cup Buffers \cup astray)'
      BY Zenon, <2>0, <3>1, <3>3 DEF PictureInv, Shares, Used
    <3> QED BY <2>1, <2>2, <2>3, <3>2, <3>4, <3>5 DEF DrawnInv, PictureInv
  <2> QED BY <2>4, <2>5, <2>6, OnePart
<1>3. DrawnInv => DrawnAsAsked
  BY TaskbarSafe, LayoutSafe, PictureSafe, ColumnsSafe, RowsSafe DEF DrawnInv, DrawnAsAsked, CacheInv
<1> QED BY <1>1, <1>2, <1>3, PTL DEF Spec

\* While memory lasts a region has what the calls ask for, a region that was

\* only cut has no more, its rectangles never overlap and are inside their box,

\* and clipped drawing writes what it should from inside its source.
THEOREM RegionsExactCorrect == Spec => []RegionsExact
<1>1. Init => RegionInv
  BY RegionStart DEF Init
<1>2. RegionInv /\ [Next]_vars => RegionInv'
  <2> SUFFICES ASSUME RegionInv, [Next]_vars PROVE RegionInv'
    OBVIOUS
  <2>1. CASE UNCHANGED regionVars
    BY <2>1, Zenon DEF regionVars, RegionInv, RegionOk, DrawsClipped
  <2>2. CASE RegionNext
    BY <2>2, RegionStep
  <2> QED BY <2>1, <2>2, OnePart
<1>3. RegionInv => RegionsExact
  <2> SUFFICES ASSUME RegionInv PROVE RegionCovers /\ DrawsClipped
    BY DEF RegionsExact
  <2>1. PICK rects : rects = region.rects
    OBVIOUS
  <2>2. /\ Tiles(rects) /\ Cover(rects) \subseteq Cells(region.box)
        /\ ~failed => wanted \subseteq Cover(rects)
        /\ ~failed /\ exact => wanted = Cover(rects)
    BY <2>1 DEF RegionInv, RegionOk
  <2>3. PICK n \in Nat : n = Len(rects) /\ DOMAIN rects = 1 .. n /\ rects \in Seq(Solid)
    BY <2>2 DEF Tiles
  <2>4. \A i \in 1 .. n : rects[i].w > 0 /\ rects[i].h > 0
    <3> TAKE i \in 1 .. n
    <3>1. PICK r \in Solid : r = rects[i]
      BY <2>3
    <3>2. r.w > 0 /\ r.h > 0
      BY DEF Solid
    <3> QED BY <3>1, <3>2
  <2>5. \A i, j \in 1 .. n : i # j => ~Overlap(rects[i], rects[j])
    <3> TAKE i, j \in 1 .. n
    <3> HAVE i # j
    <3>1. PICK r \in Solid, s \in Solid : r = rects[i] /\ s = rects[j]
      BY <2>3
    <3>2. Cells(r) \cap Cells(s) = {}
      BY <2>2, <2>3, <3>1 DEF Tiles
    <3> QED BY <3>1, <3>2, SolidRects, Apart
  <2>6. RegionCovers
    BY <2>1, <2>2, <2>3, <2>4, <2>5 DEF RegionCovers
  <2> QED BY <2>6 DEF RegionInv
<1> QED BY <1>1, <1>2, <1>3, PTL DEF Spec

\* The focus is marked on the one widget that has it, and what is selected is

\* in its list; a list keeps its items through removing, marking and sorting;

\* a combo box selects exactly when it has items; and a tree leads to every

\* node that is allocated and no other: for all programs, labels, nodes and

\* numbers of items (kernel/widget.c, widget_views.c, widget_tree.c).
THEOREM WidgetsAgreeCorrect == Spec => []WidgetsAgree
<1> DEFINE Inv == ToolkitInv /\ ListInv /\ ComboInv /\ TreeInv
<1>1. Init => Inv
  BY ToolkitStart, ListStart, ComboStart, TreeStart DEF Init
<1>2. Inv /\ [Next]_vars => Inv'
  <2> SUFFICES ASSUME Inv, [Next]_vars PROVE Inv'
    OBVIOUS
  <2>1. ToolkitInv'
    <3>1. CASE UNCHANGED toolkitVars
      BY <3>1, Zenon DEF toolkitVars, ToolkitInv, Widgets
    <3>2. CASE WidgetNext
      BY <3>2, ToolkitStep
    <3> QED BY <3>1, <3>2, OnePart
  <2>2. ListInv'
    <3>1. CASE UNCHANGED listVars
      BY <3>1, Zenon DEF listVars, ListInv, ListIs
    <3>2. CASE ListNext
      BY <3>2, ListStep
    <3> QED BY <3>1, <3>2, OnePart
  <2>3. ComboInv'
    <3>1. CASE UNCHANGED combo
      BY <3>1, Zenon DEF ComboInv
    <3>2. CASE ComboNext
      BY <3>2, ComboStep
    <3> QED BY <3>1, <3>2, OnePart
  <2>4. TreeInv'
    <3>1. CASE UNCHANGED <<tree, live, lost>>
      BY <3>1, Zenon DEF TreeInv, TreeIs
    <3>2. CASE TreeNext
      BY <3>2, TreeStep
    <3> QED BY <3>1, <3>2, OnePart
  <2> QED BY <2>1, <2>2, <2>3, <2>4
<1>3. Inv => WidgetsAgree
  BY ToolkitSafe, ListSafe, ComboSafe, TreeSafe DEF WidgetsAgree
<1> QED BY <1>1, <1>2, <1>3, PTL DEF Spec
=============================================================================
