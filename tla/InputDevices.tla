---------------------------- MODULE InputDevices -----------------------------
(***************************************************************************)
(* The input devices: what is made of their reports, and the rings of the  *)
(* VirtIO device they come by.                                             *)
(***************************************************************************)
EXTENDS Integers, Sequences, SequencesExt

(***************************************************************************)
(* kernel/input_event.c: keyboard and mouse state, and the events they     *)
(* report to registered handlers.  A handler keeps what it gets in an      *)
(* event buffer, which drops the newest event when it is full.  The        *)
(* default handler of the file is not among them: it is registered before  *)
(* the subsystem is initialized, and refused.                              *)
(***************************************************************************)
CONSTANTS Keys,        \* key codes that are not modifiers
          ModKeys,     \* those that are
          CapsKey,     \* KEY_CAPSLOCK
          Handlers,    \* handlers that clients register
          Wants(_),    \* handler -> event types of its evbit
          BufferSize,  \* INPUT_EVENT_BUFFER_SIZE
          CountMod,    \* head and tail count modulo this (2^32), a multiple of BufferSize
          IntMod,      \* int32 and uint32 count modulo this (2^32)
          Moves,       \* distances of a mouse movement
          Threshold, AccelNum, AccelDen,
          Screens      \* screen widths

ASSUME InputAssumption ==
    /\ {BufferSize, CountMod, IntMod, Threshold, AccelNum, AccelDen} \subseteq Nat
    /\ BufferSize > 0 /\ CountMod > BufferSize /\ CountMod % BufferSize = 0
    /\ IntMod > 0 /\ IntMod % 2 = 0
    /\ Screens \subseteq 1 .. IntMod \div 2 - 1 /\ Moves \subseteq Int
    /\ IsFiniteSet(ModKeys)

VARIABLES handlers,  \* registered handlers
          buffers,   \* handler -> [events, head, tail]
          key_state, \* keys that are down
          modifiers, \* modifier keys held, and CapsKey while caps lock is on
          mouse,     \* [x, screen, pressed]: one axis and one button; the others are alike
          told,      \* key -> last press or release reported (history)
          strays,    \* modifiers repeated while up and not called for since (history)
          accepted   \* handler -> events taken and not yet read (history)

inputVars == <<handlers, buffers, key_state, modifiers, mouse, told, strays, accepted>>

AllKeys == Keys \cup ModKeys \cup {CapsKey}
NoEvent == [type |-> "none", code |-> "none", value |-> 0]

(***************************************************************************)
(* Event buffers                                                           *)
(***************************************************************************)
Available(b) == (b.head - b.tail) % CountMod

\* Mutant of BufferFull: room is seen for one event too many.
BufferFullLate(b) == Available(b) > BufferSize

BufferFull(b) == Available(b) >= BufferSize

Written(b, e) == [b EXCEPT !.events[b.head % BufferSize] = e, !.head = (@ + 1) % CountMod]

\* input_event_read by the handler's client.
InputEventRead(h) ==
    /\ Available(buffers[h]) # 0
    /\ buffers' = [buffers EXCEPT ![h].tail = (@ + 1) % CountMod]
    /\ accepted' = [accepted EXCEPT ![h] = Tail(@)]
    /\ UNCHANGED <<handlers, key_state, modifiers, mouse, told, strays>>

\* input_report_event: to every registered handler that wants the type.  queues is
\* [buffers, accepted].
Taker(q, h, e) == h \in handlers /\ e.type \in Wants(h) /\ ~BufferFull(q.buffers[h])

Reported(q, e) ==
    [buffers |-> [h \in Handlers |->
        IF Taker(q, h, e) THEN Written(q.buffers[h], e) ELSE q.buffers[h]],
     accepted |-> [h \in Handlers |->
        IF Taker(q, h, e) THEN Append(q.accepted[h], e) ELSE q.accepted[h]]]

Queues == [buffers |-> buffers, accepted |-> accepted]
SetQueues(q) == buffers' = q.buffers /\ accepted' = q.accepted

Syn == [type |-> "syn", code |-> "report", value |-> 0]

InputRegisterHandler(h) ==
    /\ h \notin handlers
    /\ handlers' = handlers \cup {h}
    /\ UNCHANGED <<buffers, key_state, modifiers, mouse, told, strays, accepted>>

InputUnregisterHandler(h) ==
    /\ handlers' = handlers \ {h}
    /\ UNCHANGED <<buffers, key_state, modifiers, mouse, told, strays, accepted>>

InputSyncDevice ==
    /\ SetQueues(Reported(Queues, Syn))
    /\ UNCHANGED <<handlers, key_state, modifiers, mouse, told, strays>>

(***************************************************************************)
(* Keyboard: value 0 is a release, 1 a press, 2 a repeat, which the code   *)
(* takes of a key that is not down too.  A call maps a keyboard            *)
(* [keys, mods, told, strays, queues] to the next one.                     *)
(***************************************************************************)
DownAfter(keys, k, v) == IF v = 1 THEN keys \cup {k} ELSE IF v = 0 THEN keys \ {k} ELSE keys

ModifiersAfter(mods, k, v) ==
    IF k \in ModKeys THEN IF v = 0 THEN mods \ {k} ELSE mods \cup {k}
    ELSE IF k = CapsKey /\ v = 1
         THEN IF CapsKey \in mods THEN mods \ {CapsKey} ELSE mods \cup {CapsKey}
    ELSE mods

\* Mutant of Reportable: the release of a modifier is not reported.
ReportablePress(keys, k, v) == v # 0 \/ k \notin ModKeys

\* Only a change is reported, and every repeat.
Reportable(keys, k, v) == DownAfter(keys, k, v) # keys \/ v = 2

KeyReported(kbd, k, v) ==
    LET tell == Reportable(kbd.keys, k, v)
    IN [keys |-> DownAfter(kbd.keys, k, v), mods |-> ModifiersAfter(kbd.mods, k, v),
        told |-> IF tell /\ v # 2 THEN [kbd.told EXCEPT ![k] = v] ELSE kbd.told,
        strays |-> IF v = 2 /\ k \in ModKeys \ kbd.keys THEN kbd.strays \cup {k}
                   ELSE kbd.strays \ {k},
        queues |-> IF tell THEN Reported(kbd.queues, [type |-> "key", code |-> k, value |-> v])
                   ELSE kbd.queues]

Keyboard == [keys |-> key_state, mods |-> modifiers, told |-> told, strays |-> strays,
             queues |-> Queues]
SetKeyboard(kbd) == /\ key_state' = kbd.keys /\ modifiers' = kbd.mods /\ told' = kbd.told
                    /\ strays' = kbd.strays /\ SetQueues(kbd.queues)

KeyboardReportKey(k, v) ==
    /\ SetKeyboard(KeyReported(Keyboard, k, v))
    /\ UNCHANGED <<handlers, mouse>>

\* A HID report: every modifier is pressed or released, the keys in the report are
\* pressed, none is released.
ModifierKeys == SetToSeq(ModKeys)

HidKeyboardReport(mods, keys) ==
    LET Modifier(kbd, k) == KeyReported(kbd, k, IF k \in mods THEN 1 ELSE 0)
        Press(kbd, k)    == KeyReported(kbd, k, 1)
        reported == FoldLeft(Press, FoldLeft(Modifier, Keyboard, ModifierKeys), keys)
    IN /\ SetKeyboard([reported EXCEPT !.queues = Reported(@, Syn)])
       /\ UNCHANGED <<handlers, mouse>>

(***************************************************************************)
(* Mouse                                                                   *)
(***************************************************************************)
\* The factors are uint32, so the product and the quotient are computed without sign:
\* a fast movement to the left comes out as a long one to the right.
AsInt(n) == IF n % IntMod < IntMod \div 2 THEN n % IntMod ELSE (n % IntMod) - IntMod

Accelerated(d) == IF AccelNum > 0 /\ AccelDen > 0 /\ (d > Threshold \/ d < -Threshold)
                  THEN AsInt(((d * AccelNum) % IntMod) \div AccelDen) ELSE d

Clamped(x, screen) == IF x < 0 THEN 0 ELSE IF x >= screen THEN screen - 1 ELSE x

MouseReportMovement(d) ==
    /\ mouse' = [mouse EXCEPT !.x = Clamped(AsInt(mouse.x + Accelerated(d)), mouse.screen)]
    /\ SetQueues(Reported(Queues, [type |-> "rel", code |-> "x", value |-> Accelerated(d)]))
    /\ UNCHANGED <<handlers, key_state, modifiers, told, strays>>

MouseReportButton(v) ==
    /\ mouse' = [mouse EXCEPT !.pressed = v]
    /\ SetQueues(Reported(Queues, [type |-> "key", code |-> "button", value |-> v]))
    /\ UNCHANGED <<handlers, key_state, modifiers, told, strays>>

\* Mutant of WithBounds: the position is not clamped to the new size.
WithBoundsOnly(w) == [mouse EXCEPT !.screen = w]

WithBounds(w) == [mouse EXCEPT !.x = IF @ >= w THEN w - 1 ELSE @, !.screen = w]

MouseSetBounds(w) ==
    /\ mouse' = WithBounds(w)
    /\ UNCHANGED <<handlers, buffers, key_state, modifiers, told, strays, accepted>>

InputInit ==
    /\ handlers = {}
    /\ buffers = [h \in Handlers |->
                    [events |-> [i \in 0 .. BufferSize - 1 |-> NoEvent], head |-> 0, tail |-> 0]]
    /\ key_state = {} /\ modifiers = {}
    /\ \E w \in Screens : mouse = [x |-> 0, screen |-> w, pressed |-> 0]
    /\ told = [k \in AllKeys |-> 0] /\ strays = {}
    /\ accepted = [h \in Handlers |-> <<>>]

ClientCalls ==
    \/ \E h \in Handlers : InputRegisterHandler(h) \/ InputUnregisterHandler(h) \/ InputEventRead(h)
    \/ InputSyncDevice

KeyboardCalls ==
    \/ \E k \in AllKeys, v \in 0 .. 2 : KeyboardReportKey(k, v)
    \/ \E mods \in SUBSET ModKeys, k \in Keys : HidKeyboardReport(mods, <<k>>)

MouseCalls ==
    \/ \E d \in Moves : MouseReportMovement(d)
    \/ \E v \in {0, 1} : MouseReportButton(v)
    \/ \E w \in Screens : MouseSetBounds(w)
-----------------------------------------------------------------------------
\* A buffer holds the events it accepted and nobody read, in order, across full
\* buffers and the wrap of its counters.
BufferIsQueue ==
    \A h \in Handlers :
        LET b == buffers[h]
        IN  /\ Len(accepted[h]) = Available(b)
            /\ \A i \in 1 .. Len(accepted[h]) :
                  accepted[h][i] = b.events[((b.tail + i - 1) % CountMod) % BufferSize]

\* Whoever follows the reported presses and releases knows which keys are down, and
\* the modifiers held are the modifier keys that are down, however presses, releases
\* and repeats of several keys mix; a repeat of a modifier that is not down makes it
\* held without being down, until it is pressed or released.
ReportsFollowKeys ==
    /\ \A k \in AllKeys : told[k] = 1 <=> k \in key_state
    /\ modifiers \cap ModKeys = (key_state \cap ModKeys) \cup strays
    /\ strays \cap key_state = {}

\* The pointer stays on the screen when it moves and when the screen shrinks.
PointerOnScreen == mouse.x \in 0 .. mouse.screen - 1

(***************************************************************************)
(* The event queue of kernel/virtio_input.c: descriptors go round between  *)
(* the driver's available ring and the device's used ring.  A caller takes *)
(* events with virtio_input_poll, which runs them through the input layer, *)
(* or with virtio_input_get_event; both go through the same statements,    *)
(* neither takes a lock, and each statement is a step.  A call that looks  *)
(* while another is between its statements finds the event that one has    *)
(* not counted yet: overlapped records it.                                 *)
(***************************************************************************)
CONSTANTS QueueSize, \* of the event queue, at most 16
          RingMod,   \* ring indices count modulo this (2^16), a multiple of QueueSize
          HidEvents, \* events of the device
          Takers     \* threads and interrupt handlers that take events

ASSUME VirtioAssumption == /\ {QueueSize, RingMod} \subseteq Nat \ {0}
                           /\ RingMod > QueueSize /\ RingMod % QueueSize = 0

VARIABLES avail, avail_idx, \* ring of descriptors for the device
          seen_idx,         \* how far the device has taken them
          ring_used, used_idx, \* ring of descriptors with an event
          last_used_idx,    \* how far the driver has counted them
          event_buffers,    \* descriptor -> event
          at,               \* taker -> statement it is behind, or "out"
          desc_id,          \* taker -> descriptor it works on, or NoDesc
          given,            \* events the device gave and nobody took (history)
          overlapped        \* a taker looked while another was at work (history)

virtioVars == <<avail, avail_idx, seen_idx, ring_used, used_idx, last_used_idx, event_buffers, at, desc_id,
                given, overlapped>>

Descs   == 0 .. QueueSize - 1
NoDesc  == QueueSize
NoInput == "none"
HasEvent == last_used_idx # used_idx
Goes(t, from, to) == at[t] = from /\ at' = [at EXCEPT ![t] = to]
Busy == {t \in Takers : at[t] # "out"}

\* The history ends where calls overlap.
Kept(events) == IF overlapped THEN <<>> ELSE events

\* The device fills the next available descriptor.
DeviceEvent(e) ==
    /\ seen_idx # avail_idx
    /\ LET d == avail[seen_idx % QueueSize]
       IN /\ event_buffers' = [event_buffers EXCEPT ![d] = e]
          /\ ring_used' = [ring_used EXCEPT ![used_idx % QueueSize] = d]
    /\ seen_idx' = (seen_idx + 1) % RingMod
    /\ used_idx' = (used_idx + 1) % RingMod
    /\ given' = Kept(Append(given, e))
    /\ UNCHANGED <<avail, avail_idx, last_used_idx, at, desc_id, overlapped>>

NextUsed == ring_used[last_used_idx % QueueSize]

\* A taker finds a used descriptor ...
PollLook(t) ==
    /\ HasEvent
    /\ Goes(t, "out", "looked")
    /\ desc_id' = [desc_id EXCEPT ![t] = NextUsed]
    /\ overlapped' = (overlapped \/ Busy # {})
    /\ given' = IF Busy = {} THEN given ELSE <<>>
    /\ UNCHANGED <<avail, avail_idx, seen_idx, ring_used, used_idx, last_used_idx, event_buffers>>

\* ... hands its event on, or copies it ...
PollTake(t) ==
    /\ Goes(t, "looked", "taken")
    /\ given' = Kept(Tail(given))
    /\ UNCHANGED <<avail, avail_idx, seen_idx, ring_used, used_idx, last_used_idx, event_buffers, desc_id,
                   overlapped>>

\* Mutant of Returned: the descriptor goes where the next used one came from.
ReturnedAtUsed(d) == [avail EXCEPT ![(last_used_idx + 1) % QueueSize] = d]

\* The available ring with descriptor d behind the last one.
Returned(d) == [avail EXCEPT ![avail_idx % QueueSize] = d]

\* ... writes the descriptor to the available ring ...
PollStore(t) ==
    /\ Goes(t, "taken", "stored")
    /\ avail' = Returned(desc_id[t])
    /\ UNCHANGED <<avail_idx, seen_idx, ring_used, used_idx, last_used_idx, event_buffers, desc_id, given,
                   overlapped>>

\* ... lets the device see it, which may fill it and find the used ring one longer
\* than the queue ...
PollPublish(t) ==
    /\ Goes(t, "stored", "published")
    /\ avail_idx' = (avail_idx + 1) % RingMod
    /\ UNCHANGED <<avail, seen_idx, ring_used, used_idx, last_used_idx, event_buffers, desc_id, given,
                   overlapped>>

\* ... and counts it.
PollCount(t) ==
    /\ Goes(t, "published", "out")
    /\ last_used_idx' = (last_used_idx + 1) % RingMod
    /\ desc_id' = [desc_id EXCEPT ![t] = NoDesc]
    /\ UNCHANGED <<avail, avail_idx, seen_idx, ring_used, used_idx, event_buffers, given, overlapped>>

VirtioInputInit ==
    /\ avail = [i \in Descs |-> i] /\ avail_idx = QueueSize % RingMod
    /\ seen_idx = 0
    /\ ring_used = [i \in Descs |-> 0] /\ used_idx = 0 /\ last_used_idx = 0
    /\ event_buffers = [d \in Descs |-> NoInput]
    /\ at = [t \in Takers |-> "out"] /\ desc_id = [t \in Takers |-> NoDesc]
    /\ given = <<>> /\ overlapped = FALSE

VirtioInputNext ==
    \/ \E e \in HidEvents : DeviceEvent(e)
    \/ \E t \in Takers : PollLook(t) \/ PollTake(t) \/ PollStore(t) \/ PollPublish(t) \/ PollCount(t)
-----------------------------------------------------------------------------
Published   == \E t \in Takers : at[t] = "published"
Taken       == \E t \in Takers : at[t] \in {"taken", "stored"}

\* How far the driver is: a published descriptor is used up before it is counted.
Consumed    == (last_used_idx + IF Published THEN 1 ELSE 0) % RingMod
Outstanding == (used_idx - Consumed) % RingMod
Offered     == (avail_idx - seen_idx) % RingMod
UsedAt(i)   == ring_used[((Consumed + i) % RingMod) % QueueSize]
AvailAt(i)  == avail[((seen_idx + i) % RingMod) % QueueSize]

\* As long as no two calls overlap, what the driver takes is what the device gave, in
\* that order, across the wrap of the indices, with the device at work between any two
\* statements of the call.  (Of calls that do overlap both take the same event, and the
\* second to count skips one that nobody took.)
EventsInOrder ==
    LET read == IF Taken THEN 1 ELSE 0
    IN ~overlapped =>
         /\ Len(given) = Outstanding - read
         /\ \A i \in 1 .. Len(given) : given[i] = event_buffers[UsedAt(i - 1 + read)]

\* ... and a descriptor is offered to the device or holds an event not yet used up, and
\* never both: none is lost to the rings and none is filled while it is read.
DescsOnce ==
    ~overlapped =>
      /\ Offered + Outstanding = QueueSize
      /\ {AvailAt(i) : i \in 0 .. Offered - 1} \cup {UsedAt(i) : i \in 0 .. Outstanding - 1} = Descs
      /\ \A t \in Takers : at[t] \in {"looked", "taken", "stored"} => desc_id[t] = UsedAt(0)
=============================================================================
