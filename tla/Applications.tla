---------------------------- MODULE Applications -----------------------------
(***************************************************************************)
(* The programs of the desktop: their timers, their instances and windows, *)
(* and the taskbar that shows them.                                        *)
(***************************************************************************)
EXTENDS Integers, FiniteSets, FiniteSetsExt, Sequences, SequencesExt

(***************************************************************************)
(* Timers for applications (kernel/app_extra.c): a table that a poll walks *)
(* with one reading of the clock, and whose callbacks may call the timer   *)
(* functions themselves.                                                   *)
(***************************************************************************)
CONSTANTS Slots,     \* 1 .. APP_MAX_TIMERS
          Intervals, \* interval_ms / 10, in jiffies
          MaxJiffies \* bound: the clock

ASSUME TimersAssumption == /\ IsFiniteSet(Slots) /\ Slots # {} /\ Slots = 1 .. Cardinality(Slots)
                           /\ Intervals \subseteq Nat

Idle == 0 \* poll.at when no poll runs

VARIABLES timers,  \* slot |-> [active, repeat, interval, next_tick]
          jiffies,
          poll,    \* [at, now, calling] of app_timer_poll_all
          armed,   \* slot |-> deadline its user counts on, of the last timer started (history)
          replaced, \* slots of timers that were started while the poll called theirs (history)
          late     \* slots whose callback ran when it should not (history)

timerVars == <<timers, jiffies, poll, armed, replaced, late>>

NotArmed == -1
Free == {i \in Slots : ~timers[i].active}

TimersInit == /\ timers = [i \in Slots |-> [active |-> FALSE, repeat |-> FALSE, interval |-> 0,
                                            next_tick |-> 0]]
              /\ jiffies = 0 /\ poll = [at |-> Idle, now |-> 0, calling |-> FALSE]
              /\ armed = [i \in Slots |-> NotArmed] /\ replaced = {} /\ late = {}

\* A program calls between polls or from the callback of a poll.
MayCall   == poll.at = Idle \/ poll.calling
InHand(i) == poll.calling /\ poll.at = i

\* The first slot that is not active.  A callback that stopped its own timer
\* may get its own slot: then the poll, on return, ends or moves the new timer.
AppTimerStart(interval, repeat) ==
    /\ MayCall /\ Free # {}
    /\ LET i == Min(Free) IN
       /\ timers' = [timers EXCEPT ![i] = [active |-> TRUE, repeat |-> repeat, interval |-> interval,
                                           next_tick |-> jiffies + interval]]
       /\ armed' = [armed EXCEPT ![i] = jiffies + interval]
       /\ replaced' = IF InHand(i) THEN replaced \cup {i} ELSE replaced \ {i}
    /\ UNCHANGED <<jiffies, poll, late>>

AppTimerStop(i) ==
    /\ MayCall
    /\ timers' = [timers EXCEPT ![i].active = FALSE]
    /\ armed' = [armed EXCEPT ![i] = NotArmed] /\ replaced' = replaced \ {i}
    /\ UNCHANGED <<jiffies, poll, late>>

PollAll == /\ poll.at = Idle
           /\ poll' = [at |-> Min(Slots), now |-> jiffies, calling |-> FALSE]
           /\ UNCHANGED <<timers, jiffies, armed, replaced, late>>

NextSlot(i) == IF i = Max(Slots) THEN Idle ELSE i + 1

\* Mutant of Due: the flag is not looked at.
DueAny(i) == poll.now >= timers[i].next_tick

Due(i) == timers[i].active /\ poll.now >= timers[i].next_tick

\* A slot that is not due is passed over; the callback of one that is begins.
PollSkip == /\ poll.at # Idle /\ ~poll.calling /\ ~Due(poll.at)
            /\ poll' = [poll EXCEPT !.at = NextSlot(@)]
            /\ UNCHANGED <<timers, jiffies, armed, replaced, late>>
PollCall == /\ poll.at # Idle /\ ~poll.calling /\ Due(poll.at)
            /\ poll' = [poll EXCEPT !.calling = TRUE]
            /\ late' = IF armed[poll.at] \in 0 .. jiffies \/ poll.at \in replaced
                       THEN late ELSE late \cup {poll.at}
            /\ armed' = [armed EXCEPT ![poll.at] =
                            IF poll.at \in replaced THEN timers[poll.at].next_tick ELSE @]
            /\ replaced' = replaced \ {poll.at}
            /\ UNCHANGED <<timers, jiffies>>

\* Mutant of AfterCall: a timer that does not repeat stays active.
AfterCallKept(i) == [timers EXCEPT ![i].next_tick = poll.now + timers[i].interval]

\* The slot as it is after the callback, whatever that did to it
AfterCall(i) == IF timers[i].repeat
                THEN [timers EXCEPT ![i].next_tick = poll.now + timers[i].interval]
                ELSE [timers EXCEPT ![i].active = FALSE]

PollReturn ==
    /\ poll.calling
    /\ timers' = AfterCall(poll.at)
    /\ armed' = [armed EXCEPT ![poll.at] =
                    IF poll.at \in replaced THEN @
                    ELSE IF timers[poll.at].repeat /\ timers[poll.at].active
                         THEN poll.now + timers[poll.at].interval ELSE NotArmed]
    /\ poll' = [poll EXCEPT !.at = NextSlot(@), !.calling = FALSE]
    /\ UNCHANGED <<jiffies, replaced, late>>

TimerTick == /\ jiffies < MaxJiffies /\ jiffies' = jiffies + 1
             /\ UNCHANGED <<timers, poll, armed, replaced, late>>

TimersNext == \/ \E n \in Intervals, repeat \in BOOLEAN : AppTimerStart(n, repeat)
              \/ \E i \in Slots : AppTimerStop(i)
              \/ PollAll \/ PollSkip \/ PollCall \/ PollReturn \/ TimerTick

(***************************************************************************)
(* Properties                                                              *)
(***************************************************************************)
\* A timer that its user started and did not stop is in an active slot with its
\* deadline, and its callback runs when it is due and not before, whatever the
\* callbacks of the same poll start and stop - but for a timer that a callback
\* started into its own slot, after it stopped its own timer.  That one the poll,
\* when the callback returns, takes for the timer it called (app_extra.c 381): it
\* is ended before it fired if it does not repeat, and fires by as much too early
\* as the callback took if it does.
TimersRing ==
    /\ late = {}
    /\ \A i \in Slots : armed[i] # NotArmed =>
           IF i \in replaced /\ ~InHand(i)
           THEN timers[i].active = timers[i].repeat /\ timers[i].next_tick <= armed[i]
           ELSE timers[i].active /\ timers[i].next_tick = armed[i]

(***************************************************************************)
(* The registry, the instances and the dispatch of the applications        *)
(* (kernel/app.c), and the graphical shell that launches them              *)
(* (kernel/shell_gui.c).  A window that is destroyed gives its memory      *)
(* back, so the same address may be the window of another program later.   *)
(***************************************************************************)
CONSTANTS Apps,      \* names of app_registry
          Instances, \* indices of app_instances
          Addresses  \* where windows can be

NULL    == "null"
Unknown == "unknown"
Shell   == "shell"
ASSUME AppsAssumption == /\ Instances \subseteq Nat /\ NULL \notin Addresses
                         /\ NULL \notin Apps /\ Shell \notin Apps
NoInstance  == [active |-> FALSE, desc |-> NULL, window |-> NULL]

VARIABLES app_instances, \* index |-> [active, desc, window]
          opened,        \* address of a window |-> the program it was made for
          shown,         \* windows that are visible
          gui,           \* [active, window] of the shell
          served,        \* of the last calls of handlers: <<whose it is, whose window it gets>>
          forgotten      \* windows of the shell to which nothing leads (history)

appVars == <<app_instances, opened, shown, gui, served, forgotten>>

AppsInit == /\ app_instances = [i \in Instances |-> NoInstance]
            /\ opened = [w \in {} |-> NULL] /\ shown = {} /\ served = {} /\ forgotten = {}
            /\ gui = [active |-> FALSE, window |-> NULL]

\* app_find
AppFind(name) == IF name \in Apps THEN name ELSE NULL

FreeSlots == {i \in Instances : ~app_instances[i].active}
Active    == {i \in Instances : app_instances[i].active}

\* wm_create_window takes free memory, wm_destroy_window gives it back.
FreeAddresses == Addresses \ DOMAIN opened
MakeWindow(w, who) == opened' = [v \in DOMAIN opened \cup {w} |-> IF v = w THEN who ELSE opened[v]]
DropWindow(w)      == /\ opened' = [v \in DOMAIN opened \ {w} |-> opened[v]]
                      /\ shown' = shown \ {w}

\* Mutant of OnNoWindow: the slot is taken before the window is there.
OnNoWindowTaken(i, name) == [active |-> TRUE, desc |-> name, window |-> NULL]

\* What is in the slot when no window could be made
OnNoWindow(i, name) == app_instances[i]

AppLaunch(name) ==
    /\ AppFind(name) # NULL /\ FreeSlots # {}
    /\ LET i == Min(FreeSlots) IN
       \/ \E w \in FreeAddresses :
             /\ MakeWindow(w, name) /\ shown' = shown \cup {w}
             /\ app_instances' = [app_instances EXCEPT
                    ![i] = [active |-> TRUE, desc |-> AppFind(name), window |-> w]]
       \/ /\ app_instances' = [app_instances EXCEPT ![i] = OnNoWindow(i, name)]
          /\ UNCHANGED <<opened, shown>>
    /\ UNCHANGED <<gui, served, forgotten>>

\* Mutant of AfterClose: the slot stays active.
AfterCloseKept(i) == app_instances[i]

AfterClose(i) == NoInstance

\* app_close
AppClose(i) ==
    /\ i \in Active
    /\ IF app_instances[i].window = NULL THEN UNCHANGED <<opened, shown>>
       ELSE DropWindow(app_instances[i].window)
    /\ app_instances' = [app_instances EXCEPT ![i] = AfterClose(i)]
    /\ UNCHANGED <<gui, served, forgotten>>

\* "close name": the first instance of that name, whichever was meant.
CloseCommand(name) ==
    LET named == {i \in Active : app_instances[i].desc = name}
    IN  named # {} /\ AppClose(Min(named))

\* app_handle_mouse_click and app_handle_key: the first instance with the window
Owner(w) == {i \in Active : app_instances[i].window = w}
AppHandle(w) ==
    /\ served' = IF Owner(w) = {} THEN {} ELSE {<<app_instances[Min(Owner(w))].desc, opened[w]>>}
    /\ UNCHANGED <<app_instances, opened, shown, gui, forgotten>>

AppPeriodicDraw ==
    /\ served' = {<<app_instances[i].desc, opened[app_instances[i].window]>> :
                     i \in {j \in Active : app_instances[j].window \in shown}}
    /\ UNCHANGED <<app_instances, opened, shown, gui, forgotten>>

\* The window manager hides and shows windows; it destroys none by itself.
WmShowHide(w) == /\ shown' = IF w \in shown THEN shown \ {w} ELSE shown \cup {w}
                 /\ UNCHANGED <<app_instances, opened, gui, served, forgotten>>

\* shell_gui_init: the window of an earlier one is not asked for.
ShellGuiInit ==
    /\ forgotten' = forgotten \cup ({gui.window} \ {NULL})
    /\ \/ \E w \in FreeAddresses : /\ MakeWindow(w, Shell) /\ shown' = shown \cup {w}
                            /\ gui' = [active |-> TRUE, window |-> w]
       \/ gui' = [gui EXCEPT !.window = NULL] /\ UNCHANGED <<opened, shown>>
    /\ UNCHANGED <<app_instances, served>>

ShellGuiToggle == IF gui.active
                  THEN gui' = [gui EXCEPT !.active = FALSE]
                       /\ UNCHANGED <<app_instances, opened, shown, served, forgotten>>
                  ELSE ShellGuiInit

\* "exit" of shell_gui_handle_input
ShellGuiExit == /\ gui' = [active |-> FALSE, window |-> NULL]
                /\ IF gui.window = NULL THEN UNCHANGED <<opened, shown>> ELSE DropWindow(gui.window)
                /\ UNCHANGED <<app_instances, served, forgotten>>

AppsNext == \/ \E name \in Apps \cup {Unknown} : AppLaunch(name) \/ CloseCommand(name)
            \/ \E w \in DOMAIN opened : AppHandle(w) \/ WmShowHide(w)
            \/ AppPeriodicDraw \/ ShellGuiToggle \/ ShellGuiExit

(***************************************************************************)
(* Properties                                                              *)
(***************************************************************************)
\* Over launches that fail, closes and addresses used again: every window
\* belongs to exactly one active instance, to the shell, or is one that the
\* shell forgot; every active instance has a window, made for its program; and
\* no click, key or drawing reaches a program with the window of another.
WindowsHaveOwners ==
    /\ {app_instances[i].window : i \in Active} \cup ({gui.window} \ {NULL}) \cup forgotten = DOMAIN opened
    /\ \A i \in Active : opened[app_instances[i].window] = app_instances[i].desc
    /\ \A i, j \in Active : app_instances[i].window = app_instances[j].window => i = j
    /\ \A s \in served : s[1] = s[2]

(***************************************************************************)
(* The taskbar of the desktop shell (kernel/desktop.c): what               *)
(* desktop_shell_draw_taskbar paints along x, and what                     *)
(* desktop_shell_hit_test says of the same x.                              *)
(***************************************************************************)
CONSTANTS ScreenWidths,
          TaskWindows,   \* windows of wm.window_list, which may be on the taskbar
          Desktop        \* wm.desktop_window

StartX   == 4   \* the start button
StartEnd == 64
FirstBtn == StartEnd + 10
BtnWidth == 120
BtnGap   == 2
ClockX(w) == w - 80

ASSUME TaskbarAssumption == \A w \in ScreenWidths : w \in Nat /\ w > StartEnd

VARIABLES screen_width,
          window_list,     \* the list, from the back
          hidden,          \* windows not WS_VISIBLE, minimised or hidden
          start_menu_open

taskbarVars == <<screen_width, window_list, hidden, start_menu_open>>

TaskbarInit == /\ screen_width \in ScreenWidths
               /\ window_list = <<Desktop>> /\ hidden = {} /\ start_menu_open = FALSE

\* The windows on the taskbar, each with the next button
OnTaskbar == {i \in DOMAIN window_list : window_list[i] \notin hidden /\ window_list[i] # Desktop}
Buttons   == 1 .. Cardinality(OnTaskbar)

\* Mutant of Step: the gap between the buttons is left out of the drawing.
StepClose == BtnWidth

\* How far the drawing goes on after a button
Step == BtnWidth + BtnGap

\* The drawing stops at the first button that does not fit in front of the clock.
DrawnAt(i) == FirstBtn + (i - 1) * Step
Drawn      == {i \in Buttons : DrawnAt(i) + BtnWidth <= ClockX(screen_width) - 10}

\* desktop_shell_hit_test of a point on the taskbar; it tries every window.
HitTest(x) ==
    IF x >= StartX /\ x < StartEnd THEN "START"
    ELSE IF x >= ClockX(screen_width) - 10 THEN "CLOCK"
    ELSE IF \E i \in Buttons :
               LET left == FirstBtn + (i - 1) * (BtnWidth + BtnGap) IN x >= left /\ x < left + BtnWidth
    THEN "WINDOW_BTN" ELSE "TASKBAR"

\* desktop_shell_click: elsewhere, and outside the taskbar, the menu closes.
DesktopShellClick(x, inTaskbar) ==
    /\ start_menu_open' = CASE inTaskbar /\ HitTest(x) = "START" -> ~start_menu_open
                            [] inTaskbar /\ HitTest(x) = "CLOCK" -> start_menu_open
                            [] OTHER -> FALSE
    /\ UNCHANGED <<screen_width, window_list, hidden>>

\* The window manager adds a window at the end, removes it, hides and shows it.
WmList(w) == /\ \/ \E i \in DOMAIN window_list : /\ window_list[i] = w
                                                  /\ window_list' = RemoveAt(window_list, i)
                \/ w \notin ToSet(window_list) /\ window_list' = Append(window_list, w)
             /\ UNCHANGED <<screen_width, hidden, start_menu_open>>
WmState(w) == /\ w \in ToSet(window_list)
              /\ hidden' = IF w \in hidden THEN hidden \ {w} ELSE hidden \cup {w}
              /\ UNCHANGED <<screen_width, window_list, start_menu_open>>

Edges == {0, StartX, StartEnd} \cup {DrawnAt(i) : i \in Buttons}
         \cup {DrawnAt(i) + BtnWidth - 1 : i \in Drawn}
         \cup {ClockX(screen_width) - 10, screen_width - 1}

TaskbarNext == \/ \E w \in TaskWindows : WmList(w) \/ WmState(w)
               \/ \E x \in Edges, inTaskbar \in BOOLEAN : DesktopShellClick(x, inTaskbar)

(***************************************************************************)
(* Properties                                                              *)
(***************************************************************************)
Button(i) == DrawnAt(i) .. DrawnAt(i) + BtnWidth - 1
DrawnEnd  == FirstBtn + Cardinality(Drawn) * (BtnWidth + BtnGap)

\* Drawing and hit test walk the list on their own, with numbers of their own:
\* whatever windows are opened, hidden and closed, every point of a button that
\* is drawn answers as a window button, no point of the gaps does, and the
\* start button and the clock keep theirs.  (Past the last button that fits the
\* hit test goes on: there it answers for buttons that are not drawn.)
DrawnIsHit ==
    /\ \A i \in Drawn : \A x \in Button(i) : HitTest(x) = "WINDOW_BTN"
    /\ \A x \in FirstBtn .. DrawnEnd - 1 : HitTest(x) = "WINDOW_BTN" =>
           \E i \in Drawn : x \in Button(i)
    /\ HitTest(StartX) = "START" /\ HitTest(screen_width - 1) = "CLOCK"
=============================================================================
