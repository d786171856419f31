--------------------------- MODULE VirtualDesktops ---------------------------
(***************************************************************************)
(* kernel/virtual_desktop.c: the desktops and the lists of windows moved   *)
(* to them.  A list runs over the next fields that the window manager's    *)
(* list runs over too.  Names, colours and wallpapers are left out.        *)
(***************************************************************************)
EXTENDS WindowManager

CONSTANTS MaxMoves      \* bound: calls of vd_move_window_to

ASSUME VDAssumption == MaxMoves \in Nat

VARIABLES
    num,        \* num_desktops
    current,    \* current_desktop
    shown,      \* active of every desktop
    moves,      \* history: how often vd_move_window_to changed next fields
    strayed     \* history: a desktop before the current one has been closed

vdVars == <<num, current, shown, moves, strayed>>

Slots == 0 .. Desktops - 1
InUse == 0 .. num - 1

(* vd_init(n), which runs before any window but the desktop's exists.       *)
VdInit(n) ==
    /\ num = n /\ current = 0 /\ moves = 0 /\ strayed = FALSE
    /\ shown = [d \in Slots |-> d = 0]

\* Mutant of VdSwitch: the desktop that is left stays marked.
VdSwitchKept(d) ==
    /\ d # current
    /\ shown' = [shown EXCEPT ![d] = TRUE]
    /\ current' = d
    /\ UNCHANGED <<wmVars, num, moves, strayed>>

VdSwitch(d) ==
    /\ d # current
    /\ shown' = [shown EXCEPT ![current] = FALSE, ![d] = TRUE]
    /\ current' = d
    /\ UNCHANGED <<wmVars, num, moves, strayed>>

VdNext == VdSwitch(IF current + 1 >= num THEN 0 ELSE current + 1)
VdPrev == VdSwitch(IF current - 1 < 0 THEN num - 1 ELSE current - 1)

VdCreate ==
    /\ num < Desktops
    /\ shown' = [shown EXCEPT ![num] = FALSE]
    /\ cell' = [cell EXCEPT ![VD(num)] = NULL]
    /\ num' = num + 1
    /\ UNCHANGED <<lastId, count, active, winVars, current, moves, strayed>>

-----------------------------------------------------------------------------
(* vd_close.                                                                *)
LastOf(n, c) ==
    LET at == Walk(n, c)
        k == CHOOSE k \in 1 .. MaxIds : at[k] # NULL /\ at[k + 1] = NULL
    IN  at[k]

\* Mutant of Appended: the list of desktop 0 is overwritten, not appended.
Overwritten(n, d) == IF n[VD(d)] = NULL THEN n ELSE [n EXCEPT ![VD(0)] = n[VD(d)], ![VD(d)] = NULL]
Appended(n, d) ==
    IF n[VD(d)] = NULL THEN n
    ELSE [n EXCEPT ![LastOf(n, VD(d))] = n[VD(0)], ![VD(0)] = n[VD(d)], ![VD(d)] = NULL]

\* Mutant of ShiftedDown: the first slot to move stays.
ShiftedLate(n, d) ==
    [c \in Cells |-> IF \E i \in d + 1 .. num - 2 : c = VD(i) THEN n[c - 1] ELSE n[c]]

\* The slots above d move down, the last keeps what it has.
ShiftedDown(n, d) ==
    [c \in Cells |-> IF \E i \in d .. num - 2 : c = VD(i) THEN n[c - 1] ELSE n[c]]

\* Mutant of CurrentAfter: the index is not brought back into range.
CurrentKept(n) == current
\* Desktop 0 is switched to where the index is out of range, whichever was closed.
CurrentAfter(n) == IF current >= n THEN 0 ELSE current

\* Mutant of Activated: the flags are shifted only.
NotActivated(f, d) == f
Activated(f, d) == [f EXCEPT ![d] = TRUE]

VdClose(d) ==
    /\ d > 0
    /\ cell' = ShiftedDown(Appended(cell, d), d)
    /\ num' = num - 1
    /\ current' = CurrentAfter(num - 1)
    /\ shown' = Activated([i \in Slots |-> IF i \in d .. num - 2 THEN shown[i + 1] ELSE shown[i]],
                          CurrentAfter(num - 1))
    /\ strayed' = (strayed \/ d < current)
    /\ UNCHANGED <<lastId, count, active, winVars, moves>>

-----------------------------------------------------------------------------
(* vd_move_window_to: out of every desktop's list, in at the head of one.   *)
(* Where that made the window list a loop, wm_show_window would not return. *)
OffDesktops(n, w) ==
    LET after[i \in 0 .. num] == IF i = 0 THEN n ELSE Unlinked(after[i - 1], VD(i - 1), w)
    IN  after[num]

MovedTo(n, w, d) ==
    LET m == OffDesktops(n, w) IN [m EXCEPT ![w] = m[VD(d)], ![VD(d)] = w]

VdMoveWindowTo(w, d) ==
    LET m == MovedTo(cell, w, d) IN
    /\ IF d = current THEN /\ Enter(w, "NORMAL", TRUE)
                           /\ Ends(m, WM)
                           /\ cell' = Raised(m, w)
                      ELSE Enter(w, "HIDDEN", FALSE) /\ cell' = m
    /\ moves < MaxMoves /\ moves' = moves + 1
    /\ UNCHANGED <<lastId, count, live, user, z, marked, backed, area, saved, active>>
    /\ UNCHANGED <<num, current, shown, strayed>>

VdMoveActiveWindowTo(d) == active # NULL /\ VdMoveWindowTo(active, d)

VDNext ==
    \/ \E d \in InUse : VdSwitch(d) \/ VdClose(d)
    \/ VdNext \/ VdPrev \/ VdCreate
    \/ \E w \in user, d \in InUse : VdMoveWindowTo(w, d)
    \/ \E d \in InUse : VdMoveActiveWindowTo(d)
=============================================================================
