---------------------------- MODULE WindowManager ----------------------------
(***************************************************************************)
(* kernel/window.c: the window list, window states, focus and hit-testing. *)
(*                                                                         *)
(* Windows are named by their ids, which next_id hands out and nobody      *)
(* reuses.  The list is modelled as the pointers it is made of, because    *)
(* kernel/virtual_desktop.c uses the same next field: a list cell is the   *)
(* head of a list or the next field of a window, and cell[c] is what it    *)
(* points to.  The area of a window is the set of screen cells it covers,  *)
(* decorations included.                                                   *)
(*                                                                         *)
(* focused_window changes with active_window and is left out, and so are   *)
(* dirty_region and drag_window, which nothing reads.  A call is one step: *)
(* the list is changed under wm_lock and only the shell calls.  Next is in *)
(* module Desktops, with the actions that follow the lists.                *)
(***************************************************************************)
EXTENDS Integers, FiniteSets

CONSTANTS
    MaxIds,     \* bound: windows ever created
    MaxWindows, \* MAX_WINDOWS
    Desktops,   \* MAX_VIRTUAL_DESKTOPS: heads of lists besides window_list
    Screen,     \* the cells of the screen
    Work,       \* those above the taskbar
    Rects       \* areas windows are created with, moved and resized to

ASSUME WMAssumption ==
    /\ MaxIds \in Nat \ {0} /\ MaxWindows \in Nat \ {0} /\ Desktops \in Nat
    /\ Work \in SUBSET Screen /\ Rects \subseteq SUBSET Screen

VARIABLES
    cell,       \* list heads and next fields
    lastId,     \* next_id - 1
    count,      \* window_count
    live,       \* windows created and not destroyed
    user,       \* those of them that applications hold, not session desktops
    z,          \* z_order
    state,
    visible,    \* WS_VISIBLE in flags
    marked,     \* WF_ACTIVE in flags
    backed,     \* framebuffer is not NULL
    area, saved,
    active      \* active_window

winVars == <<live, user, z, state, visible, marked, backed, area, saved>>
wmVars == <<cell, lastId, count, active, winVars>>

NULL == 0
WM == -1                    \* the cell of wm.window_list
VD(i) == -2 - i             \* the cell of desktops[i].windows
Ids == 1 .. MaxIds
Cells == (-1 - Desktops .. -1) \cup Ids
DESKTOP == 0
NORMAL == 1000
States == {"NORMAL", "MINIMIZED", "MAXIMIZED", "HIDDEN"}

-----------------------------------------------------------------------------
(* Lists.  Walk(n, c) is the cells the pointer pp visits from the head c,   *)
(* NULL behind the last.                                                    *)
Walk(n, c) ==
    LET at[k \in 0 .. MaxIds + 1] ==
          IF k = 0 THEN c ELSE IF at[k - 1] = NULL THEN NULL ELSE n[at[k - 1]]
    IN  at

Ends(n, c) == Walk(n, c)[MaxIds + 1] = NULL
Members(n, c) == {Walk(n, c)[k] : k \in 1 .. MaxIds + 1} \ {NULL}

\* The first position k of pp at which the loop stops for Test.
StopsAt(n, c, Test(_), k) ==
    LET at == Walk(n, c) IN
    /\ at[k] # NULL /\ Test(n[at[k]])
    /\ \A j \in 0 .. k - 1 : ~Test(n[at[j]])

Unlinked(n, c, w) ==
    LET Found(e) == e = w IN
    IF \E k \in 0 .. MaxIds : StopsAt(n, c, Found, k)
      THEN LET k == CHOOSE k \in 0 .. MaxIds : StopsAt(n, c, Found, k)
           IN  [n EXCEPT ![Walk(n, c)[k]] = n[w]]
      ELSE n

\* Mutant of IsHigher: a window goes below those of its z-order.
IsNotLower(zs, e, w) == zs[e] >= zs[w]
IsHigher(zs, e, w) == zs[e] > zs[w]

\* In front of all windows of a z-order up to that of w.  A list that loops keeps
\* the caller for ever: it stays as it is.
Inserted(n, c, zs, w) ==
    LET Higher(e) == e = NULL \/ IsHigher(zs, e, w) IN
    IF \E k \in 0 .. MaxIds : StopsAt(n, c, Higher, k)
      THEN LET k == CHOOSE k \in 0 .. MaxIds : StopsAt(n, c, Higher, k)
               p == Walk(n, c)[k]
           IN  [n EXCEPT ![p] = w, ![w] = n[p]]
      ELSE n

\* Mutant of Raised: the window is not unlinked first.
RaisedTwice(n, w) == Inserted(n, WM, z, w)
Raised(n, w) == Inserted(Unlinked(n, WM, w), WM, z, w)

-----------------------------------------------------------------------------
(* wm_init: the desktop window is the first.                                *)
Init ==
    /\ cell = [c \in Cells |-> IF c = WM THEN 1 ELSE NULL]
    /\ lastId = 1 /\ count = 1 /\ live = {1} /\ user = {} /\ active = NULL
    /\ z = [w \in Ids |-> IF w = 1 THEN DESKTOP ELSE NORMAL]
    /\ state = [w \in Ids |-> "NORMAL"]
    /\ visible = [w \in Ids |-> FALSE]
    /\ marked = [w \in Ids |-> FALSE]
    /\ backed = [w \in Ids |-> w = 1]
    /\ area = [w \in Ids |-> Screen]
    /\ saved = [w \in Ids |-> {}]

\* zLater: a z_order its caller gives the window after it is in the list.
CreateWindow(r, fb, zLater) ==
    LET w == lastId + 1 IN
    /\ count < MaxWindows /\ lastId < MaxIds
    /\ lastId' = w /\ count' = count + 1 /\ live' = live \cup {w}
    /\ cell' = Inserted(cell, WM, z, w)
    /\ z' = [z EXCEPT ![w] = zLater]
    /\ area' = [area EXCEPT ![w] = r]
    /\ backed' = [backed EXCEPT ![w] = fb]
    /\ UNCHANGED <<state, visible, marked, saved, active>>

(* app_launch, shell_gui_start and the test commands of the shell.          *)
CreateUserWindow(r, fb) == CreateWindow(r, fb, NORMAL) /\ user' = user \cup {lastId + 1}

(* login_create_session: a desktop of its own, which nobody shows.          *)
CreateSessionDesktop == CreateWindow(Screen, TRUE, DESKTOP) /\ UNCHANGED user

Enter(w, s, v) == state' = [state EXCEPT ![w] = s] /\ visible' = [visible EXCEPT ![w] = v]

\* Mutant of ActiveAfter: the destroyed window stays the active one.
ActiveKept(w) == active
ActiveAfter(w) == IF active = w THEN NULL ELSE active

\* The memory is not freed, and a desktop's list may still lead to it, but
\* nothing but next and z_order is read of it there.
DestroyWindow(w) ==
    /\ cell' = Unlinked(cell, WM, w)
    /\ active' = ActiveAfter(w)
    /\ count' = count - 1
    /\ live' = live \ {w} /\ user' = user \ {w}
    /\ Enter(w, "NORMAL", FALSE)
    /\ marked' = [marked EXCEPT ![w] = FALSE]
    /\ backed' = [backed EXCEPT ![w] = FALSE]
    /\ area' = [area EXCEPT ![w] = Screen]
    /\ saved' = [saved EXCEPT ![w] = {}]
    /\ UNCHANGED <<lastId, z>>

-----------------------------------------------------------------------------
(* Window states.                                                           *)
ShowWindow(w) ==
    /\ Enter(w, "NORMAL", TRUE)
    /\ cell' = Raised(cell, w)
    /\ UNCHANGED <<lastId, count, live, user, z, marked, backed, area, saved, active>>

Conceal(w, s) ==
    /\ Enter(w, s, FALSE)
    /\ UNCHANGED <<cell, lastId, count, live, user, z, marked, backed, area, saved, active>>

HideWindow(w) == Conceal(w, "HIDDEN")
MinimizeWindow(w) == Conceal(w, "MINIMIZED")

MaximizeWindow(w) ==
    /\ state[w] # "MAXIMIZED"
    /\ state' = [state EXCEPT ![w] = "MAXIMIZED"]
    /\ saved' = [saved EXCEPT ![w] = area[w]]
    /\ area' = [area EXCEPT ![w] = Work]
    /\ UNCHANGED <<cell, lastId, count, live, user, z, visible, marked, backed, active>>

RestoreWindow(w) ==
    /\ Enter(w, "NORMAL", TRUE)
    /\ area' = IF state[w] = "MAXIMIZED" /\ saved[w] # {}
                 THEN [area EXCEPT ![w] = saved[w]] ELSE area
    /\ UNCHANGED <<cell, lastId, count, live, user, z, marked, backed, saved, active>>

(* wm_move_window and wm_resize_window.                                     *)
PlaceWindow(w, r) ==
    /\ state[w] # "MAXIMIZED"
    /\ area' = [area EXCEPT ![w] = r]
    /\ UNCHANGED <<cell, lastId, count, live, user, z, state, visible, marked, backed, saved, active>>

SetActiveWindow(w) ==
    /\ active # w
    /\ marked' = [v \in Ids |-> IF v = active THEN FALSE ELSE marked[v] \/ v = w]
    /\ active' = w
    /\ cell' = Raised(cell, w)
    /\ UNCHANGED <<lastId, count, live, user, z, state, visible, backed, area, saved>>

RaiseWindow(w) ==
    /\ cell' = Raised(cell, w)
    /\ UNCHANGED <<lastId, count, active, winVars>>

LowerWindow(w) ==
    /\ LET n == Unlinked(cell, WM, w) IN cell' = [n EXCEPT ![WM] = w, ![w] = n[WM]]
    /\ UNCHANGED <<lastId, count, active, winVars>>

WMNext ==
    \/ \E r \in Rects, fb \in BOOLEAN : CreateUserWindow(r, fb)
    \/ CreateSessionDesktop
    \/ \E w \in live \ {1} : DestroyWindow(w)
    \/ \E w \in user :
         \/ ShowWindow(w) \/ HideWindow(w) \/ MinimizeWindow(w)
         \/ MaximizeWindow(w) \/ RestoreWindow(w)
         \/ \E r \in Rects : PlaceWindow(w, r)
         \/ SetActiveWindow(w) \/ RaiseWindow(w) \/ LowerWindow(w)

-----------------------------------------------------------------------------
(* wm_find_window_at: the last of the list that is shown there.             *)
Shown(w) == visible[w] /\ state[w] \notin {"MINIMIZED", "HIDDEN"}
Place(w) == CHOOSE k \in 1 .. MaxIds + 1 : Walk(cell, WM)[k] = w
Above(v, w) == Place(v) > Place(w)
TopOf(S) == {w \in S : \A v \in S \ {w} : Above(w, v)}
FindWindowAt(c) == TopOf({w \in Members(cell, WM) : Shown(w) /\ c \in area[w]})
=============================================================================
