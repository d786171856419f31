------------------------------ MODULE Desktops ------------------------------
(***************************************************************************)
(* The windowing system: window manager, virtual desktops and what         *)
(* kernel/compositor.c paints of them.                                     *)
(*                                                                         *)
(* The compositor keeps no state of its own but counters and switches.     *)
(* A frame is modelled by the windows it paints at a point, back to front, *)
(* with their pixels or their shadows, which may let what is below shine   *)
(* through.  Which do is no state here: programs write the pixels at any   *)
(* time, and what is said of a frame is said for all of them.  Decorations *)
(* and the frame rate limit are left out.                                  *)
(***************************************************************************)
EXTENDS VirtualDesktops

CONSTANTS AtBoot        \* desktops vd_init makes

ASSUME BootAssumption == AtBoot \in 1 .. Desktops

vars == <<wmVars, vdVars>>

\* A behaviour is followed until a list loops: the next call that walks it
\* does not return.
ListsEnd == Ends(cell, WM) /\ \A d \in InUse : Ends(cell, VD(d))

DesktopsInit == Init /\ VdInit(AtBoot)
WMStep == ListsEnd /\ WMNext /\ UNCHANGED vdVars
VDStep == ListsEnd /\ VDNext
Next == WMStep \/ VDStep
Spec == DesktopsInit /\ [][Next]_vars

-----------------------------------------------------------------------------
(* compositor_compose: windows a single window above them covers are        *)
(* culled.                                                                  *)

\* Mutant of Hides: a window that is not shown hides others.
HidesUnseen(v, w) == Above(v, w) /\ area[w] \subseteq area[v]
Hides(v, w) == Shown(v) /\ Above(v, w) /\ area[w] \subseteq area[v]

Listed == Members(cell, WM)
Occluded(w) == Shown(w) /\ \E v \in Listed : Hides(v, w)
Composed(w) == state[w] \notin {"MINIMIZED", "HIDDEN"} /\ ~Occluded(w) /\ backed[w]

\* compositor_compose_rect repaints a damaged cell without culling.
ComposedRect(w) == Shown(w) /\ backed[w]

\* compositor_compose_window paints a window's pixels, and its shadow beside them.
PixelsAt(c) == {w \in Listed : Shown(w) /\ c \in area[w]}
BesideOf(c) == {w \in Listed : Shown(w) /\ c \notin area[w]}

\* What compositor_alpha_blend lets shine through: what no opaque pixel is above.
Seen(S, c, opaque) == {w \in S : \A v \in S \cap opaque : ~(Above(v, w) /\ c \in area[v])}

-----------------------------------------------------------------------------
TypeOK ==
    /\ cell \in [Cells -> Ids \cup {NULL}]
    /\ lastId \in Ids /\ count \in 0 .. MaxWindows
    /\ live \subseteq 1 .. lastId /\ user \subseteq live
    /\ active \in user \cup {NULL}
    /\ z \in [Ids -> {DESKTOP, NORMAL}]
    /\ state \in [Ids -> States]
    /\ {visible, marked, backed} \subseteq [Ids -> BOOLEAN]
    /\ {area, saved} \subseteq [Ids -> SUBSET Screen]
    /\ num \in 1 .. Desktops /\ current \in InUse
    /\ shown \in [Slots -> BOOLEAN] /\ moves \in 0 .. MaxMoves /\ strayed \in BOOLEAN

(* As long as no window has been moved to a desktop, every window is in the *)
(* window list once and nothing else is, whatever is created, destroyed,    *)
(* raised and lowered, and window_count is their number (window.c).         *)
ListExact ==
    moves = 0 => /\ Ends(cell, WM)
                 /\ Listed = live
                 /\ count = Cardinality(live)

(* The title bar painted as active is the active window's and no other's,   *)
(* however windows are activated, hidden and destroyed (WF_ACTIVE, window.c *)
(* 115, 240).                                                               *)
ActiveMarked == {w \in live : marked[w]} = {active} \ {NULL}

(* Culling never takes away what is on top: where every shown window has a  *)
(* framebuffer, the topmost shown window of a culled frame at any point is  *)
(* the one a repaint of the damaged point paints, and the one a click there *)
(* hits (compositor.c 257, 299; window.c 360).  And it is no more than an   *)
(* optimisation, for any opacities and shadows, at a point where a window   *)
(* that covers another is opaque and reaches as far as the other's shadow.  *)
(* (The code culls without asking for either: below a translucent window    *)
(* that covers them others vanish, and so does a shadow that sticks out.    *)
(* Windows that were never shown, which a whole frame paints as well, are   *)
(* not counted.)                                                            *)
CullingHarmless ==
    (Ends(cell, WM) /\ \A w \in Listed : Shown(w) => backed[w]) =>
    \A c \in Screen :
        /\ TopOf({w \in Listed : Composed(w) /\ Shown(w) /\ c \in area[w]}) = FindWindowAt(c)
        /\ TopOf({w \in Listed : ComposedRect(w) /\ c \in area[w]}) = FindWindowAt(c)
        /\ \A opaque \in SUBSET PixelsAt(c), cast \in SUBSET BesideOf(c) :
             LET painted == PixelsAt(c) \cup cast
             IN (\A w \in painted, v \in Listed : Hides(v, w) => v \in opaque /\ c \in area[v]) =>
                Seen({w \in painted : Composed(w)}, c, opaque) = Seen(painted, c, opaque)

(* A window that becomes the active one, and is shown, is hit wherever it   *)
(* is: it was raised above all that was activated, shown or created before  *)
(* (window.c 240, 305).                                                     *)
ActivatedIsHit ==
    [][\A w \in user :
         (active' = w /\ active # w /\ moves = 0 /\ Shown(w)) =>
         \A c \in area[w] : FindWindowAt(c)' = {w}]_vars

(* The current desktop is marked active and no other is, over creations,    *)
(* switches and closes - until a desktop before the current one is closed:  *)
(* the flags move down with the slots and the index does not, so it names   *)
(* another desktop, two are marked, and where it is out of range desktop 0  *)
(* becomes current although the current one is still there                  *)
(* (virtual_desktop.c 112-124).                                             *)
OneActive == shown[current] /\ (strayed \/ \A i \in InUse : shown[i] => i = current)

(* Closing a desktop moves those behind it down with their windows: each    *)
(* that is left has under its new number all the windows it had, and no     *)
(* others unless its list had run into the closed one's, which goes on to   *)
(* desktop 0's now (virtual_desktop.c 97-116).                              *)
NewSlot(j, d) == IF j < d THEN j ELSE j - 1

CloseShifts ==
    [][\A d \in InUse : VDStep /\ VdClose(d) =>
          \A j \in InUse \ {0, d} :
              LET before == Members(cell, VD(j))
                  after  == Members(cell', VD(NewSlot(j, d)))
              IN  /\ before \subseteq after
                  /\ before \cap Members(cell, VD(d)) = {} => after = before]_vars

OnDesktops == UNION {Members(cell, VD(d)) : d \in InUse}

(* Closing a desktop loses none of the windows moved to it, to desktop 0 or *)
(* to the desktops behind it, even where lists have run into one another    *)
(* (virtual_desktop.c 97).                                                  *)
CloseLosesNone == [][num' < num => OnDesktops' = OnDesktops]_vars

(* Closing a desktop keeps every window on a desktop, and on the one it was *)
(* on unless that is the closed one (virtual_desktop.c 97-116).             *)
CloseKeepsWindows == CloseLosesNone /\ CloseShifts
=============================================================================
