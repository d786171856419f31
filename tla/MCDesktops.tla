----------------------------- MODULE MCDesktops -----------------------------
(* Three cells side by side, the last under the taskbar; and a screen    *)
(* without cells, for the runs that are about lists and not areas.          *)
EXTENDS Desktops

Wide == 1 .. 3
AboveTaskbar == 1 .. 2
SideBySide == {{1}, {2, 3}}
NoCells == {}
NoArea == {{}}

\* What the calls read that change the lists: how windows look has no part in it.
OnlyLists == <<cell, lastId, count, live, user, z, active, vdVars>>

\* The variables have their types, and the list of windows is exact (kernel/window.c).
ListsConsistent == TypeOK /\ ListExact
\* Indices stay in range and the current desktop is the active one
\* (kernel/virtual_desktop.c).
DesktopsConsistent == TypeOK /\ OneActive
=============================================================================
