---------------------------- MODULE LoginManager ----------------------------
(***************************************************************************)
(* The login manager of kernel/init.c: accounts, sessions with a desktop   *)
(* window each, and the screen lock.  A name may be added twice; its first *)
(* account is the one sessions and password changes take, any of them      *)
(* authenticates.  Logging in does not unlock the screen.  The tables of   *)
(* services and drivers in the same file are left out.                     *)
(***************************************************************************)
EXTENDS Naturals, Sequences

CONSTANTS Users,       \* user names
          Passwords,
          MaxUsers,    \* LOGIN_MAX_USERS
          SessionSlots,       \* indices of sessions[]
          DesktopWindows      \* windows that memory allows at a time

ASSUME LoginAssumption ==
    /\ MaxUsers \in Nat \ {0} /\ SessionSlots \subseteq Nat
    /\ "NULL" \notin DesktopWindows

VARIABLES users,         \* sequence of [name, password]
          sessions,      \* slot -> [session_id, username, desktop_window, active]
          alive,         \* windows of the window manager made here
          login_active

loginVars == <<users, sessions, alive, login_active>>

NoWindow == "NULL"
NoOne    == "nobody"
Vacant   == [session_id |-> 0, username |-> NoOne, desktop_window |-> NoWindow, active |-> FALSE]
ActiveSessions   == {i \in SessionSlots : sessions[i].active}

Accounts(n) == {k \in DOMAIN users : users[k].name = n}
Account(n)  == CHOOSE k \in Accounts(n) : \A j \in Accounts(n) : k <= j

LoginAddUser(n, p) ==
    /\ Len(users) < MaxUsers
    /\ users' = Append(users, [name |-> n, password |-> p])
    /\ UNCHANGED <<sessions, alive, login_active>>

\* Mutant of FreeSessions: the first slot is taken over whether it is active or not.
FreeSessionsAny == SessionSlots

FreeSessions == SessionSlots \ ActiveSessions

\* login_create_session; the window may not be had, and the session starts without one.
LoginCreateSession(n) ==
    /\ Accounts(n) # {} /\ FreeSessions # {}
    /\ LET i == CHOOSE k \in FreeSessions : \A j \in FreeSessions : k <= j
       IN  \E w \in DesktopWindows \cup {NoWindow} :
              /\ w \notin alive
              /\ alive' = alive \cup ({w} \ {NoWindow})
              /\ sessions' = [sessions EXCEPT ![i] =
                    [session_id |-> i + 1, username |-> n, desktop_window |-> w, active |-> TRUE]]
    /\ UNCHANGED <<users, login_active>>

\* login_destroy_session; the screen stays as it is.
LoginDestroySession(id) ==
    \E i \in ActiveSessions :
        /\ sessions[i].session_id = id
        /\ alive' = alive \ {sessions[i].desktop_window}
        /\ sessions' = [sessions EXCEPT ![i].active = FALSE, ![i].desktop_window = NoWindow]
        /\ UNCHANGED <<users, login_active>>

LoginLockScreen == /\ login_active' = FALSE
                   /\ UNCHANGED <<users, sessions, alive>>

\* The password of any account of any active session unlocks the screen.
LoginUnlockScreen(p) ==
    /\ \E i \in ActiveSessions, k \in DOMAIN users :
          users[k] = [name |-> sessions[i].username, password |-> p]
    /\ login_active' = TRUE
    /\ UNCHANGED <<users, sessions, alive>>

LoginChangePassword(n, old, new) ==
    /\ Accounts(n) # {}
    /\ users[Account(n)].password = old
    /\ users' = [users EXCEPT ![Account(n)].password = new]
    /\ UNCHANGED <<sessions, alive, login_active>>

LoginInit ==
    /\ users = <<>> /\ alive = {} /\ login_active = FALSE
    /\ sessions = [i \in SessionSlots |-> Vacant]

LoginNext ==
    \/ \E n \in Users : \/ LoginCreateSession(n)
                        \/ \E p \in Passwords : LoginAddUser(n, p)
                        \/ \E old, new \in Passwords : LoginChangePassword(n, old, new)
    \/ \E i \in SessionSlots : LoginDestroySession(i + 1)
    \/ LoginLockScreen
    \/ \E p \in Passwords : LoginUnlockScreen(p)
-----------------------------------------------------------------------------
\* The desktop windows in the window manager are those of the active sessions, each
\* of one session, however slots and windows are reused.
DesktopPerSession ==
    /\ alive = {sessions[i].desktop_window : i \in SessionSlots} \ {NoWindow}
    /\ \A i, j \in SessionSlots : /\ i # j /\ sessions[i].desktop_window = sessions[j].desktop_window
                           => sessions[i].desktop_window = NoWindow
    /\ \A i \in SessionSlots : sessions[i].desktop_window # NoWindow => sessions[i].active
=============================================================================
