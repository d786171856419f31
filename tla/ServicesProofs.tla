---------------------------- MODULE ServicesProofs ----------------------------
(***************************************************************************)
(* Proofs about the services above the hardware, for every value of the    *)
(* constants and for whichever of them a behaviour works: sessions,        *)
(* security, storage and the logs.                                         *)
(***************************************************************************)
EXTENDS MCServices, WellFoundedInduction, FiniteSetTheorems, SequenceTheorems, TLAPS

-----------------------------------------------------------------------------
(* Least and greatest elements.                                            *)

\* A set of natural numbers that is not empty has a least element.
LEMMA Least ==
  ASSUME NEW S \in SUBSET Nat, S # {}
  PROVE  \E k \in S : \A j \in S : k <= j
<1>1. PICK k \in S : \A j \in S : ~(<<j, k>> \in OpToRel(<, Nat))
  BY NatLessThanWellFounded, WFMin
<1>2. \A j \in S : k <= j
  <2> TAKE j \in S
  <2>1. j \in Nat /\ k \in Nat /\ <<j, k>> \in Nat \X Nat
    OBVIOUS
  <2>2. ~(j < k)
    BY <1>1, <2>1 DEF OpToRel
  <2> QED BY <2>1, <2>2
<1> QED BY <1>2

\* A set of numbers from 1 to n that is not empty has a greatest element.
LEMMA Greatest ==
  ASSUME NEW n \in Nat, NEW S \in SUBSET (1 .. n), S # {}
  PROVE  \E k \in S : \A j \in S : j <= k
<1> DEFINE T == {n - j : j \in S}
<1>1. T \in SUBSET Nat /\ T # {}
  <2>1. \A j \in S : n - j \in Nat
    OBVIOUS
  <2> QED BY <2>1
<1>2. PICK m \in T : \A j \in T : m <= j
  BY <1>1, Least
<1>3. PICK k \in S : m = n - k
  BY <1>2
<1>4. ASSUME NEW j \in S
      PROVE  j <= k
  <2>1. n - k <= n - j
    BY <1>2, <1>3
  <2> QED BY <2>1
<1> QED BY <1>4

-----------------------------------------------------------------------------
(* Sessions (kernel/init.c).                                               *)
Session == [session_id : Nat, username : Users \cup {NoOne},
            desktop_window : DesktopWindows \cup {NoWindow}, active : BOOLEAN]

LoginTypeOK == sessions \in [SessionSlots -> Session] /\ alive \subseteq DesktopWindows

\* An active session is found by its identifier alone: it is that of its slot.
IdsRight == \A i \in SessionSlots : sessions[i].active => sessions[i].session_id = i + 1

LoginInv == LoginTypeOK /\ DesktopPerSession /\ IdsRight

\* The window of a slot, and what alive says of it.
LEMMA AliveWindows ==
  ASSUME LoginInv
  PROVE  \A w : w \in alive <=> w # NoWindow /\ \E i \in SessionSlots : sessions[i].desktop_window = w
  BY DEF LoginInv, DesktopPerSession

\* login_create_session looks for the first slot that is not active, and finds one.
LEMMA FirstSlot ==
  ASSUME NEW S \in SUBSET SessionSlots, S # {}
  PROVE  (CHOOSE k \in S : \A j \in S : k <= j) \in S
<1>1. S \in SUBSET Nat
  BY LoginAssumption
<1> QED BY <1>1, Least

\* login_create_session preserves the invariant of the sessions.
LEMMA CreateKeeps ==
  ASSUME LoginInv, NEW n \in Users, LoginCreateSession(n)
  PROVE  LoginInv'
<1> DEFINE i == CHOOSE k \in FreeSessions : \A j \in FreeSessions : k <= j
<1>1. i \in SessionSlots /\ ~sessions[i].active
  <2>1. FreeSessions \in SUBSET SessionSlots /\ FreeSessions # {}
    BY DEF LoginCreateSession, FreeSessions
  <2>2. i \in FreeSessions
    BY <2>1, FirstSlot
  <2> QED BY <2>2 DEF FreeSessions, ActiveSessions
<1>2. PICK w \in DesktopWindows \cup {NoWindow} :
         /\ w \notin alive /\ alive' = alive \cup ({w} \ {NoWindow})
         /\ sessions' = [sessions EXCEPT ![i] =
               [session_id |-> i + 1, username |-> n, desktop_window |-> w, active |-> TRUE]]
  BY DEF LoginCreateSession
<1> HIDE DEF i
<1>3. sessions[i].desktop_window = NoWindow
  BY <1>1 DEF LoginInv, LoginTypeOK, DesktopPerSession, Session
<1>4. /\ sessions'[i] = [session_id |-> i + 1, username |-> n, desktop_window |-> w, active |-> TRUE]
      /\ \A k \in SessionSlots : k # i => sessions'[k] = sessions[k]
  BY <1>1, <1>2 DEF LoginInv, LoginTypeOK
<1>5. LoginTypeOK'
  BY <1>1, <1>2, LoginAssumption DEF LoginInv, LoginTypeOK, Session, NoWindow
<1>6. IdsRight'
  BY <1>4 DEF LoginInv, IdsRight
<1>7. DesktopPerSession'
  <2>1. \A v : v \in alive' <=> v # NoWindow /\ \E k \in SessionSlots : sessions'[k].desktop_window = v
    BY <1>1, <1>2, <1>3, <1>4, AliveWindows
  <2>2. \A k, j \in SessionSlots : k # j /\ sessions'[k].desktop_window = sessions'[j].desktop_window
                                   => sessions'[k].desktop_window = NoWindow
    BY <1>2, <1>4, AliveWindows DEF LoginInv, DesktopPerSession
  <2>3. \A k \in SessionSlots : sessions'[k].desktop_window # NoWindow => sessions'[k].active
    BY <1>4 DEF LoginInv, DesktopPerSession
  <2> QED BY <2>1, <2>2, <2>3 DEF DesktopPerSession
<1> QED BY <1>5, <1>6, <1>7 DEF LoginInv

\* login_destroy_session preserves the invariant of the sessions.
LEMMA DestroyKeeps ==
  ASSUME LoginInv, NEW id, LoginDestroySession(id)
  PROVE  LoginInv'
<1>1. PICK i \in ActiveSessions :
         /\ alive' = alive \ {sessions[i].desktop_window}
         /\ sessions' = [sessions EXCEPT ![i].active = FALSE, ![i].desktop_window = NoWindow]
  BY DEF LoginDestroySession
<1>2. i \in SessionSlots
  BY DEF ActiveSessions
<1>3. /\ sessions'[i].desktop_window = NoWindow /\ ~sessions'[i].active
      /\ \A k \in SessionSlots : k # i => sessions'[k] = sessions[k]
  BY <1>1, <1>2 DEF LoginInv, LoginTypeOK, Session
<1>4. LoginTypeOK'
  BY <1>1, <1>2 DEF LoginInv, LoginTypeOK, Session
<1>5. IdsRight'
  BY <1>3 DEF LoginInv, IdsRight
<1>6. DesktopPerSession'
  <2>1. \A v : v \in alive' <=> v # NoWindow /\ \E k \in SessionSlots : sessions'[k].desktop_window = v
    <3> TAKE v
    <3>1. v \in alive' <=> v \in alive /\ v # sessions[i].desktop_window
      BY <1>1
    <3>2. ASSUME v \in alive, v # sessions[i].desktop_window
          PROVE  v # NoWindow /\ \E k \in SessionSlots : sessions'[k].desktop_window = v
      BY <1>3, <3>2, AliveWindows
    <3>3. ASSUME v # NoWindow, NEW k \in SessionSlots, sessions'[k].desktop_window = v
          PROVE  v \in alive /\ v # sessions[i].desktop_window
      <4>1. k # i /\ sessions[k].desktop_window = v
        BY <1>3, <3>3
      <4>2. v # sessions[i].desktop_window
        BY <1>2, <3>3, <4>1 DEF LoginInv, DesktopPerSession
      <4> QED BY <3>3, <4>1, <4>2, AliveWindows
    <3> QED BY <3>1, <3>2, <3>3
  <2>2. \A k, j \in SessionSlots : k # j /\ sessions'[k].desktop_window = sessions'[j].desktop_window
                                   => sessions'[k].desktop_window = NoWindow
    BY <1>3 DEF LoginInv, DesktopPerSession
  <2>3. \A k \in SessionSlots : sessions'[k].desktop_window # NoWindow => sessions'[k].active
    BY <1>3 DEF LoginInv, DesktopPerSession
  <2> QED BY <2>1, <2>2, <2>3 DEF DesktopPerSession
<1> QED BY <1>4, <1>5, <1>6 DEF LoginInv

\* Every step of the services preserves the invariant of the sessions.
LEMMA LoginStep == LoginInv /\ [Next]_vars => LoginInv'
<1> SUFFICES ASSUME LoginInv, [Next]_vars PROVE LoginInv'
  OBVIOUS
<1>1. CASE UNCHANGED <<sessions, alive>>
  BY <1>1 DEF LoginInv, LoginTypeOK, DesktopPerSession, IdsRight
<1>2. CASE LoginNext
  <2>1. ASSUME NEW n \in Users, LoginCreateSession(n) PROVE LoginInv'
    BY <2>1, CreateKeeps
  <2>2. ASSUME NEW n \in Users, NEW p \in Passwords, LoginAddUser(n, p) PROVE LoginInv'
    BY <1>1, <2>2 DEF LoginAddUser
  <2>3. ASSUME NEW n \in Users, NEW old \in Passwords, NEW new \in Passwords, LoginChangePassword(n, old, new)
        PROVE  LoginInv'
    BY <1>1, <2>3 DEF LoginChangePassword
  <2>4. ASSUME NEW i \in SessionSlots, LoginDestroySession(i + 1) PROVE LoginInv'
    BY <2>4, DestroyKeeps
  <2>5. CASE LoginLockScreen
    BY <1>1, <2>5 DEF LoginLockScreen
  <2>6. ASSUME NEW p \in Passwords, LoginUnlockScreen(p) PROVE LoginInv'
    BY <1>1, <2>6 DEF LoginUnlockScreen
  <2> QED BY <1>2, <2>1, <2>2, <2>3, <2>4, <2>5, <2>6 DEF LoginNext
<1>3. LoginNext \/ UNCHANGED loginVars
  BY DEF Next, Storage, Logins, Securities, Logs, vars
<1> QED BY <1>1, <1>2, <1>3 DEF loginVars

\* The desktop windows that exist are those of the active sessions, one each, however
\* sessions are begun, refused a window, ended and begun again in the same slot.
THEOREM DesktopPerSessionCorrect == Spec => []DesktopPerSession
<1>1. Init => LoginInv
  BY LoginAssumption DEF Init, LoginInit, LoginInv, LoginTypeOK, DesktopPerSession, IdsRight, Session, Vacant
<1>2. LoginInv => DesktopPerSession
  BY DEF LoginInv
<1> QED BY <1>1, <1>2, LoginStep, PTL DEF Spec

-----------------------------------------------------------------------------
(* Capabilities and sandboxes (kernel/security.c).                         *)

Rule == [type : RuleTypes, allow : BOOLEAN, pattern : Patterns]

SecurityTypeOK ==
  /\ ctx \in [Contexts \cup {Kernel} ->
                [priv_level : PrivLevels, cap_effective : SUBSET AllCaps, in_sandbox : BOOLEAN]]
  /\ boxes \in [Boxes -> [rules : Seq(Rule), active : BOOLEAN]]
  /\ active_sandbox \in Boxes \cup {NoBox}

\* The kernel's own context stays the kernel's and inside only with an active sandbox.
KernelSandboxed ==
  /\ ctx[Kernel].priv_level = 0
  /\ ctx[Kernel].in_sandbox => active_sandbox # NoBox

SecurityInv == SecurityTypeOK /\ CapsWithinLevel /\ KernelSandboxed

\* The rules up to i that match.
HitsTo(rules, i, t, x) == {k \in 1 .. i : Matches(rules[k], t, x)}

Greatest1(S) == CHOOSE i \in S : \A j \in S : j <= i

\* What the loop of sandbox_check has found after rule i, without a loop.
FoundBy(rules, i, t, x) ==
  IF HitsTo(rules, i, t, x) = {} THEN "none"
  ELSE IF rules[Greatest1(HitsTo(rules, i, t, x))].allow THEN "allow" ELSE "deny"

\* The greatest of a set of positions is the one no other exceeds.
LEMMA GreatestIs ==
  ASSUME NEW n \in Nat, NEW S \in SUBSET (1 .. n), NEW k \in S, \A j \in S : j <= k
  PROVE  Greatest1(S) = k
<1>1. Greatest1(S) \in S /\ \A j \in S : j <= Greatest1(S)
  BY DEF Greatest1
<1>2. Greatest1(S) \in 1 .. n /\ k \in 1 .. n
  BY <1>1
<1>3. Greatest1(S) <= k /\ k <= Greatest1(S)
  BY <1>1
<1> QED BY <1>2, <1>3

\* One turn of the loop: a matching rule is the last one so far.
LEMMA FoundNext ==
  ASSUME NEW rules, NEW i \in Nat \ {0}, NEW t, NEW x
  PROVE  FoundBy(rules, i, t, x) = Verdict(FoundBy(rules, i - 1, t, x), rules[i], t, x)
<1>1. CASE Matches(rules[i], t, x)
  <2>1. HitsTo(rules, i, t, x) \in SUBSET (1 .. i) /\ i \in HitsTo(rules, i, t, x)
    BY <1>1 DEF HitsTo
  <2>2. \A j \in HitsTo(rules, i, t, x) : j <= i
    BY DEF HitsTo
  <2>3. Greatest1(HitsTo(rules, i, t, x)) = i
    BY <2>1, <2>2, GreatestIs
  <2> QED BY <1>1, <2>1, <2>3 DEF FoundBy, Verdict
<1>2. CASE ~Matches(rules[i], t, x)
  <2>1. HitsTo(rules, i, t, x) = HitsTo(rules, i - 1, t, x)
    BY <1>2 DEF HitsTo
  <2> QED BY <1>2, <2>1 DEF FoundBy, Verdict
<1> QED BY <1>1, <1>2

\* sandbox_check's loop finds what the last matching rule says.
LEMMA RuleResultIsLast ==
  ASSUME NEW rules, Len(rules) \in Nat, NEW t, NEW x
  PROVE  RuleResult(rules, t, x) = FoundBy(rules, Len(rules), t, x)
<1> DEFINE n == Len(rules)
           g == [i \in 0 .. n |-> FoundBy(rules, i, t, x)]
           f == CHOOSE h : h = [i \in 0 .. n |->
                                  IF i = 0 THEN "none" ELSE Verdict(h[i - 1], rules[i], t, x)]
<1>1. FoundBy(rules, 0, t, x) = "none"
  BY DEF FoundBy, HitsTo
<1>2. g = [i \in 0 .. n |-> IF i = 0 THEN "none" ELSE Verdict(g[i - 1], rules[i], t, x)]
  <2>1. ASSUME NEW i \in 0 .. n
        PROVE  FoundBy(rules, i, t, x)
                 = IF i = 0 THEN "none" ELSE Verdict(g[i - 1], rules[i], t, x)
    <3>1. CASE i = 0
      BY <1>1, <3>1
    <3>2. CASE i # 0
      <4>1. i \in Nat \ {0} /\ i - 1 \in 0 .. n
        BY <3>2
      <4> QED BY <3>2, <4>1, FoundNext
    <3> QED BY <3>1, <3>2
  <2> QED BY <2>1
<1>3. f = [i \in 0 .. n |-> IF i = 0 THEN "none" ELSE Verdict(f[i - 1], rules[i], t, x)]
  <2> HIDE DEF Verdict, g
  <2> QED BY <1>2, Zenon
<1>4. RuleResult(rules, t, x) = f[n]
  BY DEF RuleResult
<1> HIDE DEF f
<1>5. \A i \in 0 .. n : f[i] = g[i]
  <2> DEFINE Bad == {i \in 0 .. n : f[i] # g[i]}
  <2>1. SUFFICES ASSUME Bad # {}
                 PROVE  FALSE
    OBVIOUS
  <2>2. PICK i \in Bad : \A j \in Bad : i <= j
    <3>1. Bad \in SUBSET Nat
      OBVIOUS
    <3> QED BY <2>1, <3>1, Least
  <2>3. i # 0
    BY <1>1, <1>3, <2>2
  <2>4. i - 1 \in 0 .. n /\ i - 1 \notin Bad
    BY <2>2, <2>3
  <2>5. f[i - 1] = g[i - 1]
    BY <2>4
  <2>6. f[i] = Verdict(f[i - 1], rules[i], t, x)
    BY <1>3, <2>2, <2>3
  <2>7. g[i] = Verdict(g[i - 1], rules[i], t, x)
    BY <1>2, <2>2, <2>3
  <2> QED BY <2>2, <2>5, <2>6, <2>7
<1> QED BY <1>4, <1>5

\* Every call of the security module keeps the invariant.
LEMMA ContextCallsKeep == SecurityInv /\ ContextCalls => SecurityInv'
<1> SUFFICES ASSUME SecurityInv, NEW c \in Contexts,
                    \/ \E l \in PrivLevels : SecurityContextInit(c, l) \/ SecuritySetPrivilege(c, l)
                    \/ \E cap \in AllCaps : SecurityGrantCap(c, cap) \/ SecurityRevokeCap(c, cap)
             PROVE  SecurityInv'
  BY DEF ContextCalls
<1>1. c # Kernel /\ c \in Contexts \cup {Kernel}
  BY SecurityAssumption DEF Kernel
<1>2. \A l \in PrivLevels : CapsOf(l) \in SUBSET AllCaps
  BY DEF AllCaps
<1> DEFINE Context == [priv_level : PrivLevels, cap_effective : SUBSET AllCaps, in_sandbox : BOOLEAN]
           Becomes(new) == /\ ctx' = [ctx EXCEPT ![c] = new]
                           /\ new.priv_level # 0 => new.cap_effective \subseteq CapsOf(new.priv_level)
                           /\ UNCHANGED <<boxes, active_sandbox>>
<1>3. PICK new \in Context : Becomes(new)
  <2>1. ASSUME NEW l \in PrivLevels, SecurityContextInit(c, l)
        PROVE  \E new \in Context : Becomes(new)
    <3> DEFINE new == [priv_level |-> l, cap_effective |-> CapsOf(l), in_sandbox |-> FALSE]
    <3>1. new \in [priv_level : PrivLevels, cap_effective : SUBSET AllCaps, in_sandbox : BOOLEAN]
      BY <1>2
    <3> QED BY <2>1, <3>1 DEF SecurityContextInit
  <2>2. ASSUME NEW l \in PrivLevels, SecuritySetPrivilege(c, l)
        PROVE  \E new \in Context : Becomes(new)
    <3> DEFINE new == [ctx[c] EXCEPT !.priv_level = l, !.cap_effective = CapsOf(l)]
    <3>1. new \in [priv_level : PrivLevels, cap_effective : SUBSET AllCaps, in_sandbox : BOOLEAN]
          /\ new.cap_effective = CapsOf(l) /\ new.priv_level = l
      BY <1>1, <1>2 DEF SecurityInv, SecurityTypeOK
    <3>2. ctx' = [ctx EXCEPT ![c] = new]
      BY <1>1, <2>2 DEF SecuritySetPrivilege, CapsAt, SecurityInv, SecurityTypeOK
    <3> QED BY <2>2, <3>1, <3>2 DEF SecuritySetPrivilege
  <2>3. ASSUME NEW cap \in AllCaps, SecurityGrantCap(c, cap)
        PROVE  \E new \in Context : Becomes(new)
    <3> DEFINE new == [ctx[c] EXCEPT !.cap_effective = @ \cup {cap}]
    <3>1. new \in [priv_level : PrivLevels, cap_effective : SUBSET AllCaps, in_sandbox : BOOLEAN]
          /\ new.priv_level = 0
      BY <1>1, <2>3 DEF SecurityInv, SecurityTypeOK, SecurityGrantCap
    <3>2. ctx' = [ctx EXCEPT ![c] = new]
      BY <1>1, <2>3 DEF SecurityGrantCap, SecurityInv, SecurityTypeOK
    <3> QED BY <2>3, <3>1, <3>2 DEF SecurityGrantCap
  <2>4. ASSUME NEW cap \in AllCaps, SecurityRevokeCap(c, cap)
        PROVE  \E new \in Context : Becomes(new)
    <3> DEFINE new == [ctx[c] EXCEPT !.cap_effective = @ \ {cap}]
    <3>1. new \in [priv_level : PrivLevels, cap_effective : SUBSET AllCaps, in_sandbox : BOOLEAN]
          /\ new.priv_level = ctx[c].priv_level
          /\ new.cap_effective \subseteq ctx[c].cap_effective
      BY <1>1 DEF SecurityInv, SecurityTypeOK
    <3>2. ctx' = [ctx EXCEPT ![c] = new]
      BY <1>1, <2>4 DEF SecurityRevokeCap, SecurityInv, SecurityTypeOK
    <3> QED BY <2>4, <3>1, <3>2 DEF SecurityRevokeCap, SecurityInv, CapsWithinLevel
  <2> QED BY <2>1, <2>2, <2>3, <2>4
<1>4. ctx'[c] = new /\ \A k \in Contexts \cup {Kernel} : k # c => ctx'[k] = ctx[k]
  BY <1>1, <1>3 DEF SecurityInv, SecurityTypeOK
<1>5. SecurityTypeOK'
  BY <1>1, <1>3 DEF SecurityInv, SecurityTypeOK
<1>6. CapsWithinLevel'
  BY <1>3, <1>4 DEF SecurityInv, CapsWithinLevel
<1>7. KernelSandboxed'
  BY <1>1, <1>3, <1>4 DEF SecurityInv, KernelSandboxed
<1> QED BY <1>5, <1>6, <1>7 DEF SecurityInv

\* The sandbox calls preserve the invariant of the contexts.
LEMMA SandboxCallsKeep == SecurityInv /\ SandboxCalls => SecurityInv'
<1> SUFFICES ASSUME SecurityInv, NEW b \in Boxes,
                    \/ SandboxInit(b) \/ SandboxEnter(b) \/ SandboxLeave(b)
                    \/ \E t \in RuleTypes, allow \in BOOLEAN, p \in Patterns :
                         SandboxAddRule(b, t, allow, p)
             PROVE  SecurityInv'
  BY DEF SandboxCalls
<1> USE DEF SecurityInv, SecurityTypeOK
<1>1. Kernel \notin Contexts /\ b # NoBox
  BY SecurityAssumption DEF Kernel, NoBox
<1>2. ASSUME UNCHANGED ctx, boxes' \in [Boxes -> [rules : Seq(Rule), active : BOOLEAN]],
             UNCHANGED active_sandbox
      PROVE  SecurityInv'
  BY <1>2 DEF CapsWithinLevel, KernelSandboxed
<1>3. CASE SandboxInit(b)
  <2>1. NewBox \in [rules : Seq(Rule), active : BOOLEAN]
    BY DEF NewBox
  <2>2. boxes' \in [Boxes -> [rules : Seq(Rule), active : BOOLEAN]]
    BY <1>3, <2>1 DEF SandboxInit
  <2> QED BY <1>2, <1>3, <2>2 DEF SandboxInit
<1>4. ASSUME NEW t \in RuleTypes, NEW allow \in BOOLEAN, NEW p \in Patterns,
             SandboxAddRule(b, t, allow, p)
      PROVE  SecurityInv'
  <2>1. [type |-> t, allow |-> allow, pattern |-> p] \in Rule
    BY DEF Rule
  <2>2. Append(boxes[b].rules, [type |-> t, allow |-> allow, pattern |-> p]) \in Seq(Rule)
    BY <2>1
  <2>3. boxes' \in [Boxes -> [rules : Seq(Rule), active : BOOLEAN]]
    BY <1>4, <2>2 DEF SandboxAddRule
  <2> QED BY <1>2, <1>4, <2>3 DEF SandboxAddRule
<1>5. ASSUME NEW in \in BOOLEAN, ctx' = [ctx EXCEPT ![Kernel].in_sandbox = in],
             boxes' \in [Boxes -> [rules : Seq(Rule), active : BOOLEAN]],
             active_sandbox' \in Boxes \cup {NoBox}, in => active_sandbox' # NoBox
      PROVE  SecurityInv'
  <2>1. /\ \A c \in Contexts : ctx'[c] = ctx[c]
        /\ ctx'[Kernel].priv_level = ctx[Kernel].priv_level /\ ctx'[Kernel].in_sandbox = in
        /\ ctx' \in [Contexts \cup {Kernel} ->
                [priv_level : PrivLevels, cap_effective : SUBSET AllCaps, in_sandbox : BOOLEAN]]
    BY <1>1, <1>5
  <2> QED BY <1>5, <2>1 DEF CapsWithinLevel, KernelSandboxed
<1>6. CASE SandboxEnter(b)
  <2>1. boxes' \in [Boxes -> [rules : Seq(Rule), active : BOOLEAN]]
    BY <1>6 DEF SandboxEnter
  <2> QED BY <1>1, <1>5, <1>6, <2>1 DEF SandboxEnter
<1>7. CASE SandboxLeave(b)
  <2>1. boxes' \in [Boxes -> [rules : Seq(Rule), active : BOOLEAN]]
    BY <1>7 DEF SandboxLeave
  <2>2. active_sandbox' \in Boxes \cup {NoBox}
    BY <1>7 DEF SandboxLeave
  <2> QED BY <1>5, <1>7, <2>1, <2>2 DEF SandboxLeave
<1> QED BY <1>3, <1>4, <1>6, <1>7

\* Every step of the services preserves the invariant of the contexts.
LEMMA SecurityStep == SecurityInv /\ [Next]_vars => SecurityInv'
<1> SUFFICES ASSUME SecurityInv, [Next]_vars PROVE SecurityInv'
  OBVIOUS
<1>1. ContextCalls \/ SandboxCalls \/ UNCHANGED securityVars
  BY DEF Next, Storage, Logins, Securities, Logs, vars
<1>2. CASE UNCHANGED securityVars
  BY <1>2 DEF securityVars, SecurityInv, SecurityTypeOK, CapsWithinLevel, KernelSandboxed
<1> QED BY <1>1, <1>2, ContextCallsKeep, SandboxCallsKeep

\* The access check and the last matching rule agree about the kernel.
LEMMA KernelHeldToLastRule == SecurityInv => HeldToLastRule
<1> SUFFICES ASSUME SecurityInv PROVE HeldToLastRule
  OBVIOUS
<1>1. ASSUME NEW b \in Boxes, NEW t, NEW x
      PROVE  RuleResult(boxes[b].rules, t, x) = "allow" <=> LastRule(b, t, x)
  <2> DEFINE rules == boxes[b].rules
  <2>1. Len(rules) \in Nat /\ DOMAIN rules = 1 .. Len(rules)
    BY DEF SecurityInv, SecurityTypeOK
  <2>2. RuleResult(rules, t, x) = FoundBy(rules, Len(rules), t, x)
    BY <2>1, RuleResultIsLast
  <2>3. LastRule(b, t, x) <=> /\ HitsTo(rules, Len(rules), t, x) # {}
                              /\ rules[Greatest1(HitsTo(rules, Len(rules), t, x))].allow
    BY <2>1 DEF LastRule, HitsTo, Greatest1
  <2> QED BY <2>2, <2>3 DEF FoundBy
<1>2. ctx[Kernel].priv_level = 0 /\ (ctx[Kernel].in_sandbox => active_sandbox \in Boxes)
  BY DEF SecurityInv, SecurityTypeOK, KernelSandboxed
<1>3. \A t \in RuleTypes, x \in Targets :
        SecurityCheckAccess(Kernel, t, x, TRUE) <=>
            \/ ~ctx[Kernel].in_sandbox
            \/ ~boxes[active_sandbox].active
            \/ LastRule(active_sandbox, t, x)
  BY <1>1, <1>2 DEF SecurityCheckAccess, SecurityCheckCap, SandboxCheck, SecurityInv, KernelSandboxed
<1> QED BY <1>2, <1>3 DEF HeldToLastRule, SecurityInv, KernelSandboxed

\* No context below the kernel has a capability of another level, and the kernel
\* inside a sandbox may do what the last matching rule says, whatever the calls were.
THEOREM AuthorisedCorrect == Spec => []Authorised
<1>1. Init => SecurityInv
  <2> SUFFICES ASSUME Init PROVE SecurityInv
    OBVIOUS
  <2>1. CapsOf(0) \in SUBSET AllCaps /\ 0 \in PrivLevels
    BY SecurityAssumption DEF AllCaps
  <2>2. SecurityTypeOK
    BY <2>1 DEF Init, SecurityInit, SecurityTypeOK, NewBox
  <2> QED BY <2>2 DEF Init, SecurityInit, SecurityInv, CapsWithinLevel, KernelSandboxed
<1>2. SecurityInv => Authorised
  BY KernelHeldToLastRule DEF Authorised, SecurityInv
<1> QED BY <1>1, <1>2, SecurityStep, PTL DEF Spec

-----------------------------------------------------------------------------
(* The block cache (kernel/fs_advanced.c).                                 *)

\* "boot" is what a new medium holds, whether or not the block layer's writers use it.
Data  == Contents \cup {"boot"}
Entry == [sector : Int, data : Data, last_used : Nat]

BlockTypeOK ==
  /\ disk \in [Devs -> [Sectors -> Data]]
  /\ block_cache \in [Cells -> Entry]
  /\ jiffies \in Nat
  /\ written \in [Sectors -> [at : SUBSET Devs, data : Data, ok : BOOLEAN]]

\* No sector has two entries, so an eviction never uncovers an older one.
OneEntry == \A c, e \in Cells :
  block_cache[c].sector = block_cache[e].sector /\ block_cache[c].sector # -1 => c = e

\* An entry holds what its sector was written last, whichever device and whatever it said.
CacheFresh == \A c \in Cells, s \in Sectors :
  block_cache[c].sector = s => block_cache[c].data = written[s].data

\* So does the only device a sector was written at, when it took the last write.
DiskFresh == \A d \in Devs, s \in Sectors :
  written[s].ok /\ written[s].at \subseteq {d} => disk[d][s] = written[s].data

BlockInv == BlockTypeOK /\ OneEntry /\ CacheFresh /\ DiskFresh

\* The first of a non-empty set of numbers is one of them.
LEMMA FirstIn ==
  ASSUME NEW S \in SUBSET Nat, S # {}
  PROVE  First(S) \in S
BY Least DEF First

\* Where a written sector goes is an entry, and its own one if it has any.
LEMMA SlotIs ==
  ASSUME BlockInv, NEW s \in Int
  PROVE  /\ Slot(s) \in Cells
         /\ Hits(s) # {} => Slot(s) \in Hits(s)
<1>1. Cells \in SUBSET Nat /\ 1 \in Cells
  BY BlockAssumption DEF Cells
<1>2. CASE Hits(s) # {}
  <2>1. Hits(s) \in SUBSET Cells
    BY DEF Hits
  <2>2. First(Hits(s)) \in Hits(s)
    BY <1>1, <1>2, <2>1, FirstIn
  <2> QED BY <1>2, <2>1, <2>2 DEF Slot
<1>3. CASE Hits(s) = {}
  <2> DEFINE Used(c) == block_cache[c].last_used
             Times   == {Used(c) : c \in Cells}
  <2>1. \A c \in Cells : Used(c) \in Nat
    BY DEF BlockInv, BlockTypeOK, Entry
  <2>2. Times \in SUBSET Nat /\ Times # {}
    BY <1>1, <2>1
  <2>3. PICK m \in Times : \A j \in Times : m <= j
    <3> HIDE DEF Times
    <3> QED BY <2>2, Least
  <2> DEFINE Old == {c \in Cells : Used(c) = m}
  <2>4. Old \in SUBSET Nat /\ Old # {}
    BY <1>1, <2>3
  <2>5. PICK c \in Old : \A e \in Old : c <= e
    <3> HIDE DEF Old
    <3> QED BY <2>4, Least
  <2>6. /\ c \in Cells
        /\ \A e \in Cells : block_cache[c].last_used <= block_cache[e].last_used
        /\ \A e \in Cells : block_cache[e].last_used = block_cache[c].last_used => c <= e
    BY <2>3, <2>5
  <2>7. Oldest \in Cells
    BY <2>6 DEF Oldest
  <2> QED BY <1>3, <2>7 DEF Slot
<1> QED BY <1>2, <1>3

\* A read may stamp an entry and changes nothing else.
LEMMA TouchKeeps ==
  ASSUME BlockInv, NEW s \in Int, block_cache' = Touched(s), UNCHANGED <<disk, jiffies, written>>
  PROVE  BlockInv'
<1>1. CASE Hits(s) = {}
  BY <1>1 DEF Touched, BlockInv, BlockTypeOK, OneEntry, CacheFresh, DiskFresh
<1>2. CASE Hits(s) # {}
  <2>1. PICK c \in Cells : block_cache' = [block_cache EXCEPT ![c].last_used = jiffies]
    <3>1. Hits(s) \in SUBSET Nat /\ Hits(s) \in SUBSET Cells
      BY DEF Hits, Cells
    <3>2. First(Hits(s)) \in Cells
      BY <1>2, <3>1, FirstIn
    <3> QED BY <1>2, <3>2 DEF Touched
  <2>2. BlockTypeOK'
    BY <2>1 DEF BlockInv, BlockTypeOK, Entry
  <2>3. \A e \in Cells : /\ block_cache'[e].sector = block_cache[e].sector
                         /\ block_cache'[e].data = block_cache[e].data
    BY <2>1 DEF BlockInv, BlockTypeOK, Entry
  <2> QED BY <2>2, <2>3 DEF BlockInv, OneEntry, CacheFresh, DiskFresh
<1> QED BY <1>1, <1>2

\* block_write preserves the invariant of the devices.
LEMMA WriteKeeps ==
  ASSUME BlockInv, NEW d \in Devs, NEW s \in Nat, NEW x \in Data, NEW ok \in BOOLEAN,
         BlockWrite(d, s, x, ok)
  PROVE  BlockInv'
<1> DEFINE e == [sector |-> s, data |-> x, last_used |-> jiffies]
           w == [at |-> written[s].at \cup {d}, data |-> x, ok |-> ok]
<1>1. PICK c \in Cells : c = Slot(s) /\ block_cache' = [block_cache EXCEPT ![c] = e]
  <2>1. Slot(s) \in Cells
    BY SlotIs
  <2> QED BY <2>1 DEF BlockWrite
<1>2. e \in Entry
  BY DEF Entry, BlockInv, BlockTypeOK
<1>3. block_cache' \in [Cells -> Entry] /\ \A k \in Cells : block_cache'[k] = IF k = c THEN e ELSE block_cache[k]
  BY <1>1, <1>2 DEF BlockInv, BlockTypeOK
<1>4. /\ written' \in [Sectors -> [at : SUBSET Devs, data : Data, ok : BOOLEAN]]
      /\ \A t \in Sectors : written'[t] = IF t = s THEN w ELSE written[t]
  BY DEF BlockWrite, BlockInv, BlockTypeOK
<1>5. /\ disk' \in [Devs -> [Sectors -> Data]]
      /\ \A f \in Devs, t \in Sectors :
            disk'[f][t] = IF ok /\ f = d /\ t = s THEN x ELSE disk[f][t]
  BY DEF BlockWrite, BlockInv, BlockTypeOK
<1>6. BlockTypeOK'
  BY <1>3, <1>4, <1>5 DEF BlockWrite, BlockInv, BlockTypeOK
<1>7. \A k \in Cells : k # c => block_cache[k].sector # s
  <2> SUFFICES ASSUME NEW k \in Cells, block_cache[k].sector = s
               PROVE  k = c
    OBVIOUS
  <2>1. k \in Hits(s) /\ c \in Hits(s)
    BY <1>1, SlotIs DEF Hits
  <2> QED BY <2>1 DEF Hits, BlockInv, OneEntry
<1>8. OneEntry'
  BY <1>3, <1>7 DEF BlockInv, OneEntry
<1>9. CacheFresh'
  BY <1>3, <1>4, <1>7 DEF BlockInv, CacheFresh
<1>10. DiskFresh'
  <2> SUFFICES ASSUME NEW f \in Devs, NEW t \in Sectors, written'[t].ok, written'[t].at \subseteq {f}
               PROVE  disk'[f][t] = written'[t].data
    BY DEF DiskFresh
  <2>1. CASE t = s
    <3>1. written'[t] = w /\ f = d /\ ok
      BY <1>4, <2>1
    <3> QED BY <1>5, <2>1, <3>1
  <2>2. CASE t # s
    <3>1. written'[t] = written[t] /\ disk'[f][t] = disk[f][t]
      BY <1>4, <1>5, <2>2
    <3> QED BY <3>1 DEF BlockInv, DiskFresh
  <2> QED BY <2>1, <2>2
<1> QED BY <1>6, <1>8, <1>9, <1>10 DEF BlockInv

\* Every step of the services preserves the invariant of the devices.
LEMMA BlockStep == BlockInv /\ [Next]_vars => BlockInv'
<1> SUFFICES ASSUME BlockInv, [Next]_vars PROVE BlockInv'
  OBVIOUS
<1>1. Sectors \subseteq Nat /\ Sectors \subseteq Int /\ Contents \subseteq Data
  BY BlockAssumption DEF Data
<1>2. CASE UNCHANGED <<disk, block_cache, jiffies, written>>
  BY <1>2 DEF BlockInv, BlockTypeOK, OneEntry, CacheFresh, DiskFresh
<1>3. CASE BlockNext
  <2>1. ASSUME NEW d \in Devs, BlockRegister(d) PROVE BlockInv'
    BY <1>2, <2>1 DEF BlockRegister
  <2>2. ASSUME NEW d \in Devs, NEW s \in Sectors, BlockRead(d, s) PROVE BlockInv'
    BY <1>1, <2>2, TouchKeeps DEF BlockRead
  <2>3. ASSUME NEW d \in Devs, NEW s \in Sectors, NEW x \in Contents, NEW ok \in BOOLEAN,
               BlockWrite(d, s, x, ok)
        PROVE  BlockInv'
    BY <1>1, <2>3, WriteKeeps
  <2>4. CASE Jiffy
    BY <2>4 DEF Jiffy, BlockInv, BlockTypeOK, OneEntry, CacheFresh, DiskFresh
  <2> QED BY <1>3, <2>1, <2>2, <2>3, <2>4 DEF BlockNext
<1>4. CASE MountCalls
  <2>1. ASSUME NEW d \in Devs, NEW table \in {0, 1} \cap Sectors, PartitionScan(d, table)
        PROVE  BlockInv'
    BY <2>1, TouchKeeps DEF PartitionScan
  <2>2. ASSUME NEW d \in Devs, NEW fs \in FileSystems, VfsMount(d, fs)
        PROVE  BlockInv'
    BY <1>1, <2>2, TouchKeeps DEF VfsMount
  <2> QED BY <1>4, <2>1, <2>2 DEF MountCalls
<1>5. CASE Media
  <2>1. ASSUME NEW d \in Devs, BlockRegister(d) PROVE BlockInv'
    BY <1>2, <2>1 DEF BlockRegister
  <2>2. ASSUME NEW d \in Devs, NEW s \in {0, 1}, BlockWrite(d, s, "boot", TRUE) PROVE BlockInv'
    <3>1. s \in Nat /\ "boot" \in Data
      BY DEF Data
    <3> QED BY <2>2, <3>1, WriteKeeps
  <2> QED BY <1>5, <2>1, <2>2 DEF Media
<1>6. CASE DescriptorCalls
  BY <1>2, <1>6 DEF DescriptorCalls, VfsOpen, VfsClose, VfsSeek, blockVars
<1>7. BlockNext \/ MountCalls \/ Media \/ DescriptorCalls \/ UNCHANGED storageVars
  BY DEF Next, Storage, Logins, Securities, Logs, vars
<1> QED BY <1>2, <1>3, <1>4, <1>5, <1>6, <1>7 DEF storageVars, blockVars

\* What a read finds, in the cache or on the device, was written last.
LEMMA BlockInvReads == BlockInv => ReadsLastWrite
<1> SUFFICES ASSUME BlockInv, NEW d \in Devs, NEW s \in Sectors,
                    written[s].ok, written[s].at \subseteq {d}
             PROVE  BlockData(d, s) = written[s].data
  BY DEF ReadsLastWrite
<1>1. CASE Hits(s) # {}
  <2>1. Hits(s) \in SUBSET Nat
    BY DEF Hits, Cells
  <2>2. First(Hits(s)) \in Hits(s)
    BY <1>1, <2>1, FirstIn
  <2> QED BY <1>1, <2>2 DEF BlockData, Hits, BlockInv, CacheFresh
<1>2. CASE Hits(s) = {}
  BY <1>2 DEF BlockData, BlockInv, DiskFresh
<1> QED BY <1>1, <1>2

-----------------------------------------------------------------------------
(* File descriptors (kernel/fs_advanced.c).                                *)

UsedFds == {i \in FdSlots : fd_table[i].used}

FdInv ==
  /\ fd_table \in [FdSlots -> [used : BOOLEAN, position : Nat]]
  /\ RootReferenced

\* Every step of the services preserves the invariant of the descriptors.
LEMMA FdStep == FdInv /\ [Next]_vars => FdInv'
<1> SUFFICES ASSUME FdInv, [Next]_vars PROVE FdInv'
  OBVIOUS
<1> USE DEF FdInv, RootReferenced
<1>1. FdSlots \in SUBSET Nat /\ IsFiniteSet(FdSlots)
  BY VfsAssumption, FS_Interval DEF FdSlots
<1>2. UsedFds \in SUBSET FdSlots /\ IsFiniteSet(UsedFds) /\ Cardinality(UsedFds) \in Nat
  <2>1. UsedFds \in SUBSET FdSlots
    BY DEF UsedFds
  <2> QED BY <1>1, <2>1, FS_Subset, FS_CardinalityType
<1>3. ref_count = 1 + Cardinality(UsedFds)
  BY DEF UsedFds
<1>4. ASSUME fd_table' \in [FdSlots -> [used : BOOLEAN, position : Nat]],
             ref_count' = 1 + Cardinality(UsedFds')
      PROVE  FdInv'
  BY <1>4 DEF UsedFds
<1>5. CASE UNCHANGED <<fd_table, ref_count>>
  BY <1>5
<1>6. CASE VfsOpen
  <2> DEFINE i == First(FreeFds)
  <2>1. FreeFds \in SUBSET Nat /\ FreeFds # {}
    BY <1>1, <1>6 DEF VfsOpen, FreeFds
  <2>2. i \in FreeFds
    BY <2>1, FirstIn
  <2>3. fd_table' = [fd_table EXCEPT ![i] = [used |-> TRUE, position |-> 0]]
        /\ ref_count' = ref_count + 1
    BY <1>6 DEF VfsOpen
  <2> HIDE DEF i
  <2>4. i \in FdSlots /\ i \notin UsedFds
    BY <2>2 DEF FreeFds, UsedFds
  <2>5. fd_table' \in [FdSlots -> [used : BOOLEAN, position : Nat]]
    BY <2>3, <2>4
  <2>6. UsedFds' = UsedFds \cup {i}
    BY <2>3, <2>4 DEF UsedFds
  <2>7. Cardinality(UsedFds') = Cardinality(UsedFds) + 1
    BY <1>2, <2>4, <2>6, FS_AddElement
  <2>8. ref_count' = 1 + Cardinality(UsedFds')
    BY <1>2, <1>3, <2>3, <2>7
  <2> QED BY <1>4, <2>5, <2>8
<1>7. ASSUME NEW fd \in FdSlots, VfsClose(fd)
      PROVE  FdInv'
  <2>1. fd \in UsedFds
    BY <1>7 DEF VfsClose, CloseChecked, UsedFds
  <2>2. fd_table' \in [FdSlots -> [used : BOOLEAN, position : Nat]]
    BY <1>7 DEF VfsClose
  <2>3. UsedFds' = UsedFds \ {fd}
    BY <1>7 DEF VfsClose, UsedFds
  <2>4. Cardinality(UsedFds') = Cardinality(UsedFds) - 1
    BY <1>2, <2>1, <2>3, FS_RemoveElement
  <2>5. ref_count' = 1 + Cardinality(UsedFds')
    BY <1>2, <1>3, <1>7, <2>4 DEF VfsClose
  <2> QED BY <1>4, <2>2, <2>5
<1>8. ASSUME NEW fd \in FdSlots, NEW off \in Offsets, NEW whence \in 0 .. 2, VfsSeek(fd, off, whence)
      PROVE  FdInv'
  <2> DEFINE pos == IF whence = 1 THEN (fd_table[fd].position + off) % PosMod ELSE off
  <2>1. pos \in Nat
    BY VfsAssumption
  <2>2. fd_table' = [fd_table EXCEPT ![fd].position = pos]
    BY <1>8 DEF VfsSeek
  <2> HIDE DEF pos
  <2>3. fd_table' \in [FdSlots -> [used : BOOLEAN, position : Nat]]
    BY <2>1, <2>2
  <2>4. UsedFds' = UsedFds
    BY <2>2 DEF UsedFds
  <2> QED BY <1>3, <1>4, <1>8, <2>3, <2>4 DEF VfsSeek
<1>9. CASE DescriptorCalls
  BY <1>6, <1>7, <1>8, <1>9 DEF DescriptorCalls
<1>10. CASE MountCalls
  BY <1>5, <1>10 DEF MountCalls, PartitionScan, VfsMount
<1>11. DescriptorCalls \/ MountCalls \/ UNCHANGED vfsVars
  BY DEF Next, Storage, Logins, Securities, Logs, vars, storageVars
<1> QED BY <1>5, <1>9, <1>10, <1>11 DEF vfsVars

\* A sector only one device was written at, with success, is read as it was written
\* last, whatever the cache evicted; and the root is referenced once for itself and
\* once by every open descriptor, however descriptors are opened, closed and reused.
THEOREM StorageCorrect == Spec => []StorageConsistent
<1>1. Init => BlockInv
  <2> SUFFICES ASSUME Init PROVE BlockInv
    OBVIOUS
  <2>1. NoSector \in Entry /\ Never \in [at : SUBSET Devs, data : Data, ok : BOOLEAN]
    BY BlockAssumption DEF NoSector, Never, Entry, Data
  <2>2. BlockTypeOK
    BY <2>1, BlockAssumption DEF Init, BlockInit, BlockTypeOK, Data
  <2>3. \A c \in Cells : block_cache[c].sector = -1
    BY DEF Init, BlockInit, NoSector
  <2>4. OneEntry /\ CacheFresh
    BY <2>3, BlockAssumption DEF OneEntry, CacheFresh
  <2>5. DiskFresh
    BY DEF Init, BlockInit, DiskFresh, Never
  <2> QED BY <2>2, <2>4, <2>5 DEF BlockInv
<1>2. Init => FdInv
  <2> SUFFICES ASSUME Init PROVE FdInv
    OBVIOUS
  <2>1. fd_table \in [FdSlots -> [used : BOOLEAN, position : Nat]] /\ ref_count = 1
    BY DEF Init, VfsInit, Closed
  <2>2. {i \in FdSlots : fd_table[i].used} = {}
    BY DEF Init, VfsInit, Closed
  <2> QED BY <2>1, <2>2, FS_EmptySet DEF FdInv, RootReferenced
<1>3. BlockInv /\ FdInv => StorageConsistent
  BY BlockInvReads DEF StorageConsistent, FdInv
<1> QED BY <1>1, <1>2, <1>3, BlockStep, FdStep, PTL DEF Spec

-----------------------------------------------------------------------------
(* Remainders.                                                             *)

\* What \div and % are.
LEMMA DivMod ==
  ASSUME NEW m \in Nat \ {0}, NEW a \in Int
  PROVE  /\ a = m * (a \div m) + (a % m)
         /\ a % m \in 0 .. m - 1 /\ a % m \in Nat /\ a % m \in Int
         /\ a \div m \in Int
<1>1. a = m * (a \div m) + (a % m)
  OBVIOUS
<1>2. a % m \in 0 .. m - 1
  OBVIOUS
<1>3. a \div m \in Int
  OBVIOUS
<1> QED BY <1>1, <1>2, <1>3

\* There is one remainder.
LEMMA ModUnique ==
  ASSUME NEW m \in Nat \ {0}, NEW a \in Int, NEW q \in Int, NEW r \in 0 .. m - 1, a = m * q + r
  PROVE  a % m = r
<1> DEFINE p == a \div m
           s == a % m
<1>1. a = m * p + s /\ s \in 0 .. m - 1 /\ p \in Int
  BY DivMod
<1>2. SUFFICES s = r
  OBVIOUS
<1> HIDE DEF p, s
<1>3. s - r = m * (q - p)
  BY <1>1
<1>4. CASE q - p >= 1
  <2>1. m * (q - p) >= m
    BY <1>1, <1>4
  <2> QED BY <1>1, <1>3, <2>1
<1>5. CASE q - p <= -1
  <2>1. m * (q - p) <= -m
    BY <1>1, <1>5
  <2> QED BY <1>1, <1>3, <2>1
<1>6. CASE q = p
  BY <1>1, <1>6
<1>7. q - p >= 1 \/ q - p <= -1 \/ q = p
  BY <1>1
<1> QED BY <1>4, <1>5, <1>6, <1>7

\* A number below the modulus is its own remainder.
LEMMA ModSmall ==
  ASSUME NEW m \in Nat \ {0}, NEW a \in 0 .. m - 1
  PROVE  a % m = a
<1>1. a \in Int /\ 0 \in Int /\ a = m * 0 + a
  OBVIOUS
<1> QED BY <1>1, ModUnique

\* A remainder may be taken before adding or after.
LEMMA ModAdd ==
  ASSUME NEW m \in Nat \ {0}, NEW a \in Int, NEW b \in Int
  PROVE  ((a % m) + b) % m = (a + b) % m
<1> DEFINE q == a \div m
           s == a % m
           p == (s + b) \div m
           r == (s + b) % m
<1>1. a = m * q + s /\ s \in Int /\ q \in Int
  BY DivMod
<1>2. s + b = m * p + r /\ r \in 0 .. m - 1 /\ p \in Int
  <2> HIDE DEF s
  <2>1. s + b \in Int
    BY <1>1
  <2> QED BY <2>1, DivMod
<1> HIDE DEF q, s, p, r
<1>3. a + b = m * (q + p) + r /\ q + p \in Int /\ a + b \in Int
  BY <1>1, <1>2
<1>4. (a + b) % m = r
  BY <1>2, <1>3, ModUnique
<1> QED BY <1>4 DEF r, s

\* The difference of two remainders has the remainder of the difference.
LEMMA ModDiff ==
  ASSUME NEW m \in Nat \ {0}, NEW a \in Int, NEW b \in Int
  PROVE  ((a % m) - (b % m)) % m = (a - b) % m
<1> DEFINE q == b \div m
           s == b % m
           c == (a - b) % m
           d == (a - b) \div m
<1>1. b = m * q + s /\ s \in Int /\ q \in Int
  BY DivMod
<1>2. ((a % m) + (-s)) % m = (a + (-s)) % m
  <2> HIDE DEF s
  <2>1. -s \in Int
    BY <1>1
  <2> QED BY <2>1, ModAdd
<1>3. a - b = m * d + c /\ c \in 0 .. m - 1 /\ d \in Int
  BY DivMod
<1> HIDE DEF q, s, c, d
<1>4. a + (-s) = m * (d + q) + c /\ d + q \in Int /\ a + (-s) \in Int
  BY <1>1, <1>3
<1>5. (a + (-s)) % m = c
  BY <1>3, <1>4, ModUnique
<1>6. (a % m) - s = (a % m) + (-s)
  <2>1. a % m \in Int
    BY DivMod
  <2> QED BY <1>1, <2>1
<1> QED BY <1>2, <1>5, <1>6 DEF s, c

\* Wrapping at a multiple of n first changes no remainder by n.
LEMMA ModMod ==
  ASSUME NEW m \in Nat \ {0}, NEW n \in Nat \ {0}, m % n = 0, NEW a \in Int
  PROVE  (a % m) % n = a % n
<1> DEFINE k == m \div n
           q == a \div m
           s == a % m
           p == s \div n
           r == s % n
<1>1. m = n * k /\ k \in Int
  BY DivMod
<1>2. a = m * q + s /\ s \in Int /\ q \in Int
  BY DivMod
<1>3. s = n * p + r /\ r \in 0 .. n - 1 /\ p \in Int
  BY <1>2, DivMod
<1> HIDE DEF k, q, s, p, r
<1>4. a = n * (k * q + p) + r /\ k * q + p \in Int
  BY <1>1, <1>2, <1>3
<1>5. a % n = r
  BY <1>3, <1>4, ModUnique
<1> QED BY <1>5 DEF r, s

\* Numbers less than m apart have different remainders.
LEMMA ModDistinct ==
  ASSUME NEW m \in Nat \ {0}, NEW a \in Int, NEW b \in Int, a < b, b - a < m
  PROVE  a % m # b % m
<1> SUFFICES ASSUME a % m = b % m PROVE FALSE
  OBVIOUS
<1>1. ((b % m) - (a % m)) % m = (b - a) % m
  BY ModDiff
<1>2. (b - a) % m = b - a
  <2>1. b - a \in 0 .. m - 1
    OBVIOUS
  <2> QED BY <2>1, ModSmall
<1>3. (b % m) - (a % m) = 0
  <2>1. a % m \in Int
    BY DivMod
  <2> QED BY <2>1
<1>4. 0 % m = 0
  BY ModSmall
<1> QED BY <1>1, <1>2, <1>3, <1>4

-----------------------------------------------------------------------------
(* The ring that counts what was put into it.                              *)

RingInv ==
  /\ count \in Nat /\ put \in Seq(Entries) /\ Len(put) = count
  /\ entries \in [0 .. EntrySlots - 1 -> Entries \cup {NoEntry}]
  /\ \A j \in 1 .. count : j > count - EntrySlots => entries[At(j - 1)] = put[j]

\* Every step of the services preserves the invariant of the trace ring.
LEMMA RingStep == RingInv /\ [Next]_vars => RingInv'
<1> SUFFICES ASSUME RingInv, [Next]_vars PROVE RingInv'
  OBVIOUS
<1>1. EntrySlots \in Nat \ {0}
  BY CountedAssumption
<1>2. ASSUME NEW e \in Entries, Put(e)
      PROVE  RingInv'
  <2>1. entries' = [entries EXCEPT ![At(count)] = e] /\ count' = count + 1 /\ put' = Append(put, e)
    BY <1>2 DEF Put
  <2>2. At(count) \in 0 .. EntrySlots - 1
    BY <1>1, DivMod DEF RingInv, At
  <2>3. /\ put' \in Seq(Entries) /\ Len(put') = count' /\ put'[count + 1] = e
        /\ \A j \in 1 .. count : put'[j] = put[j]
    BY <2>1 DEF RingInv
  <2>4. entries' \in [0 .. EntrySlots - 1 -> Entries \cup {NoEntry}]
    BY <2>1, <2>2 DEF RingInv
  <2>5. ASSUME NEW j \in 1 .. count + 1, j > count + 1 - EntrySlots
        PROVE  entries'[At(j - 1)] = put'[j]
    <3>1. CASE j = count + 1
      <4>1. At(j - 1) = At(count)
        BY <3>1 DEF RingInv
      <4> QED BY <2>1, <2>2, <2>3, <3>1, <4>1 DEF RingInv
    <3>2. CASE j # count + 1
      <4>1. j \in 1 .. count /\ j - 1 \in Int /\ count \in Int /\ j - 1 < count /\ count - (j - 1) < EntrySlots
        BY <1>1, <2>5, <3>2 DEF RingInv
      <4>2. At(j - 1) # At(count)
        BY <1>1, <4>1, ModDistinct DEF At
      <4>3. At(j - 1) \in 0 .. EntrySlots - 1
        BY <1>1, <4>1, DivMod DEF At
      <4>4. entries'[At(j - 1)] = entries[At(j - 1)]
        BY <2>1, <2>2, <4>2, <4>3 DEF RingInv
      <4>5. j > count - EntrySlots
        BY <1>1, <4>1
      <4>6. entries[At(j - 1)] = put[j]
        BY <4>1, <4>5 DEF RingInv
      <4> QED BY <2>3, <4>1, <4>4, <4>6
    <3> QED BY <3>1, <3>2
  <2>6. count' \in Nat
    BY <2>1 DEF RingInv
  <2>7. \A j \in 1 .. count' : j > count' - EntrySlots => entries'[At(j - 1)] = put'[j]
    <3> SUFFICES ASSUME NEW j \in 1 .. count', j > count' - EntrySlots
                 PROVE  entries'[At(j - 1)] = put'[j]
      BY DEF At
    <3>0. count' = count + 1 /\ count \in Int /\ count' \in Int /\ EntrySlots \in Int
      BY <1>1, <2>1 DEF RingInv
    <3>1. j \in 1 .. count + 1 /\ j > count + 1 - EntrySlots
      BY <3>0
    <3> QED BY <2>5, <3>1
  <2> QED BY <2>3, <2>4, <2>6, <2>7 DEF RingInv, At
<1>3. CASE UNCHANGED ringVars
  BY <1>3 DEF RingInv, ringVars, At
<1>4. RingNext \/ UNCHANGED ringVars
  BY DEF Next, Storage, Logins, Securities, Logs, vars
<1> QED BY <1>2, <1>3, <1>4 DEF RingNext

\* The invariant of the trace ring has a dump show the last records.
LEMMA RingInvDumps == RingInv => DumpsLast
<1> SUFFICES ASSUME RingInv, NEW n \in 1 .. EntrySlots
             PROVE  Dump(n) = LET k == IF count < n THEN count ELSE n
                              IN SubSeq(put, Len(put) - k + 1, Len(put))
  BY DEF DumpsLast, AuditDump
<1>1. EntrySlots \in Nat \ {0} /\ count \in Nat /\ Len(put) = count /\ n \in Nat
  BY CountedAssumption DEF RingInv
<1> DEFINE k == IF count < n THEN count ELSE n
           start == IF count > n THEN count - n ELSE 0
           E == Entries \cup {NoEntry}
<1>2. k \in 0 .. count /\ k <= EntrySlots /\ start = count - k /\ count - start = k
  BY <1>1
<1>3. Dump(n) = [i \in 1 .. count - start |-> entries[(start + i - 1) % EntrySlots]]
  BY DEF Dump
<1> HIDE DEF k, start
<1>4. Dump(n) = [i \in 1 .. k |-> entries[(start + i - 1) % EntrySlots]]
  BY <1>2, <1>3
<1>5. ASSUME NEW i \in 1 .. k
      PROVE  Dump(n)[i] = put[count - k + i] /\ Dump(n)[i] \in E
  <2>1. Dump(n)[i] = entries[(start + i - 1) % EntrySlots]
    BY <1>4
  <2>2. count - k + i \in 1 .. count /\ count - k + i > count - EntrySlots
        /\ start + i - 1 = (count - k + i) - 1 /\ start + i - 1 \in Int
    BY <1>1, <1>2
  <2>3. entries[(start + i - 1) % EntrySlots] = put[count - k + i]
    BY <2>2 DEF RingInv, At
  <2>4. (start + i - 1) % EntrySlots \in 0 .. EntrySlots - 1
    BY <1>1, <2>2, DivMod
  <2> QED BY <2>1, <2>3, <2>4 DEF RingInv
<1> DEFINE last == SubSeq(put, count - k + 1, count)
<1>6. last \in Seq(Entries) /\ Len(last) = k /\ \A i \in 1 .. k : last[i] = put[count - k + i]
  <2>1. count - k + 1 \in Int /\ count \in Int
    BY <1>1, <1>2
  <2>2. \A i \in count - k + 1 .. count : put[i] \in Entries
    <3> TAKE i \in count - k + 1 .. count
    <3>1. i \in 1 .. Len(put)
      BY <1>1, <1>2
    <3> QED BY <3>1, ElementOfSeq DEF RingInv
  <2>3. /\ last \in Seq(Entries)
        /\ Len(last) = IF count - k + 1 <= count THEN count - (count - k + 1) + 1 ELSE 0
        /\ \A i \in 1 .. count - (count - k + 1) + 1 : last[i] = put[(count - k + 1) + i - 1]
    BY <2>1, <2>2, SubSeqProperties
  <2> HIDE DEF last
  <2>4. Len(last) = k /\ count - (count - k + 1) + 1 = k
    BY <1>1, <1>2, <2>3
  <2>5. \A i \in 1 .. k : (count - k + 1) + i - 1 = count - k + i
    BY <1>1, <1>2
  <2> QED BY <2>3, <2>4, <2>5
<1> HIDE DEF last
<1>7. last = [i \in 1 .. k |-> last[i]]
  BY <1>6
<1>8. last = Dump(n)
  BY <1>4, <1>5, <1>6, <1>7
<1> QED BY <1>1, <1>8 DEF last, k

-----------------------------------------------------------------------------
(* The log ring (kernel/debug_log.c).                                      *)

Since == Len(logged.since)
Kept  == IF Since < RingSize THEN Since ELSE RingSize

LogTypeOK ==
  /\ logged \in [before : Nat, since : Seq(Messages)]
  /\ log_ring \in [0 .. RingSize - 1 -> Messages \cup {NoMessage}]
  /\ log_drop_count \in Nat

\* Both indices are the numbers of messages, wrapped.
IndicesRight ==
  /\ log_write_idx = Total % IdxMod
  /\ log_read_idx = (Total - Kept) % IdxMod
  /\ log_drop_count = Since - Kept

\* The last messages since the ring was cleared are where their numbers say.
RingHolds == \A j \in 1 .. Since :
  j > Since - RingSize => log_ring[SlotOf(logged.before + j - 1)] = logged.since[j]

\* So is what a CPU has still to print, until the ring has gone round.
PrintersRight == \A c \in Cpus : serial[c] # NotPrinting =>
  /\ serial[c].at \in 1 .. Total
  /\ serial[c].slot = SlotOf(serial[c].at - 1)
  /\ Total - serial[c].at < RingSize => log_ring[serial[c].slot] = serial[c].message

LogInv == LogTypeOK /\ serial = [c \in Cpus |-> serial[c]] /\ IndicesRight /\ RingHolds /\ PrintersRight

\* The arithmetic of the log ring that its proofs use.
LEMMA LogNumbers ==
  ASSUME LogInv
  PROVE  /\ RingSize \in Nat \ {0} /\ IdxMod \in Nat \ {0} /\ IdxMod % RingSize = 0
         /\ IdxMod > RingSize + 1
         /\ Since \in Nat /\ Kept \in 0 .. Since /\ Kept <= RingSize
         /\ logged.before \in Nat /\ Total = logged.before + Since /\ Total \in Nat
<1>1. Since \in Nat /\ logged.before \in Nat /\ Total = logged.before + Since
  BY DEF LogInv, LogTypeOK, Since, Total
<1>2. RingSize \in Nat \ {0} /\ IdxMod \in Nat \ {0} /\ IdxMod % RingSize = 0 /\ IdxMod > RingSize + 1
  BY LogAssumption
<1>3. Kept \in 0 .. Since /\ Kept <= RingSize
  BY <1>1, <1>2 DEF Kept
<1> QED BY <1>1, <1>2, <1>3

\* The distance from the reader to any index is that of the numbers.
LEMMA ReaderDistance ==
  ASSUME LogInv, NEW t \in Int, t - (Total - Kept) \in 0 .. IdxMod - 1
  PROVE  ((t % IdxMod) - log_read_idx) % IdxMod = t - (Total - Kept)
<1>1. Total - Kept \in Int /\ IdxMod \in Nat \ {0}
  BY LogNumbers
<1>2. ((t % IdxMod) - ((Total - Kept) % IdxMod)) % IdxMod = (t - (Total - Kept)) % IdxMod
  BY <1>1, ModDiff
<1>3. (t - (Total - Kept)) % IdxMod = t - (Total - Kept)
  BY <1>1, ModSmall
<1> QED BY <1>2, <1>3 DEF LogInv, IndicesRight

\* log_write preserves the invariant of the log.
LEMMA LogWriteKeeps ==
  ASSUME LogInv, NEW c \in Cpus, NEW level, NEW m \in Messages, LogWrite(c, level, m)
  PROVE  LogInv'
<1>0. PICK T, n, b, k, w, slot :
        /\ T = Total /\ n = Since /\ b = logged.before /\ k = Kept
        /\ w = (log_write_idx + 1) % IdxMod /\ slot = SlotOf(log_write_idx)
  OBVIOUS
<1> DEFINE full == n >= RingSize
<1>1. /\ RingSize \in Nat \ {0} /\ IdxMod \in Nat \ {0} /\ IdxMod % RingSize = 0
      /\ IdxMod > RingSize + 1
      /\ n \in Nat /\ k \in 0 .. n /\ k <= RingSize /\ b \in Nat /\ T = b + n /\ T \in Nat
  BY <1>0, LogNumbers
<1>2. /\ log_ring' = [log_ring EXCEPT ![slot] = m]
      /\ log_write_idx' = w
      /\ log_read_idx' = IF Overflown(w) THEN (w - RingSize) % IdxMod ELSE log_read_idx
      /\ log_drop_count' = IF Overflown(w) THEN log_drop_count + 1 ELSE log_drop_count
      /\ serial' = [serial EXCEPT ![c] = [slot |-> slot, message |-> m, at |-> T + 1]]
      /\ logged' = [logged EXCEPT !.since = Append(@, m)]
  BY <1>0 DEF LogWrite
<1>3. w = (T + 1) % IdxMod /\ w \in Int
  <2>1. log_write_idx = T % IdxMod
    BY <1>0 DEF LogInv, IndicesRight
  <2>2. ((T % IdxMod) + 1) % IdxMod = (T + 1) % IdxMod
    <3>1. T \in Int /\ 1 \in Int
      BY <1>1
    <3> QED BY <1>1, <3>1, ModAdd
  <2>3. (T + 1) % IdxMod \in Int
    BY <1>1, DivMod
  <2> QED BY <1>0, <2>1, <2>2, <2>3
<1>4. slot = SlotOf(T) /\ slot \in 0 .. RingSize - 1 /\ slot # -1
  <2>1. log_write_idx = T % IdxMod
    BY <1>0 DEF LogInv, IndicesRight
  <2>4. T \in Int
    BY <1>1
  <2>2. (T % IdxMod) % RingSize = T % RingSize
    BY <1>1, <2>4, ModMod
  <2>3. T % RingSize \in 0 .. RingSize - 1
    BY <1>1, <2>4, DivMod
  <2>5. slot = SlotOf(T)
    BY <1>0, <2>1, <2>2 DEF SlotOf
  <2>6. slot \in 0 .. RingSize - 1
    BY <2>3, <2>5 DEF SlotOf
  <2>7. -1 \notin 0 .. RingSize - 1
    BY <1>1
  <2> QED BY <2>5, <2>6, <2>7
<1>5. /\ logged' \in [before : Nat, since : Seq(Messages)]
      /\ logged'.before = b /\ Len(logged'.since) = n + 1 /\ logged'.since[n + 1] = m
      /\ \A j \in 1 .. n : logged'.since[j] = logged.since[j]
  <2>1. logged.since \in Seq(Messages) /\ Len(logged.since) = n /\ logged.before = b
    BY <1>0 DEF LogInv, LogTypeOK, Since
  <2>2. /\ Append(logged.since, m) \in Seq(Messages) /\ Len(Append(logged.since, m)) = n + 1
        /\ Append(logged.since, m)[n + 1] = m
        /\ \A j \in 1 .. n : Append(logged.since, m)[j] = logged.since[j]
    BY <2>1
  <2>3. logged' = [before |-> b, since |-> Append(logged.since, m)]
    BY <1>2, <2>1 DEF LogInv, LogTypeOK
  <2> QED BY <1>1, <2>2, <2>3
<1>6. Since' = n + 1 /\ Total' = T + 1
  <2>1. Since' = n + 1
    BY <1>5 DEF Since
  <2>2. Total' = b + (n + 1)
    BY <1>5 DEF Total
  <2> QED BY <1>1, <2>1, <2>2
<1>7. Kept' = IF full THEN RingSize ELSE n + 1
  BY <1>1, <1>6 DEF Kept
<1>8. k = IF full THEN RingSize ELSE n
  BY <1>0, <1>1 DEF Kept
<1>9. Overflown(w) <=> full
  <2>1. T + 1 - (T - k) \in 0 .. IdxMod - 1 /\ T + 1 \in Int /\ T + 1 - (T - k) = k + 1
    BY <1>1
  <2>2. T + 1 - (Total - Kept) \in 0 .. IdxMod - 1
    BY <1>0, <2>1
  <2>3. PICK t : t = T + 1
    OBVIOUS
  <2>6. t \in Int /\ t - (Total - Kept) \in 0 .. IdxMod - 1
    BY <1>0, <1>1, <2>2, <2>3
  <2>7. ((t % IdxMod) - log_read_idx) % IdxMod = t - (Total - Kept)
    BY <2>6, ReaderDistance
  <2>4. (w - log_read_idx) % IdxMod = k + 1
    BY <1>0, <1>1, <1>3, <2>1, <2>3, <2>7
  <2>5. k + 1 > RingSize <=> full
    BY <1>1, <1>8
  <2> QED BY <2>4, <2>5 DEF Overflown
<1>10. IndicesRight'
  <2>1. log_read_idx = (T - k) % IdxMod /\ log_drop_count = n - k
    BY <1>0 DEF LogInv, IndicesRight
  <2>2. CASE full
    <3>1. (((T + 1) % IdxMod) + (-RingSize)) % IdxMod = (T + 1 + (-RingSize)) % IdxMod
      <4>1. T + 1 \in Int /\ -RingSize \in Int
        BY <1>1
      <4> QED BY <1>1, <4>1, ModAdd
    <3>2. w - RingSize = w + (-RingSize) /\ T + 1 - RingSize = T + 1 + (-RingSize)
      BY <1>1, <1>3
    <3>3. log_read_idx' = (T + 1 - RingSize) % IdxMod
      BY <1>2, <1>3, <1>9, <2>2, <3>1, <3>2
    <3>4. log_drop_count' = n + 1 - RingSize
      BY <1>1, <1>2, <1>8, <1>9, <2>1, <2>2
    <3>5. Kept' = RingSize
      BY <1>7, <2>2
    <3>6. log_write_idx' = Total' % IdxMod
      BY <1>2, <1>3, <1>6
    <3>7. log_read_idx' = (Total' - Kept') % IdxMod
      BY <1>1, <1>6, <3>3, <3>5
    <3>8. log_drop_count' = Since' - Kept'
      BY <1>1, <1>6, <3>4, <3>5
    <3> QED BY <3>6, <3>7, <3>8 DEF IndicesRight
  <2>3. CASE ~full
    <3>1. k = n /\ Kept' = n + 1 /\ T - k = T + 1 - (n + 1) /\ n - k = n + 1 - (n + 1)
      BY <1>1, <1>7, <1>8, <2>3
    <3>2. log_read_idx' = (T + 1 - (n + 1)) % IdxMod /\ log_drop_count' = n + 1 - (n + 1)
      BY <1>2, <1>9, <2>1, <2>3, <3>1
    <3>6. log_write_idx' = Total' % IdxMod
      BY <1>2, <1>3, <1>6
    <3>7. log_read_idx' = (Total' - Kept') % IdxMod
      BY <1>1, <1>6, <3>1, <3>2
    <3>8. log_drop_count' = Since' - Kept'
      BY <1>1, <1>6, <3>1, <3>2
    <3> QED BY <3>6, <3>7, <3>8 DEF IndicesRight
  <2> QED BY <2>2, <2>3
<1>11. LogTypeOK'
  <2>1. log_ring' \in [0 .. RingSize - 1 -> Messages \cup {NoMessage}]
    BY <1>2, <1>4 DEF LogInv, LogTypeOK
  <2>2. log_drop_count' \in Nat
    BY <1>2 DEF LogInv, LogTypeOK
  <2> QED BY <1>5, <2>1, <2>2 DEF LogTypeOK
\* The new message overwrites none that is less than the ring's size old.
<1>12. ASSUME NEW a \in Int, a < T, T - a < RingSize
       PROVE  log_ring'[SlotOf(a)] = log_ring[SlotOf(a)]
  <2>1. SlotOf(a) # slot
    <3>1. T \in Int
      BY <1>1
    <3>2. a % RingSize # T % RingSize
      BY <1>1, <1>12, <3>1, ModDistinct
    <3> QED BY <1>4, <3>2 DEF SlotOf
  <2> QED BY <1>2, <2>1 DEF LogInv, LogTypeOK
<1>13. log_ring'[slot] = m
  BY <1>2, <1>4 DEF LogInv, LogTypeOK
<1>14. RingHolds'
  <2> SUFFICES ASSUME NEW j \in 1 .. n + 1, j > n + 1 - RingSize
               PROVE  log_ring'[SlotOf(b + j - 1)] = logged'.since[j]
    <3>1. Since' = n + 1 /\ logged'.before = b /\ n \in Nat /\ RingSize \in Nat /\ b \in Nat
      BY <1>1, <1>5, <1>6
    <3>2. ASSUME NEW j \in 1 .. Since', j > Since' - RingSize
          PROVE  log_ring'[SlotOf(logged'.before + j - 1)] = logged'.since[j]
      <4>1. j \in 1 .. n + 1 /\ j > n + 1 - RingSize
        BY <3>1, <3>2
      <4> QED BY <3>1, <4>1
    <3> QED BY <3>2 DEF RingHolds, SlotOf
  <2>1. CASE j = n + 1
    <3>1. b + j - 1 = T
      BY <1>1, <2>1
    <3> QED BY <1>4, <1>5, <1>13, <2>1, <3>1
  <2>2. CASE j # n + 1
    <3>1. j \in 1 .. n /\ j > n - RingSize /\ b + j - 1 \in Int /\ b + j - 1 < T
          /\ T - (b + j - 1) < RingSize
      BY <1>1, <2>2
    <3>2. log_ring[SlotOf(b + j - 1)] = logged.since[j]
      BY <1>0, <3>1 DEF LogInv, RingHolds
    <3> QED BY <1>5, <1>12, <3>1, <3>2
  <2> QED BY <2>1, <2>2
<1>15. PrintersRight'
  <2> SUFFICES ASSUME NEW d \in Cpus, serial'[d] # NotPrinting
               PROVE  /\ serial'[d].at \in 1 .. T + 1
                      /\ serial'[d].slot = SlotOf(serial'[d].at - 1)
                      /\ T + 1 - serial'[d].at < RingSize =>
                           log_ring'[serial'[d].slot] = serial'[d].message
    <3>1. Total' = T + 1 /\ T \in Nat /\ RingSize \in Nat
      BY <1>1, <1>6
    <3> QED BY <3>1 DEF PrintersRight, SlotOf
  <2>3. serial'[d] # NotPrinting
    OBVIOUS
  <2>1. CASE d = c
    <3>1. serial'[d] = [slot |-> slot, message |-> m, at |-> T + 1]
      BY <1>2, <2>1 DEF LogInv
    <3>2. T + 1 \in 1 .. T + 1 /\ T + 1 - 1 = T
      BY <1>1
    <3>3. serial'[d].slot = slot /\ serial'[d].message = m /\ serial'[d].at = T + 1
      BY <3>1
    <3>4. slot = SlotOf(T) /\ log_ring'[slot] = m
      BY <1>4, <1>13
    <3>5. serial'[d].at \in 1 .. T + 1 /\ serial'[d].at - 1 = T
      BY <1>1, <3>2, <3>3
    <3> QED BY <3>3, <3>4, <3>5
  <2>2. CASE d # c
    <3>1. serial'[d] = serial[d]
      BY <1>2, <2>2 DEF LogInv
    <3>2. /\ serial[d].at \in 1 .. T
          /\ serial[d].slot = SlotOf(serial[d].at - 1)
          /\ T - serial[d].at < RingSize => log_ring[serial[d].slot] = serial[d].message
      BY <1>0, <2>3, <3>1 DEF LogInv, PrintersRight
    <3>3. serial[d].at \in 1 .. T + 1
      BY <1>1, <3>2
    <3>4. ASSUME T + 1 - serial[d].at < RingSize
          PROVE  log_ring'[serial[d].slot] = serial[d].message
      <4>1. serial[d].at - 1 \in Int /\ serial[d].at - 1 < T /\ T - (serial[d].at - 1) < RingSize
            /\ T - serial[d].at < RingSize
        BY <1>1, <3>2, <3>4
      <4> QED BY <1>12, <3>2, <4>1
    <3> QED BY <3>1, <3>2, <3>3, <3>4
  <2> QED BY <2>1, <2>2
<1>16. serial' = [d \in Cpus |-> serial'[d]]
  BY <1>2 DEF LogInv
<1> QED BY <1>10, <1>11, <1>14, <1>15, <1>16 DEF LogInv

\* Every step of the services preserves the invariant of the log.
LEMMA LogStep == LogInv /\ [Next]_vars => LogInv'
<1> SUFFICES ASSUME LogInv, [Next]_vars PROVE LogInv'
  OBVIOUS
<1>1. ASSUME NEW c \in Cpus, NEW l \in LogLevels, NEW m \in Messages, LogWrite(c, l, m)
      PROVE  LogInv'
  BY <1>1, LogWriteKeeps
<1>2. ASSUME UNCHANGED <<log_ring, log_write_idx, log_read_idx, log_drop_count, logged>>
      PROVE  LogTypeOK' /\ IndicesRight' /\ RingHolds' /\ Total' = Total
  BY <1>2 DEF LogInv, LogTypeOK, IndicesRight, RingHolds, Total, Since, Kept, SlotOf
<1>3. ASSUME NEW c \in Cpus, LogPrint(c)
      PROVE  LogInv'
  <2>1. LogTypeOK' /\ IndicesRight' /\ RingHolds' /\ Total' = Total /\ log_ring' = log_ring
    BY <1>2, <1>3 DEF LogPrint
  <2>2. serial' = [serial EXCEPT ![c] = NotPrinting]
    BY <1>3 DEF LogPrint
  <2>3. \A d \in Cpus : serial'[d] = serial[d] \/ serial'[d] = NotPrinting
    BY <2>2 DEF LogInv
  <2>4. PrintersRight'
    BY <2>1, <2>3 DEF LogInv, PrintersRight, SlotOf
  <2>5. serial' = [d \in Cpus |-> serial'[d]]
    BY <2>2 DEF LogInv
  <2> QED BY <2>1, <2>4, <2>5 DEF LogInv
<1>4. ASSUME UNCHANGED <<log_ring, log_write_idx, log_read_idx, log_drop_count, serial, logged>>
      PROVE  LogInv'
  <2>1. LogTypeOK' /\ IndicesRight' /\ RingHolds' /\ Total' = Total
    BY <1>2, <1>4
  <2>2. PrintersRight'
    BY <1>4, <2>1 DEF LogInv, PrintersRight, SlotOf
  <2> QED BY <1>4, <2>1, <2>2 DEF LogInv
<1>5. ASSUME NEW l \in LogLevels, LogSetLevel(l)
      PROVE  LogInv'
  BY <1>4, <1>5 DEF LogSetLevel
<1>6. CASE LogClear
  <2>1. /\ log_read_idx' = log_write_idx /\ log_drop_count' = 0
        /\ logged' = [before |-> Total, since |-> <<>>]
        /\ UNCHANGED <<log_ring, log_write_idx, serial>>
    BY <1>6 DEF LogClear
  <2>2. Total \in Nat /\ RingSize \in Nat \ {0}
    BY LogNumbers
  <2>3. Since' = 0 /\ Kept' = 0 /\ Total' = Total
    BY <2>1, <2>2 DEF Since, Kept, Total
  <2>4. LogTypeOK'
    BY <2>1, <2>2 DEF LogInv, LogTypeOK
  <2>5. IndicesRight'
    BY <2>1, <2>2, <2>3 DEF LogInv, IndicesRight
  <2>6. RingHolds'
    BY <2>3 DEF RingHolds
  <2>7. PrintersRight'
    BY <2>1, <2>3 DEF LogInv, PrintersRight, SlotOf
  <2> QED BY <2>1, <2>4, <2>5, <2>6, <2>7 DEF LogInv
<1>7. LogNext \/ UNCHANGED logVars
  BY DEF Next, Storage, Logins, Securities, Logs, vars
<1> QED BY <1>1, <1>3, <1>4, <1>5, <1>6, <1>7 DEF LogNext, logVars

\* What a reader gets for an index that has not wrapped.
LEMMA LogInvReads == LogInv => LastEntriesReadable /\ PrintsOwnMessage
<1> SUFFICES ASSUME LogInv PROVE LastEntriesReadable /\ PrintsOwnMessage
  OBVIOUS
<1>1. PrintsOwnMessage
  BY DEF LogInv, PrintersRight, PrintsOwnMessage
<1> PICK T, n, k, r, w : T = Total /\ n = Since /\ k = Kept /\ r = log_read_idx /\ w = log_write_idx
  OBVIOUS
<1>2. /\ RingSize \in Nat \ {0} /\ IdxMod \in Nat \ {0} /\ IdxMod % RingSize = 0
      /\ IdxMod > RingSize + 1
      /\ n \in Nat /\ k \in 0 .. n /\ k <= RingSize
      /\ logged.before \in Nat /\ T = logged.before + n /\ T \in Nat
  BY LogNumbers
<1>3. w = T % IdxMod /\ r = (T - k) % IdxMod /\ log_drop_count = n - k
  BY DEF LogInv, IndicesRight
<1>4. (w - r) % IdxMod = k
  <2>1. T - (T - k) \in 0 .. IdxMod - 1 /\ T \in Int /\ T - (T - k) = k
    BY <1>2
  <2> QED BY <1>3, <2>1, ReaderDistance
<1>5. w \in 0 .. IdxMod - 1 /\ r \in 0 .. IdxMod - 1
  <2>1. T \in Int /\ T - k \in Int
    BY <1>2
  <2> QED BY <1>2, <1>3, <2>1, DivMod
<1>6. ASSUME NEW i \in 0 .. RingSize, r <= w, r + i < IdxMod
      PROVE  LogGetEntry(i) = IF i < k THEN logged.since[n - k + 1 + i] ELSE NoMessage
  <2>1. w - r = k
    <3>1. w - r \in 0 .. IdxMod - 1
      BY <1>2, <1>5, <1>6
    <3> QED BY <1>2, <1>4, <3>1, ModSmall
  <2>2. (r + i) % IdxMod = r + i
    <3>1. r + i \in 0 .. IdxMod - 1
      BY <1>2, <1>5, <1>6
    <3> QED BY <1>2, <3>1, ModSmall
  <2>3. r + i >= w <=> ~(i < k)
    BY <1>2, <1>5, <2>1
  <2>4. CASE i < k
    <3>1. n - k + 1 + i \in 1 .. n /\ n - k + 1 + i > n - RingSize
          /\ logged.before + (n - k + 1 + i) - 1 = T - k + i /\ T - k \in Int /\ i \in Int
          /\ T - k + i \in Int
      BY <1>2, <2>4
    <3>2. SlotOf(r + i) = SlotOf(T - k + i)
      <4>1. (r + i) % IdxMod = (T - k + i) % IdxMod
        <5>1. (((T - k) % IdxMod) + i) % IdxMod = (T - k + i) % IdxMod
          BY <1>2, <3>1, ModAdd
        <5> QED BY <1>3, <5>1
      <4>2. r + i \in Int
        BY <1>5, <3>1
      <4>3. ((r + i) % IdxMod) % RingSize = (r + i) % RingSize
        BY <1>2, <4>2, ModMod
      <4>4. ((T - k + i) % IdxMod) % RingSize = (T - k + i) % RingSize
        BY <1>2, <3>1, ModMod
      <4> QED BY <4>1, <4>3, <4>4 DEF SlotOf
    <3>3. log_ring[SlotOf(logged.before + (n - k + 1 + i) - 1)] = logged.since[n - k + 1 + i]
      BY <3>1 DEF LogInv, RingHolds
    <3> QED BY <2>2, <2>3, <2>4, <3>1, <3>2, <3>3 DEF LogGetEntry
  <2>5. CASE ~(i < k)
    BY <2>2, <2>3, <2>5 DEF LogGetEntry
  <2> QED BY <2>4, <2>5
<1>7. k = (IF n < RingSize THEN n ELSE RingSize) /\ n = Len(logged.since)
  BY DEF Kept, Since
<1>8. LastEntriesReadable
  BY <1>3, <1>4, <1>6, <1>7 DEF LastEntriesReadable, LogCount
<1> QED BY <1>1, <1>8

\* The log holds the last messages since it was cleared and counts the others, and
\* lists them in order until an index has wrapped; a CPU prints its own message unless
\* the ring went round; a dump of the other rings lists the last entries in order.
THEOREM LogsCorrect == Spec => []LogsKeepLast
<1>1. Init => LogInv
  <2> SUFFICES ASSUME Init PROVE LogInv
    OBVIOUS
  <2>1. /\ log_ring = [s \in 0 .. RingSize - 1 |-> NoMessage]
        /\ log_write_idx = 0 /\ log_read_idx = 0 /\ log_drop_count = 0
        /\ serial = [c \in Cpus |-> NotPrinting]
        /\ logged = [before |-> 0, since |-> <<>>]
    BY DEF Init, LogInit
  <2>2. RingSize \in Nat \ {0} /\ IdxMod \in Nat \ {0}
    BY LogAssumption
  <2>3. Since = 0 /\ Kept = 0 /\ Total = 0
    BY <2>1, <2>2 DEF Since, Kept, Total
  <2>4. 0 % IdxMod = 0
    BY <2>2, ModSmall
  <2>5. LogTypeOK /\ IndicesRight
    BY <2>1, <2>2, <2>3, <2>4 DEF LogTypeOK, IndicesRight
  <2>6. RingHolds /\ PrintersRight
    BY <2>1, <2>3 DEF RingHolds, PrintersRight
  <2> QED BY <2>1, <2>5, <2>6 DEF LogInv
<1>2. Init => RingInv
  BY CountedAssumption DEF Init, RingInit, RingInv
<1>3. LogInv /\ RingInv => LogsKeepLast
  BY LogInvReads, RingInvDumps DEF LogsKeepLast
<1> QED BY <1>1, <1>2, <1>3, LogStep, RingStep, PTL DEF Spec
=============================================================================
