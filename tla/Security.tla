------------------------------ MODULE Security ------------------------------
(***************************************************************************)
(* kernel/security.c: the capabilities of contexts, sandboxes with their   *)
(* rules, and the access check that puts them together.                    *)
(***************************************************************************)
EXTENDS Naturals, Sequences, FiniteSets

CONSTANTS Contexts,       \* security contexts besides the kernel's
          PrivLevels,         \* privilege levels, 0 is the kernel's
          CapsOf(_),      \* level -> its default capabilities
          Boxes,          \* sandboxes
          RuleTypes,      \* of sandbox rules
          Targets,        \* what rules match
          Patterns,       \* sets of targets: what a pattern matches
          MaxRules        \* SANDBOX_MAX_RULES

ASSUME SecurityAssumption == /\ 0 \in PrivLevels /\ MaxRules \in Nat \ {0}
                             /\ "kernel" \notin Contexts /\ "NULL" \notin Boxes

VARIABLES ctx,            \* context -> [priv_level, cap_effective, in_sandbox]
          boxes,          \* sandbox -> [rules, active]
          active_sandbox  \* a sandbox, or NoBox

securityVars == <<ctx, boxes, active_sandbox>>

Kernel == "kernel"
NoBox  == "NULL"
AllCaps == UNION {CapsOf(l) : l \in PrivLevels}

\* security_context_init; security_init does the same for the kernel's context.
SecurityContextInit(c, l) ==
    /\ ctx' = [ctx EXCEPT ![c] = [priv_level |-> l, cap_effective |-> CapsOf(l), in_sandbox |-> FALSE]]
    /\ UNCHANGED <<boxes, active_sandbox>>

SecurityCheckCap(c, cap) == ctx[c].priv_level = 0 \/ cap \in ctx[c].cap_effective

SecurityGrantCap(c, cap) ==
    /\ ctx[c].priv_level = 0
    /\ ctx' = [ctx EXCEPT ![c].cap_effective = @ \cup {cap}]
    /\ UNCHANGED <<boxes, active_sandbox>>

SecurityRevokeCap(c, cap) ==
    /\ ctx' = [ctx EXCEPT ![c].cap_effective = @ \ {cap}]
    /\ UNCHANGED <<boxes, active_sandbox>>

\* Mutant of CapsAt: the capabilities stay when the level changes.
CapsAtKept(c, l) == ctx[c].cap_effective

\* The capabilities a context has after a change to level l.
CapsAt(c, l) == CapsOf(l)

SecuritySetPrivilege(c, l) ==
    /\ ctx' = [ctx EXCEPT ![c].priv_level = l, ![c].cap_effective = CapsAt(c, l)]
    /\ UNCHANGED <<boxes, active_sandbox>>

(***************************************************************************)
(* Sandboxes                                                               *)
(***************************************************************************)
NewBox == [rules |-> <<>>, active |-> FALSE]

SandboxInit(b) == /\ boxes' = [boxes EXCEPT ![b] = NewBox]
                  /\ UNCHANGED <<ctx, active_sandbox>>

SandboxAddRule(b, t, allow, p) ==
    /\ Len(boxes[b].rules) < MaxRules
    /\ boxes' = [boxes EXCEPT ![b].rules = Append(@, [type |-> t, allow |-> allow, pattern |-> p])]
    /\ UNCHANGED <<ctx, active_sandbox>>

\* The loop of sandbox_check: a rule that matches replaces the result so far.
Matches(r, t, x) == r.type = t /\ x \in r.pattern

\* Mutant of Verdict: the first match is kept.
VerdictFirst(so_far, r, t, x) ==
    IF so_far = "none" /\ Matches(r, t, x) THEN IF r.allow THEN "allow" ELSE "deny" ELSE so_far

Verdict(so_far, r, t, x) ==
    IF Matches(r, t, x) THEN IF r.allow THEN "allow" ELSE "deny" ELSE so_far

RuleResult(rules, t, x) ==
    LET after[i \in 0 .. Len(rules)] ==
            IF i = 0 THEN "none" ELSE Verdict(after[i - 1], rules[i], t, x)
    IN after[Len(rules)]

\* The default is to deny; a sandbox that is not active allows everything.
SandboxCheck(b, t, x) == ~boxes[b].active \/ RuleResult(boxes[b].rules, t, x) = "allow"

SandboxEnter(b) ==
    /\ boxes' = [boxes EXCEPT ![b].active = TRUE]
    /\ active_sandbox' = b
    /\ ctx' = [ctx EXCEPT ![Kernel].in_sandbox = TRUE]

\* Leaving any sandbox unmarks the kernel's context.
SandboxLeave(b) ==
    /\ boxes' = [boxes EXCEPT ![b].active = FALSE]
    /\ active_sandbox' = IF active_sandbox = b THEN NoBox ELSE active_sandbox
    /\ ctx' = [ctx EXCEPT ![Kernel].in_sandbox = FALSE]

\* security_check_access for one access right, whose rule type is t; capabilities are
\* asked for reading and writing.
SecurityCheckAccess(c, t, x, asksCap) ==
    /\ (ctx[c].in_sandbox /\ active_sandbox # NoBox /\ boxes[active_sandbox].active)
           => SandboxCheck(active_sandbox, t, x)
    /\ asksCap => SecurityCheckCap(c, "fs")

SecurityInit ==
    /\ ctx = [c \in Contexts \cup {Kernel} |->
                 [priv_level |-> 0, cap_effective |-> CapsOf(0), in_sandbox |-> FALSE]]
    /\ boxes = [b \in Boxes |-> NewBox]
    /\ active_sandbox = NoBox

ContextCalls ==
    \E c \in Contexts :
        \/ \E l \in PrivLevels : SecurityContextInit(c, l) \/ SecuritySetPrivilege(c, l)
        \/ \E cap \in AllCaps : SecurityGrantCap(c, cap) \/ SecurityRevokeCap(c, cap)

SandboxCalls ==
    \E b \in Boxes :
        \/ SandboxInit(b) \/ SandboxEnter(b) \/ SandboxLeave(b)
        \/ \E t \in RuleTypes, allow \in BOOLEAN, p \in Patterns : SandboxAddRule(b, t, allow, p)
-----------------------------------------------------------------------------
\* A context below the kernel has no capability its level does not give it, whatever
\* it was granted, lost or was before.
CapsWithinLevel ==
    \A c \in Contexts : ctx[c].priv_level # 0 =>
        ctx[c].cap_effective \subseteq CapsOf(ctx[c].priv_level)

\* The kernel, inside a sandbox, is held to the last rule that matches, and to none
\* outside: the access check allows reading exactly when that rule allows it, however
\* sandboxes were nested, left in another order or given rules while inside.  It is
\* inside only while a sandbox is the active one.
LastRule(b, t, x) ==
    LET hits == {i \in DOMAIN boxes[b].rules : Matches(boxes[b].rules[i], t, x)}
    IN hits # {} /\ boxes[b].rules[CHOOSE i \in hits : \A j \in hits : j <= i].allow

HeldToLastRule ==
    /\ ctx[Kernel].in_sandbox => active_sandbox # NoBox
    /\ \A t \in RuleTypes, x \in Targets :
        SecurityCheckAccess(Kernel, t, x, TRUE) <=>
            \/ ~ctx[Kernel].in_sandbox
            \/ ~boxes[active_sandbox].active
            \/ LastRule(active_sandbox, t, x)
=============================================================================
