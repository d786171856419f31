-------------------------------- MODULE Mutex --------------------------------
(***************************************************************************)
(* What a lock of kernel/spinlock.c promises its users: it is taken by one *)
(* CPU at a time, and only after whoever had it has given it back.         *)
(***************************************************************************)
CONSTANT CPUs

VARIABLE holders    \* the CPUs that have the lock

Init == holders = {}

Acquire(c) == holders = {} /\ holders' = {c}

Release(c) == holders = {c} /\ holders' = {}

Next == \E c \in CPUs : Acquire(c) \/ Release(c)

Spec == Init /\ [][Next]_holders
=============================================================================
