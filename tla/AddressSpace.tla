---------------------------- MODULE AddressSpace -----------------------------
(* What a translation table promises: a mapping of virtual pages that        *)
(* changes one page at a time, and only when that page is mapped or          *)
(* unmapped.                                                                 *)
CONSTANTS VAs, PAs, NONE

VARIABLE map

Init == map = [va \in VAs |-> NONE]

Map(va, pa) == map' = [map EXCEPT ![va] = pa]
Unmap(va) == map' = [map EXCEPT ![va] = NONE]

Next == \E va \in VAs : Unmap(va) \/ \E pa \in PAs : Map(va, pa)

Spec == Init /\ [][Next]_map
=============================================================================
