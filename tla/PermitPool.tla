----------------------------- MODULE PermitPool -----------------------------
(***************************************************************************)
(* What dispatch backpressure promises: handler chains share Permits        *)
(* permits, a chain holds one at most, and permits only move by one chain   *)
(* taking a free one or giving its own back.                                *)
(***************************************************************************)
EXTENDS Integers

CONSTANTS Chains, Permits

VARIABLES
    free,       \* the number of permits no chain holds
    holders     \* the chains that hold one

Take(c) ==
    /\ c \notin holders /\ free > 0
    /\ holders' = holders \cup {c}
    /\ free' = free - 1

Give(c) ==
    /\ c \in holders
    /\ holders' = holders \ {c}
    /\ free' = free + 1

Init == holders = {} /\ free = Permits
Next == \E c \in Chains : Take(c) \/ Give(c)
Spec == Init /\ [][Next]_<<free, holders>>
=============================================================================
