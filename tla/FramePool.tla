----------------------------- MODULE FramePool -----------------------------
(***************************************************************************)
(* What the physical memory manager promises its clients: a pool that is   *)
(* filled once, from which a frame is taken by one client at a time and to *)
(* which it comes back only from there.                                    *)
(***************************************************************************)
EXTENDS Naturals

CONSTANT Frame

VARIABLES free, held

Init == free = {} /\ held = {}

Fill ==
    /\ free = {} /\ held = {}
    /\ free' \subseteq Frame \ {0}
    /\ UNCHANGED held

Take(f) ==
    /\ f \in free
    /\ free' = free \ {f}
    /\ held' = held \cup {f}

Return(f) ==
    /\ f \in held
    /\ free' = free \cup {f}
    /\ held' = held \ {f}

Next == Fill \/ \E f \in Frame : Take(f) \/ Return(f)

Spec == Init /\ [][Next]_<<free, held>>
=============================================================================
