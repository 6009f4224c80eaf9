----------------------------- MODULE Allocator -----------------------------
(***************************************************************************)
(* What a heap promises: every live allocation is an aligned range of the  *)
(* arena that overlaps no other, until it is given back.                   *)
(***************************************************************************)
EXTENDS Integers

CONSTANTS ArenaSize, Alignment

VARIABLE live       \* start address -> length, for each live allocation

Bytes(start, length) == start..(start + length - 1)

Init == live = << >>

Allocate ==
    \E start \in (0..ArenaSize-1) \ DOMAIN live :
        /\ start % Alignment = 0
        /\ DOMAIN live' = DOMAIN live \cup {start}
        /\ live'[start] \in 1..(ArenaSize - start)
        /\ \A other \in DOMAIN live :
              /\ live'[other] = live[other]
              /\ Bytes(other, live[other]) \cap Bytes(start, live'[start]) = {}

Release ==
    \E start \in DOMAIN live :
        live' = [other \in DOMAIN live \ {start} |-> live[other]]

Next == Allocate \/ Release

Spec == Init /\ [][Next]_live
=============================================================================
