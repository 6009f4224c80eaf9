-------------------------- MODULE MCHeapAndQueues --------------------------
(***************************************************************************)
(* The heap and the task queues for TLC. They have no variable in common   *)
(* and neither calls the other, so a step of one is the same whatever      *)
(* state the other is in: each is explored while the other is at rest.     *)
(***************************************************************************)
EXTENDS Heap, TaskQueues

MCInit == HeapInit /\ Init

MCNext ==
    \/ HeapNext /\ Init /\ UNCHANGED vars
    \/ Next /\ HeapInit /\ UNCHANGED heap_vars

MCSpec == MCInit /\ [][MCNext]_<<heap_vars, vars>>
=============================================================================
