---------------------------- MODULE MCExecution ----------------------------
(***************************************************************************)
(* Execution with a record of what the owners held when the transaction in *)
(* progress began, to state that a refused call leaves no trace.           *)
(***************************************************************************)
EXTENDS Execution, TLC

VARIABLE before     \* the owners' state when the transaction began

MCvars == <<vars, before>>

\* Everything the owners hold.
Owned == <<tables, runqueue, pending,
           [p \in Process |-> Members(p)], mapped, free, others>>

MCInit == Init /\ before = <<>>

MCNext ==
    /\ Next
    /\ before' = IF pc' = "idle" THEN <<>>
                 ELSE IF pc = "idle" THEN Owned ELSE before

MCSpec == MCInit /\ [][MCNext]_MCvars

\* A call that ends in an error code leaves registries, memberships, queues,
\* stack mappings and free frames as they were when it began, at whatever
\* step it failed.
RefusalLeavesNoTrace ==
    [][pc # "idle" /\ pc' = "idle" /\ result' = "refused"
         => Owned' = before]_MCvars

Symmetry == Permutations(Task) \cup Permutations(Process)
=============================================================================
