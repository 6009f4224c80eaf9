------------------------------ MODULE Ownership ------------------------------
(***************************************************************************)
(* What the execution layer promises: an execution unit is published with  *)
(* all its owners at once, under an identity no other unit holds, and      *)
(* withdrawn from all of them at once.                                     *)
(***************************************************************************)
EXTENDS Naturals

CONSTANTS Task, Tid, NULL

VARIABLE published      \* the identity under which a task is published

Init == published = [t \in Task |-> NULL]

Publish(t, tid) ==
    /\ published[t] = NULL
    /\ \A u \in Task : published[u] # tid
    /\ published' = [published EXCEPT ![t] = tid]

Withdraw(t) ==
    /\ published[t] # NULL
    /\ published' = [published EXCEPT ![t] = NULL]

Next ==
    \E t \in Task : Withdraw(t) \/ \E tid \in Tid : Publish(t, tid)

Spec == Init /\ [][Next]_published
=============================================================================
