----------------------------- MODULE TaskQueues -----------------------------
(***************************************************************************)
(* The run queue (runqueue.c) and the wait queues (wait_queue.c): rings of *)
(* tasks, the latter with a back pointer in each task, task->wait_queue.   *)
(* The owners of a task change its state freely between two calls, so the  *)
(* state a call finds is an argument here.  Calls that are refused have no *)
(* effect and no action.                                                   *)
(***************************************************************************)
EXTENDS Ring

CONSTANT Queue      \* the wait queues

ASSUME QueueAssumption == NULL \notin Queue

VARIABLES ring,         \* the run queue
          rings,        \* the ring of each wait queue
          wait_queue

vars == <<ring, rings, wait_queue>>

State == {"NEW", "READY", "RUNNING", "BLOCKED", "SLEEPING", "TERMINATED"}

-----------------------------------------------------------------------------
(* The run queue.                                                           *)

runqueue_init == ring = EmptyRing

runqueue_contains(task) == Contains(ring, task)

runqueue_enqueue(task, state) ==
    /\ state = "READY"
    /\ ring.count < N
    /\ ~runqueue_contains(task)
    /\ ring' = Put(ring, task)
    /\ UNCHANGED <<rings, wait_queue>>

runqueue_dequeue ==
    /\ ring.count > 0
    /\ ring' = Take(ring)
    /\ UNCHANGED <<rings, wait_queue>>

runqueue_remove(task) ==
    /\ runqueue_contains(task)
    /\ ring' = Remove(ring, task)
    /\ UNCHANGED <<rings, wait_queue>>

-----------------------------------------------------------------------------
(* Wait queues.                                                             *)

wait_queue_init ==
    /\ rings = [q \in Queue |-> EmptyRing]
    /\ wait_queue = [t \in Item |-> NULL]

wait_queue_enqueue(q, task, state) ==
    /\ state = "BLOCKED"
    /\ rings[q].count < N
    /\ ~Contains(rings[q], task)
    /\ wait_queue[task] = NULL
    /\ rings' = [rings EXCEPT ![q] = Put(@, task)]
    /\ wait_queue' = [wait_queue EXCEPT ![task] = q]
    /\ UNCHANGED ring

\* The back pointer is cleared only if it names this queue.
Disown(q, task) ==
    wait_queue' = [wait_queue EXCEPT ![task] = IF @ = q THEN NULL ELSE @]

\* Mutation: the dequeued task keeps pointing at the queue.
wait_queue_dequeue_KeepOwner(q) ==
    /\ rings[q].count > 0
    /\ rings' = [rings EXCEPT ![q] = Take(@)]
    /\ UNCHANGED <<ring, wait_queue>>

wait_queue_dequeue(q) ==
    /\ rings[q].count > 0
    /\ Disown(q, Front(rings[q]))
    /\ rings' = [rings EXCEPT ![q] = Take(@)]
    /\ UNCHANGED ring

wait_queue_remove(q, task) ==
    /\ Contains(rings[q], task)
    /\ rings' = [rings EXCEPT ![q] = Remove(@, task)]
    /\ Disown(q, task)
    /\ UNCHANGED ring

-----------------------------------------------------------------------------
Init == runqueue_init /\ wait_queue_init

Next ==
    \/ \E task \in Item, state \in State : runqueue_enqueue(task, state)
    \/ \E task \in Item : runqueue_remove(task)
    \/ runqueue_dequeue
    \/ \E q \in Queue, task \in Item, state \in State : wait_queue_enqueue(q, task, state)
    \/ \E q \in Queue, task \in Item : wait_queue_remove(q, task)
    \/ \E q \in Queue : wait_queue_dequeue(q)

Spec == Init /\ [][Next]_vars

-----------------------------------------------------------------------------
(* Properties.                                                              *)

\* wait_queue.c:78 "A task may have exactly one wait-queue owner": the back
\* pointer of a task names the one queue whose ring holds it, once; and every
\* ring keeps indices, count and slots in agreement, with no stale task
\* pointer outside its window.
OneOwner ==
    /\ \A q \in Queue, t \in Item :
          wait_queue[t] = q <=> Contains(rings[q], t)
    /\ \A q \in Queue : \A i, j \in 1..rings[q].count :
          Contents(rings[q])[i] = Contents(rings[q])[j] => i = j
    /\ WellFormed(ring) /\ \A q \in Queue : WellFormed(rings[q])

Runnable == INSTANCE FifoQueue WITH queue <- Contents(ring)
Waiting(q) == INSTANCE FifoQueue WITH queue <- Contents(rings[q])

\* runqueue.c:138 "Compact the FIFO sequence so ordering of all remaining
\* runnable tasks is preserved", and wait_queue.c:166 the same of waiters:
\* through every wrap-around and removal, each ring implements a bounded FIFO
\* queue without duplicates.
QueuesAreFifo ==
    /\ Runnable!Spec
    /\ \A q \in Queue : Waiting(q)!Init
    /\ [][\A q \in Queue : Waiting(q)!Next \/ UNCHANGED Contents(rings[q])]_vars
=============================================================================
