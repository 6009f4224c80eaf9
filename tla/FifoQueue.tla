----------------------------- MODULE FifoQueue -----------------------------
(***************************************************************************)
(* What a run queue or a wait queue promises: a bounded first-in first-out *)
(* queue without duplicates, from whose middle an entry may be withdrawn   *)
(* without disturbing the order of the others.                             *)
(***************************************************************************)
EXTENDS Naturals, Sequences

CONSTANTS Item, N

VARIABLE queue

Init == queue = <<>>

Enqueue(x) ==
    /\ Len(queue) < N
    /\ \A i \in 1..Len(queue) : queue[i] # x
    /\ queue' = Append(queue, x)

Dequeue == queue # <<>> /\ queue' = Tail(queue)

Withdraw(i) ==
    queue' = SubSeq(queue, 1, i - 1) \o SubSeq(queue, i + 1, Len(queue))

Next ==
    \/ \E x \in Item : Enqueue(x)
    \/ Dequeue
    \/ \E i \in 1..Len(queue) : Withdraw(i)

Spec == Init /\ [][Next]_queue
=============================================================================
