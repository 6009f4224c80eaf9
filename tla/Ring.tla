-------------------------------- MODULE Ring --------------------------------
(***************************************************************************)
(* The fixed-capacity ring that the run queue (runqueue.c), the wait       *)
(* queues (wait_queue.c) and the lifecycle publication queue (lifecycle.c) *)
(* each implement: N slots, head and tail indices, and an active count.    *)
(***************************************************************************)
EXTENDS Integers, Sequences

CONSTANTS Item, N, NULL

ASSUME RingAssumption == N \in Nat \ {0} /\ NULL \notin Item

RingType == [slots : [0..N-1 -> Item \cup {NULL}],
             head : 0..N-1, tail : 0..N-1, count : 0..N]

EmptyRing == [slots |-> [p \in 0..N-1 |-> NULL],
              head |-> 0, tail |-> 0, count |-> 0]

\* The slot of the entry with logical index i.
Slot(ring, i) == (ring.head + i) % N

Contains(ring, x) == \E i \in 0..ring.count-1 : ring.slots[Slot(ring, i)] = x

Put(ring, x) ==
    [slots |-> [ring.slots EXCEPT ![ring.tail] = x],
     head |-> ring.head,
     tail |-> (ring.tail + 1) % N,
     count |-> ring.count + 1]

Front(ring) == ring.slots[ring.head]

Take(ring) ==
    [slots |-> [ring.slots EXCEPT ![ring.head] = NULL],
     head |-> (ring.head + 1) % N,
     tail |-> ring.tail,
     count |-> ring.count - 1]

\* The logical index at which slot p lies.
IndexOf(ring, p) == (p + N - ring.head) % N

\* Mutation: the hole is filled with the last entry instead of compacting.
RemoveAt_SwapLast(ring, index) ==
    LET last == (ring.tail + N - 1) % N IN
    [slots |-> [ring.slots EXCEPT ![Slot(ring, index)] = ring.slots[last],
                                  ![last] = NULL],
     head |-> ring.head,
     tail |-> last,
     count |-> ring.count - 1]

\* Every entry behind `index' moves one slot towards the head.
RemoveAt(ring, index) ==
    LET last == (ring.tail + N - 1) % N IN
    [slots |-> [p \in 0..N-1 |->
                   IF p = last THEN NULL
                   ELSE IF IndexOf(ring, p) \in index..ring.count-2
                          THEN ring.slots[(p + 1) % N]
                          ELSE ring.slots[p]],
     head |-> ring.head,
     tail |-> last,
     count |-> ring.count - 1]

\* The first entry that holds x, and the ring without it.
Remove(ring, x) ==
    RemoveAt(ring, CHOOSE i \in 0..ring.count-1 :
                      /\ ring.slots[Slot(ring, i)] = x
                      /\ \A j \in 0..i-1 : ring.slots[Slot(ring, j)] # x)

-----------------------------------------------------------------------------
\* The queue a ring stands for.
Contents(ring) == [i \in 1..ring.count |-> ring.slots[Slot(ring, i - 1)]]

\* Indices, count and slots agree: the tail follows the last entry, entries
\* are items, and every slot outside the window is NULL.
WellFormed(ring) ==
    /\ ring \in RingType
    /\ ring.tail = Slot(ring, ring.count)
    /\ \A p \in 0..N-1 :
          ring.slots[p] \in Item <=> IndexOf(ring, p) < ring.count
=============================================================================
