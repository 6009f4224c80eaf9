SPECIFICATION MCSpec
CONSTANTS
    HEAP_ALIGNMENT = 2
    HEAP_ARENA_SIZE = 40
    HEAP_MIN_SPLIT_SIZE = 4
    HEADER = 4
    UINT_MAX = 47
    Request = {0, 1, 4, 5, 10, 16, 47}
    Item = {t1, t2, t3, t4}
    Queue = {q1, q2}
    N = 3
    NULL = NULL
INVARIANTS
    ListFollowsTheArena
    CountersAreTheSums
    OneOwner
PROPERTIES
    ImplementsAllocator
    QueuesAreFifo
