-------------------------------- MODULE Heap --------------------------------
(***************************************************************************)
(* The kernel heap (mm/heap/heap.c): a doubly linked list of blocks in a   *)
(* static arena, first fit with splitting, and coalescing with both        *)
(* neighbours. An address is an offset into the arena, which is aligned.   *)
(***************************************************************************)
EXTENDS Integers, FiniteSets, FiniteSetsExt

CONSTANTS HEAP_ALIGNMENT, HEAP_ARENA_SIZE, HEAP_MIN_SPLIT_SIZE,
          HEADER,           \* sizeof(struct heap_block)
          UINT_MAX,         \* the largest uint64_t
          Request           \* the sizes callers ask for

ASSUME HeapAssumption ==
    /\ HEAP_ALIGNMENT \in Nat \ {0}
    /\ HEADER \in Nat \ {0} /\ HEADER % HEAP_ALIGNMENT = 0
    /\ HEAP_MIN_SPLIT_SIZE \in Nat \ {0}
    /\ HEAP_ARENA_SIZE \in Nat /\ HEAP_ARENA_SIZE > HEADER
    /\ HEAP_ARENA_SIZE % HEAP_ALIGNMENT = 0
    /\ UINT_MAX \in Nat /\ UINT_MAX >= HEAP_ARENA_SIZE
    /\ Request \subseteq 0..UINT_MAX

NoBlock == -1     \* a null pointer to a block

VARIABLES block,            \* the headers on the list, by address
          heap_first_block,
          heap_allocated_bytes, heap_free_bytes,
          live              \* payloads callers own, with the size they asked for

heap_vars == <<block, heap_first_block, heap_allocated_bytes, heap_free_bytes, live>>

block_payload(b) == b + HEADER
Past(b) == b + HEADER + block[b].size

-----------------------------------------------------------------------------
HeapInit ==
    /\ block = << >>
    /\ heap_first_block = NoBlock
    /\ heap_allocated_bytes = 0
    /\ heap_free_bytes = 0
    /\ live = << >>

heap_init ==
    /\ heap_first_block = NoBlock
    /\ heap_first_block' = 0
    /\ block' = [b \in {0} |-> [size |-> HEAP_ARENA_SIZE - HEADER, state |-> "FREE",
                                previous |-> NoBlock, next |-> NoBlock]]
    /\ heap_allocated_bytes' = 0
    /\ heap_free_bytes' = HEAP_ARENA_SIZE - HEADER
    /\ UNCHANGED live

align_up_safe(value) ==
    IF value > UINT_MAX - (HEAP_ALIGNMENT - 1) THEN 0
    ELSE (value + HEAP_ALIGNMENT - 1) - ((value + HEAP_ALIGNMENT - 1) % HEAP_ALIGNMENT)

Splits(b, aligned_size) ==
    block[b].size - aligned_size >= HEADER + HEAP_MIN_SPLIT_SIZE

\* Mutation: a block that is in use fits too.
Fits_AnyState(b, aligned_size) == block[b].size >= aligned_size

Fits(b, aligned_size) ==
    block[b].state = "FREE" /\ block[b].size >= aligned_size

\* A new header behind the first aligned_size bytes of b, linked after b.
Split(b, aligned_size) ==
    LET split == block_payload(b) + aligned_size
        next == block[b].next
    IN  [a \in DOMAIN block \cup {split} |->
            IF a = split
              THEN [size |-> block[b].size - aligned_size - HEADER, state |-> "FREE",
                    previous |-> b, next |-> next]
            ELSE IF a = b THEN [block[b] EXCEPT !.size = aligned_size,
                                                !.next = split,
                                                !.state = "USED"]
            ELSE IF a = next THEN [block[a] EXCEPT !.previous = split]
            ELSE block[a]]

\* Mutation: the header of the split is not subtracted from the free bytes.
kmalloc_SplitHeaderNotCounted(size) ==
    LET aligned_size == align_up_safe(size) IN
    /\ size # 0 /\ aligned_size # 0
    /\ \E b \in DOMAIN block :
        /\ Fits(b, aligned_size)
        /\ \A c \in DOMAIN block : Fits(c, aligned_size) => b <= c
        /\ IF Splits(b, aligned_size)
             THEN block' = Split(b, aligned_size)
             ELSE block' = [block EXCEPT ![b].state = "USED"]
        /\ heap_free_bytes' = heap_free_bytes - block'[b].size
        /\ heap_allocated_bytes' = heap_allocated_bytes + block'[b].size
        /\ live' = [p \in DOMAIN live \cup {block_payload(b)} |->
                       IF p = block_payload(b) THEN size ELSE live[p]]
    /\ UNCHANGED heap_first_block

\* First fit. The list is walked from heap_first_block; it is in address
\* order (ListFollowsTheArena), so the first block is the lowest.
kmalloc(size) ==
    LET aligned_size == align_up_safe(size) IN
    /\ size # 0 /\ aligned_size # 0
    /\ \E b \in DOMAIN block :
        /\ Fits(b, aligned_size)
        /\ \A c \in DOMAIN block : Fits(c, aligned_size) => b <= c
        /\ IF Splits(b, aligned_size)
             THEN /\ block' = Split(b, aligned_size)
                  /\ heap_free_bytes' = heap_free_bytes - HEADER - aligned_size
             ELSE /\ block' = [block EXCEPT ![b].state = "USED"]
                  /\ heap_free_bytes' = heap_free_bytes - block[b].size
        /\ heap_allocated_bytes' = heap_allocated_bytes + block'[b].size
        /\ live' = [p \in DOMAIN live \cup {block_payload(b)} |->
                       IF p = block_payload(b) THEN size ELSE live[p]]
    /\ UNCHANGED heap_first_block

\* The list without the header `gone', whose bytes join the block before it.
Joined(list, b, gone) ==
    LET next == list[gone].next IN
    [a \in DOMAIN list \ {gone} |->
        IF a = b THEN [list[b] EXCEPT !.size = @ + HEADER + list[gone].size,
                                      !.next = next]
        ELSE IF a = next THEN [list[a] EXCEPT !.previous = b]
        ELSE list[a]]

\* Mutation: the free block behind is not merged.
MergeNext_Never(list, b) == list

MergeNext(list, b) ==
    IF list[b].next # NoBlock /\ list[list[b].next].state = "FREE"
      THEN Joined(list, b, list[b].next) ELSE list

MergePrevious(list, b) ==
    IF list[b].previous # NoBlock /\ list[list[b].previous].state = "FREE"
      THEN Joined(list, list[b].previous, b) ELSE list

\* An address that kfree returns on without doing anything: no block on the
\* list has that payload, or the block is not in use, or its bounds are wrong.
FreeRefused(ptr) ==
    LET b == ptr - HEADER IN
    \/ b \notin DOMAIN block
    \/ block[b].state # "USED"
    \/ block[b].size = 0
    \/ block[b].size > HEAP_ARENA_SIZE - HEADER
    \/ block[b].size > HEAP_ARENA_SIZE - ptr

\* kfree of any address: what kmalloc returned, freed twice, or inside or
\* outside a block.
kfree(ptr) ==
    LET b == ptr - HEADER
        freed == [block EXCEPT ![b].state = "FREE"]
        merged == MergeNext(freed, b)
        final == MergePrevious(merged, b)
    IN  IF FreeRefused(ptr)
          THEN UNCHANGED heap_vars
          ELSE /\ block' = final
               /\ heap_allocated_bytes' = heap_allocated_bytes - block[b].size
               /\ heap_free_bytes' =
                     heap_free_bytes + block[b].size
                       + (IF merged # freed THEN HEADER ELSE 0)
                       + (IF final # merged THEN HEADER ELSE 0)
               /\ live' = [p \in DOMAIN live \ {ptr} |-> live[p]]
               /\ UNCHANGED heap_first_block

HeapNext ==
    \/ heap_init
    \/ \E size \in Request : kmalloc(size)
    \/ \E ptr \in 0..(HEAP_ARENA_SIZE - 1) : kfree(ptr)

HeapSpec == HeapInit /\ [][HeapNext]_heap_vars

-----------------------------------------------------------------------------
\* The list is the arena: every block ends where its successor begins, the
\* successor's back pointer returns to it, the last block ends with the arena
\* and no block is outside the list. So no payload reaches into a header or
\* into another payload. kfree leaves no two free neighbours (heap.c:252,
\* :281), so when everything has been freed the heap is one block again.
ListFollowsTheArena ==
    \A b \in DOMAIN block :
        /\ b = heap_first_block <=> block[b].previous = NoBlock
        /\ IF block[b].next = NoBlock
             THEN Past(b) = HEAP_ARENA_SIZE
             ELSE /\ block[b].next = Past(b)
                  /\ block[block[b].next].previous = b
                  /\ "USED" \in {block[b].state, block[block[b].next].state}
        /\ \A c \in DOMAIN block : b < c => Past(b) <= c

BytesIn(state) ==
    MapThenSumSet(LAMBDA b : block[b].size,
                  {b \in DOMAIN block : block[b].state = state})

\* The two byte counters are the payload bytes in use and free, through every
\* split and merge.
CountersAreTheSums ==
    /\ heap_allocated_bytes = BytesIn("USED")
    /\ heap_free_bytes = BytesIn("FREE")

Abstract == INSTANCE Allocator
              WITH ArenaSize <- HEAP_ARENA_SIZE, Alignment <- HEAP_ALIGNMENT

\* The block list implements the abstract allocator: what is returned never
\* overlaps what callers own.
ImplementsAllocator == Abstract!Spec
=============================================================================
