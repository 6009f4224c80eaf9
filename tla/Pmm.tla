-------------------------------- MODULE Pmm --------------------------------
(***************************************************************************)
(* The physical memory manager (mm/pmm/pmm.c): a bitmap of frames, one bit *)
(* per page of physical memory, built from the boot loader's memory map    *)
(* and stored in the first usable range that can hold it.                  *)
(***************************************************************************)
EXTENDS Integers, Sequences, FiniteSets

CONSTANTS PAGE_SIZE,        \* bytes in a frame
          BYTE_BITS,        \* frames recorded by one byte of the bitmap
          MemoryMap,        \* the memory maps the boot loader may hand over
          UINT_MAX          \* the largest address; physical memory ends below it

ASSUME PmmAssumption ==
    /\ PAGE_SIZE \in Nat \ {0}
    /\ BYTE_BITS \in Nat \ {0}
    /\ UINT_MAX \in Nat
    /\ \A m \in MemoryMap :
          /\ m \in Seq([base : Nat, length : Nat, type : {"usable", "other"}])
          /\ \A i \in DOMAIN m : m[i].base + m[i].length + PAGE_SIZE <= UINT_MAX

VARIABLES memmap,           \* the response to the memory map request
          frame_bitmap,     \* the frames whose bit is BITMAP_USED
          bitmap_physical, bitmap_size,
          total_frames, free_frames,
          initialised,      \* pmm_init has returned
          held              \* frames that clients took and did not give back

vars == <<memmap, frame_bitmap, bitmap_physical, bitmap_size,
          total_frames, free_frames, initialised, held>>

-----------------------------------------------------------------------------
align_up(value) == ((value + PAGE_SIZE - 1) \div PAGE_SIZE) * PAGE_SIZE

\* Mutation: the end of a range is rounded outwards.
align_down_Outwards(value) == align_up(value)

align_down(value) == (value \div PAGE_SIZE) * PAGE_SIZE

Start(entry) == align_up(entry.base)
End(entry) == align_down(entry.base + entry.length)

\* The frames that lie in an entry with all their bytes.
FramesOf(entry) == {f \in 0..(End(entry) \div PAGE_SIZE) :
                       /\ f * PAGE_SIZE >= Start(entry)
                       /\ f * PAGE_SIZE < End(entry)}

\* Every USABLE entry of the memory map.
UsableEntries == {memmap[i] : i \in {j \in DOMAIN memmap : memmap[j].type = "usable"}}

UsableFrames == UNION {FramesOf(e) : e \in UsableEntries}

\* The first usable entry, in the order of the map, that can hold the bitmap.
find_bitmap_location(size) ==
    LET Fits(i) == /\ memmap[i].type = "usable"
                   /\ End(memmap[i]) > Start(memmap[i])
                   /\ End(memmap[i]) - Start(memmap[i]) >= size
        fitting == {i \in DOMAIN memmap : Fits(i)}
    IN  IF fitting = {} THEN 0
        ELSE Start(memmap[CHOOSE i \in fitting : \A j \in fitting : i <= j])

highest_address ==
    LET ends == {0} \cup {memmap[i].base + memmap[i].length : i \in DOMAIN memmap}
    IN  CHOOSE a \in ends : \A b \in ends : b <= a

\* The frames that hold the bitmap.
BitmapFrames(physical, size) ==
    (physical \div PAGE_SIZE)..((physical \div PAGE_SIZE)
                                   + (align_up(size) \div PAGE_SIZE) - 1)

-----------------------------------------------------------------------------
Init ==
    /\ memmap \in MemoryMap
    /\ frame_bitmap = {}
    /\ bitmap_physical = 0
    /\ bitmap_size = 0
    /\ total_frames = 0
    /\ free_frames = 0
    /\ initialised = FALSE
    /\ held = {}

\* The boot loader answered neither or only one of the two requests.
pmm_init_NoResponse ==
    /\ ~initialised
    /\ initialised' = TRUE
    /\ UNCHANGED <<memmap, frame_bitmap, bitmap_physical, bitmap_size,
                   total_frames, free_frames, held>>

\* Mutation: the frames of the bitmap stay free.
pmm_init_BitmapNotReserved ==
    LET total == (highest_address + PAGE_SIZE - 1) \div PAGE_SIZE
        size == (total + BYTE_BITS - 1) \div BYTE_BITS
        location == find_bitmap_location(align_up(size))
    IN  /\ ~initialised
        /\ initialised' = TRUE
        /\ total_frames' = total
        /\ bitmap_size' = size
        /\ bitmap_physical' = location
        /\ frame_bitmap' = IF location = 0 THEN {}
                           ELSE ((0..total-1) \ UsableFrames) \cup {0}
        /\ free_frames' = IF location = 0 THEN 0
                          ELSE Cardinality(UsableFrames)
                                  - (IF 0 \in UsableFrames THEN 1 ELSE 0)
        /\ UNCHANGED <<memmap, held>>

\* pmm_init with both responses. The bitmap starts all used; the usable
\* frames are cleared and counted; the frames of the bitmap are set again,
\* without changing the count; frame 0 is taken out last. With no memory, or
\* no place for the bitmap, the function returns early.
pmm_init ==
    LET total == (highest_address + PAGE_SIZE - 1) \div PAGE_SIZE
        size == (total + BYTE_BITS - 1) \div BYTE_BITS
        location == find_bitmap_location(align_up(size))
    IN  /\ ~initialised
        /\ initialised' = TRUE
        /\ total_frames' = total
        /\ bitmap_size' = size
        /\ bitmap_physical' = location
        /\ frame_bitmap' = IF location = 0 THEN {}
                           ELSE ((0..total-1) \ UsableFrames)
                                   \cup BitmapFrames(location, size) \cup {0}
        /\ free_frames' = IF location = 0 THEN 0
                          ELSE Cardinality(UsableFrames)
                                  - (IF 0 \in UsableFrames THEN 1 ELSE 0)
        /\ UNCHANGED <<memmap, held>>

\* frame_bitmap is a null pointer until the bitmap has a place.
Ready == bitmap_physical # 0

FreeFrames == IF Ready THEN (0..total_frames-1) \ frame_bitmap ELSE {}

\* Mutation: the search starts at frame 0 and does not set the bit.
pmm_alloc_frame_BitNotSet ==
    \E frame \in FreeFrames \ {0} :
        /\ \A other \in FreeFrames \ {0} : frame <= other
        /\ free_frames' = IF free_frames > 0 THEN free_frames - 1 ELSE 0
        /\ held' = held \cup {frame}
        /\ UNCHANGED <<memmap, frame_bitmap, bitmap_physical, bitmap_size,
                       total_frames, initialised>>

\* The lowest free frame from frame 1 on.
pmm_alloc_frame ==
    \E frame \in FreeFrames \ {0} :
        /\ \A other \in FreeFrames \ {0} : frame <= other
        /\ frame_bitmap' = frame_bitmap \cup {frame}
        /\ free_frames' = IF free_frames > 0 THEN free_frames - 1 ELSE 0
        /\ held' = held \cup {frame}
        /\ UNCHANGED <<memmap, bitmap_physical, bitmap_size, total_frames,
                       initialised>>

\* Mutation: a frame that is free already is counted again.
FreeRefused_NoDoubleFreeCheck(physical_address) ==
    LET frame == physical_address \div PAGE_SIZE IN
    \/ ~Ready
    \/ physical_address = 0
    \/ physical_address % PAGE_SIZE # 0
    \/ frame >= total_frames
    \/ frame \in BitmapFrames(bitmap_physical, bitmap_size)

\* An address pmm_free_frame returns on without doing anything.
FreeRefused(physical_address) ==
    LET frame == physical_address \div PAGE_SIZE IN
    \/ ~Ready
    \/ physical_address = 0
    \/ physical_address % PAGE_SIZE # 0
    \/ frame >= total_frames
    \/ frame \notin frame_bitmap
    \/ frame \in BitmapFrames(bitmap_physical, bitmap_size)

\* What callers pass: what they were given, or an address that names no
\* frame of anybody: zero, unaligned, outside memory, freed before, or a
\* frame of the bitmap. Nothing in the kernel frees memory the boot loader
\* reserved.
PassedByCallers(physical_address) ==
    LET frame == physical_address \div PAGE_SIZE IN
    \/ frame \in held
    \/ physical_address = 0
    \/ physical_address % PAGE_SIZE # 0
    \/ frame >= total_frames
    \/ frame \in FreeFrames
    \/ frame \in BitmapFrames(bitmap_physical, bitmap_size)

pmm_free_frame(physical_address) ==
    LET frame == physical_address \div PAGE_SIZE IN
    /\ PassedByCallers(physical_address)
    /\ IF FreeRefused(physical_address)
         THEN UNCHANGED <<frame_bitmap, free_frames, held>>
         ELSE /\ frame_bitmap' = frame_bitmap \ {frame}
              /\ free_frames' = free_frames + 1
              /\ held' = held \ {frame}
    /\ UNCHANGED <<memmap, bitmap_physical, bitmap_size, total_frames,
                   initialised>>

Next ==
    \/ pmm_init_NoResponse
    \/ pmm_init
    \/ pmm_alloc_frame
    \/ \E physical_address \in 0..UINT_MAX : pmm_free_frame(physical_address)

Spec == Init /\ [][Next]_vars

-----------------------------------------------------------------------------
\* A frame that a client holds lies with all its bytes in a usable entry of
\* the memory map, is not frame 0 and holds no part of the bitmap
\* (pmm.c:216, :242).
OnlyUsableMemoryIsHandedOut ==
    /\ held \subseteq frame_bitmap \ {0}
    /\ \A frame \in held : \E entry \in UsableEntries :
          /\ entry.base <= frame * PAGE_SIZE
          /\ (frame + 1) * PAGE_SIZE <= entry.base + entry.length
    /\ Ready => held \cap BitmapFrames(bitmap_physical, bitmap_size) = {}

\* No sequence of allocations and frees, wrong frees included, loses a frame:
\* every usable frame except frame 0 and the bitmap's is free or held.
NoFrameIsLost ==
    Ready => UsableFrames \ ({0} \cup BitmapFrames(bitmap_physical, bitmap_size))
                = held \cup FreeFrames

\* free_frames differs from the number of free frames by exactly the size of
\* the bitmap, which pmm_init never subtracts; in particular the clamp of
\* pmm_alloc_frame at zero (pmm.c:277) never hides a decrement.
CounterDriftIsConstant ==
    Ready => free_frames =
               Cardinality(FreeFrames)
                 + Cardinality(BitmapFrames(bitmap_physical, bitmap_size))

Pool == INSTANCE FramePool WITH Frame <- 0..UINT_MAX, free <- FreeFrames

\* The bitmap allocator is such a pool: one client per frame, taken from the
\* free ones and given back by its holder, from the moment it is filled.
ImplementsFramePool == Pool!Spec
=============================================================================
