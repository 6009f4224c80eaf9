------------------------------ MODULE PmmProofs ------------------------------
(***************************************************************************)
(* For every page size, bitmap width and memory map, of any number of      *)
(* entries: what pmm_alloc_frame hands out is usable memory, no frame is   *)
(* lost, the frame counter never drifts, and the bitmap allocator          *)
(* implements the pool of FramePool.                                       *)
(***************************************************************************)
EXTENDS Pmm, FiniteSetTheorems, TLAPS

(* The frames the allocator manages: the usable ones, without frame 0 and  *)
(* those of the bitmap.                                                    *)
Managed == UsableFrames \ ({0} \cup BitmapFrames(bitmap_physical, bitmap_size))

(* From the moment the bitmap has a place the managed frames are split in  *)
(* two: held, with the bit set, and free; the counter is the number of the *)
(* free ones and of those of the bitmap.                                   *)
IInv ==
  /\ memmap \in MemoryMap
  /\ ~initialised => ~Ready
  /\ ~Ready => held = {}
  /\ Ready => /\ held \subseteq (0..total_frames-1) \cap frame_bitmap
              /\ held \cup FreeFrames = Managed
              /\ IsFiniteSet(FreeFrames)
              /\ IsFiniteSet(BitmapFrames(bitmap_physical, bitmap_size))
  /\ CounterDriftIsConstant

-----------------------------------------------------------------------------
(* Arithmetic.                                                             *)

LEMMA Page == PAGE_SIZE \in Nat /\ PAGE_SIZE >= 1 /\ UINT_MAX \in Nat
  BY PmmAssumption

(* Multiplying by the page size keeps the order, both ways.                *)
LEMMA Scale ==
  ASSUME NEW a \in Int, NEW b \in Int
  PROVE  /\ a <= b => a * PAGE_SIZE <= b * PAGE_SIZE
         /\ a * PAGE_SIZE < b * PAGE_SIZE => a < b
  <1>1. ASSUME NEW p \in Nat, p >= 1, NEW d \in Nat PROVE d * p \in Nat
    BY <1>1
  <1>2. ASSUME a <= b PROVE a * PAGE_SIZE <= b * PAGE_SIZE
    <2>1. b - a \in Nat
      BY <1>2
    <2>2. (b - a) * PAGE_SIZE \in Nat
      BY <1>1, <2>1, Page
    <2>3. b * PAGE_SIZE - a * PAGE_SIZE = (b - a) * PAGE_SIZE
      BY Page
    <2> QED BY <2>2, <2>3, Page
  <1>3. ASSUME a * PAGE_SIZE < b * PAGE_SIZE, ~(a < b) PROVE FALSE
    <2>1. a - b \in Nat
      BY <1>3
    <2>2. (a - b) * PAGE_SIZE \in Nat
      BY <1>1, <2>1, Page
    <2>3. a * PAGE_SIZE - b * PAGE_SIZE = (a - b) * PAGE_SIZE
      BY Page
    <2> QED BY <1>3, <2>2, <2>3, Page
  <1> QED BY <1>2, <1>3

(* The quotient by the page size.                                          *)
LEMMA Quotient ==
  ASSUME NEW v \in Nat
  PROVE  /\ v \div PAGE_SIZE \in Nat
         /\ (v \div PAGE_SIZE) * PAGE_SIZE <= v
         /\ v < (v \div PAGE_SIZE) * PAGE_SIZE + PAGE_SIZE
  BY Page

LEMMA Distribute == ASSUME NEW a \in Int PROVE (a + 1) * PAGE_SIZE = a * PAGE_SIZE + PAGE_SIZE /\ a * PAGE_SIZE \in Int
  BY Page

(* The rounding of the ends of an entry is inwards.                        *)
LEMMA RoundedInwards ==
  ASSUME NEW v \in Nat
  PROVE  /\ align_up(v) \in Nat /\ align_up(v) >= v
         /\ align_down(v) \in Nat /\ align_down(v) <= v
  <1>1. v + PAGE_SIZE - 1 \in Nat
    BY Page
  <1> DEFINE q == (v + PAGE_SIZE - 1) \div PAGE_SIZE
             d == v \div PAGE_SIZE
  <1>2. q \in Nat /\ v + PAGE_SIZE - 1 < q * PAGE_SIZE + PAGE_SIZE
    BY <1>1, Quotient
  <1>3. d \in Nat /\ d * PAGE_SIZE <= v
    BY Quotient
  <1>4. align_up(v) = q * PAGE_SIZE /\ align_down(v) = d * PAGE_SIZE
    BY DEF align_up, align_down
  <1> HIDE DEF q, d
  <1>5. q * PAGE_SIZE \in Nat /\ d * PAGE_SIZE \in Nat
    BY <1>2, <1>3, Page
  <1> QED BY <1>2, <1>3, <1>4, <1>5, Page

-----------------------------------------------------------------------------
(* The memory map.                                                         *)

LEMMA Entries ==
  ASSUME memmap \in MemoryMap, NEW i \in DOMAIN memmap
  PROVE  /\ i \in Nat
         /\ memmap[i].base \in Nat /\ memmap[i].length \in Nat
         /\ memmap[i].base + memmap[i].length <= UINT_MAX
  <1> DEFINE Entry == [base : Nat, length : Nat, type : {"usable", "other"}]
  <1>1. memmap \in Seq(Entry) /\ memmap[i].base + memmap[i].length + PAGE_SIZE <= UINT_MAX
    BY PmmAssumption
  <1> HIDE DEF Entry
  <1>2. i \in Nat /\ memmap[i] \in Entry
    BY <1>1
  <1>3. memmap[i].base \in Nat /\ memmap[i].length \in Nat
    BY <1>2 DEF Entry
  <1>4. UINT_MAX \in Nat
    BY PmmAssumption
  <1> QED BY <1>1, <1>2, <1>3, <1>4, Page, SMTT(30)

(* A usable frame lies in a usable entry with all its bytes.               *)
LEMMA UsableFrameInEntry ==
  ASSUME memmap \in MemoryMap, NEW f \in UsableFrames
  PROVE  /\ f \in Nat
         /\ \E i \in DOMAIN memmap :
              /\ memmap[i].type = "usable"
              /\ memmap[i].base <= f * PAGE_SIZE
              /\ (f + 1) * PAGE_SIZE <= memmap[i].base + memmap[i].length
  <1>1. PICK i \in DOMAIN memmap : memmap[i].type = "usable" /\ f \in FramesOf(memmap[i])
    BY DEF UsableFrames, UsableEntries
  <1> DEFINE b == memmap[i].base
             n == memmap[i].base + memmap[i].length
             q == n \div PAGE_SIZE
  <1>2. b \in Nat /\ n \in Nat
    BY Entries
  <1>3. f \in Int /\ f >= 0 /\ f * PAGE_SIZE >= align_up(b) /\ f * PAGE_SIZE < align_down(n)
    BY <1>1 DEF FramesOf, Start, End
  <1>4. q \in Nat /\ align_down(n) = q * PAGE_SIZE /\ q * PAGE_SIZE <= n
    BY <1>2, Quotient DEF align_down
  <1>5. align_up(b) \in Nat /\ align_up(b) >= b
    BY <1>2, RoundedInwards
  <1> HIDE DEF b, n, q
  <1>6. f + 1 <= q
    BY <1>3, <1>4, Scale
  <1>7. (f + 1) * PAGE_SIZE <= q * PAGE_SIZE
    BY <1>3, <1>4, <1>6, Scale
  <1>8. f * PAGE_SIZE \in Int /\ (f + 1) * PAGE_SIZE \in Int /\ q * PAGE_SIZE \in Int
    BY <1>3, <1>4, Page
  <1>9. b <= f * PAGE_SIZE /\ (f + 1) * PAGE_SIZE <= n
    BY <1>2, <1>3, <1>4, <1>5, <1>7, <1>8
  <1> QED BY <1>1, <1>3, <1>9 DEF b, n

(* A set of numbers has a least one, and a greatest one if it is bounded.  *)
LEMMA Least ==
  ASSUME NEW T \in SUBSET Nat, T # {}
  PROVE  \E x \in T : \A y \in T : x <= y
  <1>1. PICK x \in T : \A y \in T : ~(<<y, x>> \in OpToRel(<, Nat))
    BY NatLessThanWellFounded, WFMin, Zenon
  <1>2. \A y \in T : ~(y < x)
    BY <1>1 DEF OpToRel
  <1> QED BY <1>2

LEMMA Greatest ==
  ASSUME NEW S \in SUBSET Nat, NEW N \in Nat, \A s \in S : s <= N, S # {}
  PROVE  \E a \in S : \A b \in S : b <= a
  <1> DEFINE T == {N - s : s \in S}
  <1>1. T \subseteq Nat /\ T # {}
    <2>1. ASSUME NEW s \in S PROVE N - s \in Nat
      BY <2>1
    <2>2. PICK s \in S : TRUE
      OBVIOUS
    <2>3. N - s \in T
      BY <2>2
    <2> QED BY <2>1, <2>3
  <1> HIDE DEF T
  <1>2. PICK x \in T : \A y \in T : x <= y
    BY <1>1, Least
  <1>3. PICK a \in S : x = N - a
    BY <1>2 DEF T
  <1>4. ASSUME NEW b \in S PROVE b <= a
    <2>1. N - b \in T
      BY DEF T
    <2> QED BY <1>2, <1>3, <2>1
  <1> QED BY <1>4

(* The address the frames are counted from bounds every entry.             *)
LEMMA HighestAddress ==
  ASSUME memmap \in MemoryMap
  PROVE  highest_address \in Nat /\ \A i \in DOMAIN memmap : memmap[i].base + memmap[i].length <= highest_address
  <1> DEFINE ends == {0} \cup {memmap[i].base + memmap[i].length : i \in DOMAIN memmap}
  <1>1. ends \in SUBSET Nat /\ ends # {} /\ \A s \in ends : s <= UINT_MAX
    BY Entries, Page
  <1>2. \A i \in DOMAIN memmap : memmap[i].base + memmap[i].length \in ends
    OBVIOUS
  <1>3. highest_address = CHOOSE a \in ends : \A b \in ends : b <= a
    BY DEF highest_address
  <1> HIDE DEF ends
  <1>4. \E a \in ends : \A b \in ends : b <= a
    BY <1>1, Page, Greatest
  <1>5. highest_address \in ends /\ \A b \in ends : b <= highest_address
    BY <1>3, <1>4
  <1> QED BY <1>1, <1>2, <1>5

(* Every usable frame has a bit in the bitmap.                             *)
LEMMA UsableFramesCounted ==
  ASSUME memmap \in MemoryMap
  PROVE  UsableFrames \subseteq 0..((highest_address + PAGE_SIZE - 1) \div PAGE_SIZE) - 1
  <1> DEFINE h == highest_address
             total == (h + PAGE_SIZE - 1) \div PAGE_SIZE
  <1> SUFFICES ASSUME NEW f \in UsableFrames PROVE f \in 0..total-1
    OBVIOUS
  <1>1. f \in Nat /\ \E i \in DOMAIN memmap : (f + 1) * PAGE_SIZE <= memmap[i].base + memmap[i].length
    BY UsableFrameInEntry
  <1>2. h \in Nat /\ (f + 1) * PAGE_SIZE <= h
    <2>1. PICK i \in DOMAIN memmap : (f + 1) * PAGE_SIZE <= memmap[i].base + memmap[i].length
      BY <1>1
    <2>2. memmap[i].base + memmap[i].length \in Nat
      BY Entries
    <2>3. h \in Nat /\ memmap[i].base + memmap[i].length <= h
      BY HighestAddress
    <2>4. (f + 1) * PAGE_SIZE \in Int
      BY <1>1, Page
    <2> HIDE DEF h
    <2> QED BY <2>1, <2>2, <2>3, <2>4
  <1> HIDE DEF h
  <1>3. total \in Nat /\ h + PAGE_SIZE - 1 < total * PAGE_SIZE + PAGE_SIZE
    <2>1. h + PAGE_SIZE - 1 \in Nat
      BY <1>2, Page
    <2> QED BY <2>1, Quotient
  <1> HIDE DEF total
  <1>4. (f + 1) * PAGE_SIZE < (total + 1) * PAGE_SIZE
    <2>1. (total + 1) * PAGE_SIZE = total * PAGE_SIZE + PAGE_SIZE /\ total * PAGE_SIZE \in Int
      BY <1>3, Distribute
    <2>2. (f + 1) * PAGE_SIZE \in Int
      BY <1>1, Page
    <2> QED BY <1>2, <1>3, <2>1, <2>2, Page
  <1>5. f + 1 < total + 1
    BY <1>1, <1>3, <1>4, Scale
  <1> QED BY <1>1, <1>3, <1>5

-----------------------------------------------------------------------------
(* The place of the bitmap.                                                *)

LEMMA Multiple == ASSUME NEW a \in Nat PROVE (a * PAGE_SIZE) \div PAGE_SIZE = a
  <1> DEFINE v == a * PAGE_SIZE
             q == v \div PAGE_SIZE
  <1>1. v \in Nat
    BY Page
  <1> HIDE DEF v
  <1>2. q \in Nat /\ q * PAGE_SIZE <= v /\ v < q * PAGE_SIZE + PAGE_SIZE
    BY <1>1, Quotient
  <1> HIDE DEF q
  <1>3. q * PAGE_SIZE + PAGE_SIZE = (q + 1) * PAGE_SIZE
    BY <1>2, Distribute
  <1>4. v < (q + 1) * PAGE_SIZE /\ ~(v < q * PAGE_SIZE)
    BY <1>1, <1>2, <1>3, Page
  <1>5. a < q + 1
    BY <1>2, <1>4, Scale DEF v
  <1>6. q <= a
    <2>1. CASE a < q
      <3>1. a + 1 <= q /\ (a + 1) * PAGE_SIZE <= q * PAGE_SIZE
        BY <1>2, <2>1, Scale
      <3>2. (a + 1) * PAGE_SIZE = a * PAGE_SIZE + PAGE_SIZE /\ q * PAGE_SIZE \in Int
        BY <1>2, Distribute
      <3>3. a * PAGE_SIZE = v
        BY DEF v
      <3> QED BY <1>1, <1>2, <3>1, <3>2, <3>3, Page
    <2> QED BY <1>2, <2>1
  <1>7. q = a
    BY <1>2, <1>5, <1>6
  <1> QED BY <1>7 DEF q, v

(* The frames of the bitmap are usable ones, and frame 0 is not among them. *)
LEMMA BitmapIsUsable ==
  ASSUME memmap \in MemoryMap, NEW size \in Nat,
         find_bitmap_location(align_up(size)) # 0
  PROVE  BitmapFrames(find_bitmap_location(align_up(size)), size) \subseteq UsableFrames \ {0}
  <1> DEFINE Fits(i) == /\ memmap[i].type = "usable"
                        /\ End(memmap[i]) > Start(memmap[i])
                        /\ End(memmap[i]) - Start(memmap[i]) >= align_up(size)
             fitting == {i \in DOMAIN memmap : Fits(i)}
             least == CHOOSE i \in fitting : \A j \in fitting : i <= j
             location == find_bitmap_location(align_up(size))
  <1>1. fitting # {} /\ location = Start(memmap[least])
    BY DEF find_bitmap_location
  <1>2. least \in fitting
    <2>1. fitting \subseteq Nat
      BY Entries
    <2> HIDE DEF fitting
    <2>2. \E i \in fitting : \A j \in fitting : i <= j
      BY <1>1, <2>1, Least
    <2> QED BY <2>2
  <1>3. least \in DOMAIN memmap /\ Fits(least)
    BY <1>2
  <1> HIDE DEF least, fitting
  <1> DEFINE e == memmap[least]
             up == (e.base + PAGE_SIZE - 1) \div PAGE_SIZE
             down == (e.base + e.length) \div PAGE_SIZE
             pages == (size + PAGE_SIZE - 1) \div PAGE_SIZE
  <1>4. /\ e.base \in Nat /\ e.length \in Nat
        /\ e.base + PAGE_SIZE - 1 \in Nat /\ e.base + e.length \in Nat
        /\ size + PAGE_SIZE - 1 \in Nat
    BY <1>3, Entries, Page
  <1>5. up \in Nat /\ down \in Nat /\ pages \in Nat
    BY <1>4, Quotient
  <1>6. /\ Start(e) = up * PAGE_SIZE
        /\ End(e) = down * PAGE_SIZE
        /\ align_up(size) = pages * PAGE_SIZE
    BY DEF Start, End, align_up, align_down
  <1> HIDE DEF up, down, pages
  <1>7. location = up * PAGE_SIZE /\ up # 0
    <2>1. location = up * PAGE_SIZE
      BY <1>1, <1>6
    <2>2. CASE up = 0
      BY <2>1, <2>2, Page
    <2> QED BY <2>1, <2>2
  <1>8. up + pages <= down
    <2>1. down * PAGE_SIZE - up * PAGE_SIZE >= pages * PAGE_SIZE
      BY <1>3, <1>6
    <2>2. (up + pages) * PAGE_SIZE = up * PAGE_SIZE + pages * PAGE_SIZE
      BY <1>5, Page
    <2>3. /\ up * PAGE_SIZE \in Nat /\ pages * PAGE_SIZE \in Nat /\ down * PAGE_SIZE \in Nat
      BY <1>5, Page
    <2>4. ~(down * PAGE_SIZE < (up + pages) * PAGE_SIZE)
      BY <2>1, <2>2, <2>3
    <2>5. CASE down < up + pages
      <3>1. (down + 1) * PAGE_SIZE <= (up + pages) * PAGE_SIZE
        BY <1>5, <2>5, Scale
      <3>2. (down + 1) * PAGE_SIZE = down * PAGE_SIZE + PAGE_SIZE
        BY <1>5, Distribute
      <3> QED BY <2>2, <2>3, <2>4, <3>1, <3>2, Page
    <2> QED BY <1>5, <2>5
  <1>9. BitmapFrames(location, size) = up .. (up + pages - 1)
    <2>1. location \div PAGE_SIZE = up /\ align_up(size) \div PAGE_SIZE = pages
      BY <1>5, <1>6, <1>7, Multiple
    <2> HIDE DEF location
    <2> QED BY <2>1 DEF BitmapFrames
  <1> SUFFICES ASSUME NEW f \in up .. (up + pages - 1) PROVE f \in UsableFrames \ {0}
    BY <1>9
  <1>10. f \in Nat /\ f >= up /\ f + 1 <= down /\ f # 0
    BY <1>5, <1>7, <1>8
  <1>11. f * PAGE_SIZE >= up * PAGE_SIZE /\ f * PAGE_SIZE < down * PAGE_SIZE
    <2>1. up * PAGE_SIZE <= f * PAGE_SIZE /\ (f + 1) * PAGE_SIZE <= down * PAGE_SIZE
      BY <1>5, <1>10, Scale
    <2>2. (f + 1) * PAGE_SIZE = f * PAGE_SIZE + PAGE_SIZE /\ f * PAGE_SIZE \in Int
      BY <1>10, Distribute
    <2>3. up * PAGE_SIZE \in Int /\ down * PAGE_SIZE \in Int
      BY <1>5, Distribute
    <2> QED BY <2>1, <2>2, <2>3, Page
  <1>12. End(e) \div PAGE_SIZE = down
    BY <1>5, <1>6, Multiple
  <1>13. f \in FramesOf(e)
    BY <1>5, <1>6, <1>10, <1>11, <1>12 DEF FramesOf
  <1>14. e \in UsableEntries
    BY <1>3 DEF UsableEntries
  <1> QED BY <1>10, <1>13, <1>14 DEF UsableFrames

-----------------------------------------------------------------------------
(* The steps.                                                              *)

LEMMA InitInv == Init => IInv
  BY DEF Init, IInv, Ready, CounterDriftIsConstant

LEMMA UnchangedInv == ASSUME IInv, UNCHANGED vars PROVE IInv'
  <1>1. /\ FreeFrames' = FreeFrames /\ Managed' = Managed /\ (Ready' <=> Ready)
        /\ BitmapFrames(bitmap_physical, bitmap_size)' = BitmapFrames(bitmap_physical, bitmap_size)
    BY DEF vars, Ready, FreeFrames, Managed, UsableFrames, UsableEntries, BitmapFrames, align_up
  <1> QED BY <1>1 DEF IInv, vars, CounterDriftIsConstant

LEMMA NoResponseInv == ASSUME IInv, pmm_init_NoResponse PROVE IInv'
  BY DEF IInv, pmm_init_NoResponse, Ready, CounterDriftIsConstant

(* The frames left free by pmm_init are the managed ones, and the counter  *)
(* it leaves behind counts the frames of the bitmap among them.            *)
LEMMA PmmInitInv ==
  ASSUME IInv, pmm_init
  PROVE  IInv'
  <1> DEFINE bitmap == BitmapFrames(bitmap_physical', bitmap_size')
  <1>1. /\ ~initialised /\ initialised' = TRUE /\ held' = held /\ memmap' = memmap
        /\ held = {} /\ memmap \in MemoryMap
    BY DEF pmm_init, IInv
  <1>2. Ready' => /\ frame_bitmap' = ((0..total_frames'-1) \ UsableFrames) \cup bitmap \cup {0}
                  /\ free_frames' = Cardinality(UsableFrames)
                                      - (IF 0 \in UsableFrames THEN 1 ELSE 0)
    BY DEF pmm_init, Ready
  <1>3. UsableFrames' = UsableFrames
    BY <1>1 DEF UsableFrames, UsableEntries
  <1>4. UsableFrames \subseteq 0..total_frames'-1
    BY UsableFramesCounted DEF pmm_init, IInv
  <1>5. Managed' = UsableFrames \ ({0} \cup bitmap)
    BY <1>3 DEF Managed, BitmapFrames, align_up
  <1>6. Ready' => FreeFrames' = (0..total_frames'-1) \ frame_bitmap'
    BY DEF FreeFrames
  <1>7. Ready' => FreeFrames' = Managed'
    BY <1>2, <1>4, <1>5, <1>6, Zenon
  <1>8. bitmap_size' \in Nat /\ total_frames' \in Nat
    <2>1. highest_address \in Nat
      BY <1>1, HighestAddress
    <2>2. highest_address + PAGE_SIZE - 1 \in Nat
      BY <2>1, Page
    <2>3. total_frames' \in Nat
      BY <2>2, Quotient DEF pmm_init
    <2>4. bitmap_size' = (total_frames' + BYTE_BITS - 1) \div BYTE_BITS
      BY DEF pmm_init
    <2>5. ASSUME NEW n \in Nat, NEW w \in Nat \ {0} PROVE (n + w - 1) \div w \in Nat
      <3>1. n + w - 1 \in Nat
        OBVIOUS
      <3> DEFINE v == n + w - 1
      <3> HIDE DEF v
      <3>2. v \div w \in Nat
        BY <3>1, Z3 DEF v
      <3> QED BY <3>2 DEF v
    <2> QED BY <2>3, <2>4, <2>5, PmmAssumption, ZenonT(30)
  <1>9. Ready' => bitmap \subseteq UsableFrames \ {0}
    <2>1. bitmap_physical' = find_bitmap_location(align_up(bitmap_size'))
      BY DEF pmm_init
    <2> QED BY <1>1, <1>8, <2>1, BitmapIsUsable DEF Ready
  <1>10. IsFiniteSet(UsableFrames)
    <2>1. IsFiniteSet(0..total_frames'-1)
      BY <1>8, FS_Interval
    <2> QED BY <1>4, <2>1, FS_Subset, Zenon
  <1>11. ASSUME Ready'
         PROVE  /\ IsFiniteSet(FreeFrames') /\ IsFiniteSet(bitmap)
                /\ free_frames' = Cardinality(FreeFrames') + Cardinality(bitmap)
    <2> DEFINE rest == UsableFrames \ {0}
    <2>1. IsFiniteSet(rest) /\ Cardinality(rest) = free_frames'
      <3>1. /\ IsFiniteSet(rest)
            /\ Cardinality(rest) = IF 0 \in UsableFrames THEN Cardinality(UsableFrames) - 1
                                   ELSE Cardinality(UsableFrames)
        BY <1>10, FS_RemoveElement
      <3>2. Cardinality(UsableFrames) \in Nat
        BY <1>10, FS_CardinalityType
      <3> QED BY <1>2, <1>11, <3>1, <3>2, SMTT(30)
    <2>2. bitmap \subseteq rest /\ FreeFrames' = rest \ bitmap
      BY <1>5, <1>7, <1>9, <1>11
    <2> HIDE DEF rest, bitmap
    <2>3. IsFiniteSet(bitmap) /\ rest \cap bitmap = bitmap
      BY <2>1, <2>2, FS_Subset
    <2>4. /\ IsFiniteSet(rest \ bitmap)
          /\ Cardinality(rest \ bitmap) = Cardinality(rest) - Cardinality(bitmap)
      BY <2>1, <2>3, FS_Difference
    <2>5. Cardinality(rest) \in Nat /\ Cardinality(bitmap) \in Nat
      BY <2>1, <2>3, FS_CardinalityType
    <2> QED BY <2>1, <2>2, <2>3, <2>4, <2>5
  <1>12. bitmap = BitmapFrames(bitmap_physical, bitmap_size)'
    BY DEF BitmapFrames, align_up
  <1> HIDE DEF bitmap
  <1>13. CounterDriftIsConstant'
    BY <1>11, <1>12 DEF CounterDriftIsConstant
  <1> QED BY <1>1, <1>7, <1>11, <1>12, <1>13 DEF IInv

(* What the two calls do to the two sets and to the counter.               *)
LEMMA AllocTakes ==
  ASSUME pmm_alloc_frame
  PROVE  \E f \in FreeFrames \ {0} :
            /\ Ready /\ Ready' /\ f \in 0..total_frames-1 /\ f \notin frame_bitmap
            /\ frame_bitmap' = frame_bitmap \cup {f} /\ held' = held \cup {f}
            /\ FreeFrames' = FreeFrames \ {f}
            /\ free_frames' = (IF free_frames > 0 THEN free_frames - 1 ELSE 0)
            /\ UNCHANGED <<memmap, bitmap_physical, bitmap_size, total_frames, initialised>>
  <1>1. PICK f \in FreeFrames \ {0} :
            /\ frame_bitmap' = frame_bitmap \cup {f} /\ held' = held \cup {f}
            /\ free_frames' = (IF free_frames > 0 THEN free_frames - 1 ELSE 0)
            /\ UNCHANGED <<memmap, bitmap_physical, bitmap_size, total_frames, initialised>>
    BY DEF pmm_alloc_frame
  <1>2. Ready /\ Ready' /\ f \in 0..total_frames-1 /\ f \notin frame_bitmap
    BY <1>1 DEF FreeFrames, Ready
  <1>3. FreeFrames' = FreeFrames \ {f}
    BY <1>1, <1>2 DEF FreeFrames
  <1> QED BY <1>1, <1>2, <1>3

(* A call that frees anything frees a frame that is held.                  *)
LEMMA FreeReturns ==
  ASSUME IInv, NEW a \in 0..UINT_MAX, pmm_free_frame(a)
  PROVE  \/ UNCHANGED vars
         \/ \E f \in held :
              /\ Ready /\ Ready'
              /\ frame_bitmap' = frame_bitmap \ {f} /\ held' = held \ {f}
              /\ FreeFrames' = FreeFrames \cup {f} /\ f \notin FreeFrames
              /\ free_frames' = free_frames + 1
              /\ UNCHANGED <<memmap, bitmap_physical, bitmap_size, total_frames, initialised>>
  <1> DEFINE f == a \div PAGE_SIZE
  <1>1. CASE FreeRefused(a)
    BY <1>1 DEF pmm_free_frame, vars
  <1>2. CASE ~FreeRefused(a)
    <2>1. /\ Ready /\ frame_bitmap' = frame_bitmap \ {f} /\ held' = held \ {f}
          /\ free_frames' = free_frames + 1
          /\ UNCHANGED <<memmap, bitmap_physical, bitmap_size, total_frames, initialised>>
      BY <1>2 DEF pmm_free_frame, FreeRefused
    <2>2. f \in held /\ f \notin FreeFrames
      <3>1. f \notin FreeFrames
        BY <1>2 DEF FreeRefused, FreeFrames
      <3> QED BY <1>2, <3>1 DEF pmm_free_frame, FreeRefused, PassedByCallers
    <2> HIDE DEF f
    <2>3. Ready' /\ f \in 0..total_frames-1
      BY <2>1, <2>2 DEF IInv, Ready
    <2>4. FreeFrames' = FreeFrames \cup {f}
      BY <2>1, <2>3 DEF FreeFrames
    <2> QED BY <2>1, <2>2, <2>3, <2>4
  <1> QED BY <1>1, <1>2

LEMMA ManagedIsFixed ==
  ASSUME UNCHANGED <<memmap, bitmap_physical, bitmap_size>>
  PROVE  /\ Managed' = Managed
         /\ BitmapFrames(bitmap_physical, bitmap_size)' = BitmapFrames(bitmap_physical, bitmap_size)
  BY DEF Managed, UsableFrames, UsableEntries, BitmapFrames, align_up

(* The clamp of pmm_alloc_frame at zero is never taken: the frame it found *)
(* is one of those the counter counts.                                     *)
LEMMA AllocInv == ASSUME IInv, pmm_alloc_frame PROVE IInv'
  <1> DEFINE bitmap == BitmapFrames(bitmap_physical, bitmap_size)
  <1>1. PICK f \in FreeFrames \ {0} :
            /\ Ready /\ Ready' /\ f \in 0..total_frames-1 /\ f \notin frame_bitmap
            /\ frame_bitmap' = frame_bitmap \cup {f} /\ held' = held \cup {f}
            /\ FreeFrames' = FreeFrames \ {f}
            /\ free_frames' = (IF free_frames > 0 THEN free_frames - 1 ELSE 0)
            /\ UNCHANGED <<memmap, bitmap_physical, bitmap_size, total_frames, initialised>>
    BY AllocTakes
  <1>2. Managed' = Managed /\ bitmap' = bitmap
    BY <1>1, ManagedIsFixed
  <1>3. held' \subseteq (0..total_frames'-1) \cap frame_bitmap'
    BY <1>1 DEF IInv
  <1>4. held' \cup FreeFrames' = Managed'
    BY <1>1, <1>2 DEF IInv
  <1>5. /\ IsFiniteSet(FreeFrames) /\ IsFiniteSet(bitmap)
        /\ free_frames = Cardinality(FreeFrames) + Cardinality(bitmap)
    BY <1>1 DEF IInv, CounterDriftIsConstant
  <1> HIDE DEF bitmap
  <1>6. /\ IsFiniteSet(FreeFrames') /\ Cardinality(FreeFrames') = Cardinality(FreeFrames) - 1
        /\ Cardinality(FreeFrames) \in Nat /\ Cardinality(FreeFrames') \in Nat
        /\ Cardinality(bitmap) \in Nat
    BY <1>1, <1>5, FS_RemoveElement, FS_CardinalityType
  <1>7. free_frames' = Cardinality(FreeFrames') + Cardinality(bitmap')
    BY <1>1, <1>2, <1>5, <1>6
  <1>8. IsFiniteSet(bitmap') /\ CounterDriftIsConstant'
    BY <1>2, <1>5, <1>7 DEF CounterDriftIsConstant, bitmap
  <1> QED BY <1>1, <1>3, <1>4, <1>6, <1>8 DEF IInv, bitmap

LEMMA FreeInv == ASSUME IInv, NEW a \in 0..UINT_MAX, pmm_free_frame(a) PROVE IInv'
  <1> DEFINE bitmap == BitmapFrames(bitmap_physical, bitmap_size)
  <1>1. CASE UNCHANGED vars
    BY <1>1, UnchangedInv
  <1>2. ASSUME NEW f \in held,
               Ready /\ Ready',
               frame_bitmap' = frame_bitmap \ {f} /\ held' = held \ {f},
               FreeFrames' = FreeFrames \cup {f} /\ f \notin FreeFrames,
               free_frames' = free_frames + 1,
               UNCHANGED <<memmap, bitmap_physical, bitmap_size, total_frames, initialised>>
        PROVE  IInv'
    <2>1. Managed' = Managed /\ bitmap' = bitmap
      BY <1>2, ManagedIsFixed
    <2>2. held' \subseteq (0..total_frames'-1) \cap frame_bitmap'
      BY <1>2 DEF IInv
    <2>3. held' \cup FreeFrames' = Managed'
      BY <1>2, <2>1 DEF IInv
    <2>4. /\ IsFiniteSet(FreeFrames) /\ IsFiniteSet(bitmap)
          /\ free_frames = Cardinality(FreeFrames) + Cardinality(bitmap)
      BY <1>2 DEF IInv, CounterDriftIsConstant
    <2> HIDE DEF bitmap
    <2>5. /\ IsFiniteSet(FreeFrames') /\ Cardinality(FreeFrames') = Cardinality(FreeFrames) + 1
          /\ Cardinality(FreeFrames) \in Nat /\ Cardinality(bitmap) \in Nat
      BY <1>2, <2>4, FS_AddElement, FS_CardinalityType
    <2>6. free_frames' = Cardinality(FreeFrames') + Cardinality(bitmap')
      BY <1>2, <2>1, <2>4, <2>5
    <2>7. IsFiniteSet(bitmap') /\ CounterDriftIsConstant'
      BY <2>1, <2>4, <2>6 DEF CounterDriftIsConstant, bitmap
    <2> QED BY <1>2, <2>2, <2>3, <2>5, <2>7 DEF IInv, bitmap
  <1> QED BY <1>1, <1>2, FreeReturns

LEMMA StepInv == ASSUME IInv, [Next]_vars PROVE IInv'
  BY UnchangedInv, NoResponseInv, PmmInitInv, AllocInv, FreeInv DEF Next

LEMMA Invariance == Spec => []IInv
  BY InitInv, StepInv, PTL DEF Spec

-----------------------------------------------------------------------------
(* What clients hold is usable memory: whole frames of a usable entry, not *)
(* frame 0 and no part of the bitmap.                                      *)
THEOREM HandsOutUsableMemory == Spec => []OnlyUsableMemoryIsHandedOut
  <1>1. ASSUME IInv PROVE OnlyUsableMemoryIsHandedOut
    <2>1. held \subseteq Managed /\ held \subseteq frame_bitmap
      BY <1>1 DEF IInv
    <2>2. held \subseteq frame_bitmap \ {0} /\ held \cap BitmapFrames(bitmap_physical, bitmap_size) = {}
      BY <2>1 DEF Managed
    <2>3. ASSUME NEW f \in held
          PROVE  \E entry \in UsableEntries :
                    /\ entry.base <= f * PAGE_SIZE
                    /\ (f + 1) * PAGE_SIZE <= entry.base + entry.length
      <3>1. f \in UsableFrames
        BY <2>1 DEF Managed
      <3>2. PICK i \in DOMAIN memmap :
              /\ memmap[i].type = "usable"
              /\ memmap[i].base <= f * PAGE_SIZE
              /\ (f + 1) * PAGE_SIZE <= memmap[i].base + memmap[i].length
        BY <1>1, <3>1, UsableFrameInEntry DEF IInv
      <3>3. memmap[i] \in UsableEntries
        BY <3>2 DEF UsableEntries
      <3> QED BY <3>2, <3>3
    <2> QED BY <2>2, <2>3 DEF OnlyUsableMemoryIsHandedOut
  <1> QED BY <1>1, Invariance, PTL

(* Every managed frame is free or held, whatever was freed wrongly.        *)
THEOREM LosesNoFrame == Spec => []NoFrameIsLost
  <1>1. IInv => NoFrameIsLost
    BY DEF IInv, NoFrameIsLost, Managed
  <1> QED BY <1>1, Invariance, PTL

(* free_frames exceeds the number of free frames by the size of the bitmap *)
(* in every state: no wrong free and no clamped decrement moves it.        *)
THEOREM CounterDrift == Spec => []CounterDriftIsConstant
  <1>1. IInv => CounterDriftIsConstant
    BY DEF IInv
  <1> QED BY <1>1, Invariance, PTL

(* The bitmap allocator implements the pool: pmm_init fills it,            *)
(* pmm_alloc_frame takes a frame and pmm_free_frame returns one or does    *)
(* nothing.                                                                *)
THEOREM ImplementsPool == Spec => ImplementsFramePool
  <1>1. Init => Pool!Init
    BY DEF Init, Pool!Init, FreeFrames, Ready
  <1>2. ASSUME IInv PROVE UsableFrames \subseteq 0..UINT_MAX /\ Managed \subseteq 0..UINT_MAX
    <2> SUFFICES ASSUME NEW f \in UsableFrames PROVE f \in 0..UINT_MAX
      BY DEF Managed
    <2>1. f \in Nat /\ \E i \in DOMAIN memmap : (f + 1) * PAGE_SIZE <= memmap[i].base + memmap[i].length
      BY <1>2, UsableFrameInEntry DEF IInv
    <2>2. PICK i \in DOMAIN memmap : (f + 1) * PAGE_SIZE <= memmap[i].base + memmap[i].length
      BY <2>1
    <2>3. memmap[i].base + memmap[i].length \in Nat /\ memmap[i].base + memmap[i].length <= UINT_MAX
      BY <1>2, Entries DEF IInv
    <2>4. (f + 1) * PAGE_SIZE >= f + 1 /\ (f + 1) * PAGE_SIZE \in Int
      BY <2>1, Page
    <2> QED BY <2>1, <2>2, <2>3, <2>4, Page
  <1>3. ASSUME IInv, IInv', [Next]_vars PROVE [Pool!Next]_<<FreeFrames, held>>
    <2>1. CASE UNCHANGED vars
      BY <2>1 DEF vars, FreeFrames, Ready
    <2>2. CASE pmm_init_NoResponse
      BY <2>2 DEF pmm_init_NoResponse, FreeFrames, Ready
    <2>3. CASE pmm_init
      <3>1. ~Ready /\ held = {} /\ held' = held
        BY <1>3, <2>3 DEF pmm_init, IInv
      <3>2. FreeFrames = {}
        BY <3>1 DEF FreeFrames
      <3>3. FreeFrames' \subseteq (0..UINT_MAX) \ {0}
        <4>1. CASE Ready'
          <5>1. FreeFrames' \subseteq Managed'
            BY <1>3, <4>1 DEF IInv
          <5>2. Managed' \subseteq (0..UINT_MAX) \ {0}
            <6>1. UsableFrames' = UsableFrames
              BY <2>3 DEF pmm_init, UsableFrames, UsableEntries
            <6>2. Managed' \subseteq UsableFrames' \ {0}
              BY DEF Managed
            <6> QED BY <1>2, <1>3, <6>1, <6>2
          <5> QED BY <5>1, <5>2
        <4>2. CASE ~Ready'
          BY <4>2 DEF FreeFrames
        <4> QED BY <4>1, <4>2
      <3> QED BY <3>1, <3>2, <3>3 DEF Pool!Next, Pool!Fill
    <2>4. CASE pmm_alloc_frame
      <3>1. PICK f \in FreeFrames \ {0} : Ready /\ held' = held \cup {f} /\ FreeFrames' = FreeFrames \ {f}
        BY <2>4, AllocTakes
      <3>2. f \in 0..UINT_MAX
        BY <1>2, <1>3, <3>1 DEF IInv
      <3> QED BY <3>1, <3>2 DEF Pool!Next, Pool!Take
    <2>5. ASSUME NEW a \in 0..UINT_MAX, pmm_free_frame(a) PROVE [Pool!Next]_<<FreeFrames, held>>
      <3>1. CASE UNCHANGED vars
        BY <2>1, <3>1
      <3>2. ASSUME NEW f \in held, Ready, held' = held \ {f}, FreeFrames' = FreeFrames \cup {f}
            PROVE  Pool!Next
        <4>1. f \in 0..UINT_MAX
          BY <1>2, <1>3, <3>2 DEF IInv
        <4> QED BY <3>2, <4>1 DEF Pool!Next, Pool!Return
      <3> QED BY <1>3, <2>5, <3>1, <3>2, FreeReturns
    <2> QED BY <1>3, <2>1, <2>2, <2>3, <2>4, <2>5 DEF Next
  <1> QED BY <1>1, <1>3, Invariance, PTL DEF Spec, ImplementsFramePool, Pool!Spec
=============================================================================
