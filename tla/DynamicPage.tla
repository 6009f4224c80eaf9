---------------------------- MODULE DynamicPage ----------------------------
(***************************************************************************)
(* The one page that the heap takes from the PMM and maps through the VMM  *)
(* (heap_dynamic_page_acquire and heap_dynamic_page_release in             *)
(* mm/heap/heap.c), together with the VMM.                                 *)
(***************************************************************************)
EXTENDS Vmm

CONSTANT HEAP_DYNAMIC_PAGE_VIRTUAL

VARIABLES heap_dynamic_page_physical, heap_dynamic_page_virtual, heap_dynamic_page_mapped

page_vars == <<heap_dynamic_page_physical, heap_dynamic_page_virtual, heap_dynamic_page_mapped>>

NotOwned ==
    /\ heap_dynamic_page_physical = 0 /\ heap_dynamic_page_virtual = 0
    /\ heap_dynamic_page_mapped = FALSE

PageInit == Init /\ NotOwned

Given(s, frame) == [s EXCEPT !.free = @ \cup {frame}]
Heap(s, ok) ==
    /\ Becomes([Calls EXCEPT !.h = s], ok)
    /\ UNCHANGED <<kernel_pml4, active_address_space_pml4, cr3>>

\* Mutation: the frame is not given back when the mapping fails.
heap_dynamic_page_acquire_Leak ==
    LET virtual == HEAP_DYNAMIC_PAGE_VIRTUAL
        physical == Min(h.free)
        r == MapPage([h EXCEPT !.free = @ \ {physical}], kernel_pml4, virtual, physical, {"W"})
    IN  /\ Booted
        /\ UNCHANGED tlb
        /\ IF heap_dynamic_page_mapped \/ vmm_translate(h, kernel_pml4, virtual) # 0 \/ h.free = {}
             THEN Heap(h, FALSE) /\ UNCHANGED page_vars
           ELSE IF ~r.ok THEN Heap(r.h, FALSE) /\ UNCHANGED page_vars
           ELSE /\ Heap(r.h, TRUE)
                /\ heap_dynamic_page_physical' = physical
                /\ heap_dynamic_page_virtual' = virtual
                /\ heap_dynamic_page_mapped' = TRUE

\* A frame, its mapping, and the check of the translation; each failure gives
\* back what was taken. The page must not be owned or mapped before.
heap_dynamic_page_acquire ==
    LET virtual == HEAP_DYNAMIC_PAGE_VIRTUAL
        physical == Min(h.free)
        r == MapPage([h EXCEPT !.free = @ \ {physical}], kernel_pml4, virtual, physical, {"W"})
        u == UnmapPage(r.h, kernel_pml4, virtual)
    IN  /\ Booted
        /\ UNCHANGED tlb
        /\ IF heap_dynamic_page_mapped \/ vmm_translate(h, kernel_pml4, virtual) # 0 \/ h.free = {}
             THEN Heap(h, FALSE) /\ UNCHANGED page_vars
           ELSE IF ~r.ok THEN Heap(Given(r.h, physical), FALSE) /\ UNCHANGED page_vars
           ELSE IF vmm_translate(r.h, kernel_pml4, virtual) # physical
             THEN /\ Heap(IF u.ok /\ u.frame = physical THEN Given(u.h, physical) ELSE u.h, FALSE)
                  /\ UNCHANGED page_vars
           ELSE /\ Heap(r.h, TRUE)
                /\ heap_dynamic_page_physical' = physical
                /\ heap_dynamic_page_virtual' = virtual
                /\ heap_dynamic_page_mapped' = TRUE

\* Mutation: the CPU keeps the translation of the released page.
heap_dynamic_page_release_NoInvlpg(virtual) ==
    LET u == UnmapPage(h, kernel_pml4, virtual) IN
    /\ Booted /\ heap_dynamic_page_mapped /\ virtual = heap_dynamic_page_virtual /\ u.ok
    /\ Heap(Given(u.h, u.frame), TRUE)
    /\ heap_dynamic_page_physical' = 0 /\ heap_dynamic_page_virtual' = 0
    /\ heap_dynamic_page_mapped' = FALSE
    /\ UNCHANGED tlb

\* Only the page that was acquired, and only if the frame found is its own.
heap_dynamic_page_release(virtual) ==
    LET u == UnmapPage(h, kernel_pml4, virtual) IN
    /\ Booted
    /\ IF ~heap_dynamic_page_mapped \/ virtual # heap_dynamic_page_virtual \/ ~u.ok
         THEN Heap(h, FALSE) /\ UNCHANGED page_vars /\ UNCHANGED tlb
         ELSE /\ tlb' = IF kernel_pml4 = active_address_space_pml4 /\ tlb.page = virtual
                          THEN NoTranslation ELSE tlb
              /\ IF u.frame # heap_dynamic_page_physical
                   THEN Heap(u.h, FALSE) /\ UNCHANGED page_vars
                   ELSE /\ Heap(Given(u.h, u.frame), TRUE)
                        /\ heap_dynamic_page_physical' = 0
                        /\ heap_dynamic_page_virtual' = 0
                        /\ heap_dynamic_page_mapped' = FALSE

PageNext ==
    \/ Next /\ UNCHANGED page_vars
    \/ heap_dynamic_page_acquire
    \/ \E virtual \in VirtualPage \cup {HEAP_DYNAMIC_PAGE_VIRTUAL} :
          heap_dynamic_page_release(virtual)

PageSpec == PageInit /\ [][PageNext]_<<vars, page_vars>>

-----------------------------------------------------------------------------
\* The frame of the page, if it is owned.
Backing == IF heap_dynamic_page_mapped THEN {heap_dynamic_page_physical} ELSE {}

\* Each frame of the pool is free, a registered page table or the page's, and
\* only one of these: an acquire that fails after taking its frame, or in the
\* middle of building tables, gives everything back.
PageFramesAreAccountedFor ==
    /\ h.free \cup Tables(h) \cup Backing = pool
    /\ h.free \cap Tables(h) = {} /\ Backing \cap (h.free \cup Tables(h)) = {}

\* No table and no translation that the CPU keeps leads to a frame of the pool
\* that is free or that holds a page table.
NothingLeadsToFreedFrames ==
    LET taken == h.free \cup Tables(h) IN
    /\ tlb.frame \notin taken
    /\ \A root \in Roots(h), page \in Page : HardwareWalk(h, root, page) \notin taken
=============================================================================
