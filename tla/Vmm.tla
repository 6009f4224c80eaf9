-------------------------------- MODULE Vmm --------------------------------
(***************************************************************************)
(* The virtual memory manager (mm/vmm/vmm.c): the lifecycle of address     *)
(* spaces over the page-table trees of PageTables.                         *)
(*                                                                         *)
(* The machine starts on the boot loader's tables. One core runs the calls *)
(* one after the other; between them the CPU translates addresses, keeps a *)
(* translation and may set Accessed bits.                                  *)
(***************************************************************************)
EXTENDS PageTables, TLC

CONSTANTS VMM_MAX_ADDRESS_SPACES,
          EPOCHS,                   \* number of values of an epoch: 2^64
          VMM_PAGE_SIZE,            \* bytes of the kernel image in a page
          PoolSizes,                \* frames the PMM has when the VMM starts
          BootTables, BootRoot,     \* the boot loader's page tables
          CpuPage,                  \* bound: the pages the CPU reads or writes
          VirtualPage, DataFrame, LeafFlags,    \* what callers map
          ImageBase, ImageSize, Sections, KernelFrame   \* the kernel image, in bytes

ASSUME VmmAssumption ==
    /\ VMM_MAX_ADDRESS_SPACES \in Nat \ {0} /\ EPOCHS \in Nat \ {0, 1}
    /\ VMM_PAGE_SIZE \in Nat \ {0}
    /\ BootRoot \in DOMAIN BootTables /\ BootRoot # 0
    /\ ImageBase % VMM_PAGE_SIZE = 0

Page == 0..(ENTRIES ^ (PML4 + 1) - 1)
CREATED == "created"
ACTIVE == "active"
INACTIVE == "inactive"

VARIABLES h,                        \* frames, tables and registry: see PageTables
          pool,                     \* the frames the PMM had at the start
          validation_epoch, kernel_pml4, last_cloned_pml4,
          address_space_records, active_address_space_pml4,
          cr3, tlb,                 \* the CPU's root, and a translation it keeps
          result                    \* outcome of the last call

vars == <<h, pool, validation_epoch, kernel_pml4, last_cloned_pml4,
          address_space_records, active_address_space_pml4, cr3, tlb, result>>

NoTranslation == [page |-> -1, frame |-> 0]

-----------------------------------------------------------------------------
\* The records of address spaces, and calls as functions of what they change:
\* m.h, m.epoch, m.spaces and m.cloned.

\* The record of an address space in use, or 0.
find_address_space_record(spaces, root) ==
    LET found == {i \in DOMAIN spaces : spaces[i].in_use /\ spaces[i].pml4_physical = root}
    IN  IF root = 0 \/ found = {} THEN 0 ELSE Min(found)

\* The first record that is not in use, or one more.
SpaceSlot(spaces) ==
    LET unused == {i \in DOMAIN spaces : ~spaces[i].in_use} IN
    IF unused = {} THEN Len(spaces) + 1 ELSE Min(unused)

register_address_space(spaces, root) ==
    LET i == SpaceSlot(spaces)
        record == [pml4_physical |-> root, state |-> CREATED, in_use |-> TRUE]
    IN  IF i > Len(spaces) THEN Append(spaces, record) ELSE [spaces EXCEPT ![i] = record]

\* A root that finds no record is released.
RegisterOrRelease(m, new) ==
    IF new.at = 0 THEN [m |-> [m EXCEPT !.h = new.h], at |-> 0]
    ELSE IF \/ find_address_space_record(m.spaces, new.at) # 0
            \/ SpaceSlot(m.spaces) > VMM_MAX_ADDRESS_SPACES
           THEN [m |-> [m EXCEPT !.h = release_page_table(new.h, new.at)], at |-> 0]
    ELSE [m |-> [m EXCEPT !.h = new.h, !.spaces = register_address_space(@, new.at)],
          at |-> new.at]

\* vmm_create_address_space: allocate a root and register it.
CreateSpace(m) == RegisterOrRelease(m, allocate_page_table(m.h, PML4, 0))

\* Mutation: a wrapped epoch is not cleared from the records.
NextEpoch_NoClear(m) == [m EXCEPT !.epoch = (@ + 1) % EPOCHS]

\* A fresh epoch. One that wraps is 1, and is cleared from every record first.
NextEpoch(m) ==
    IF m.epoch + 1 < EPOCHS THEN [m EXCEPT !.epoch = @ + 1]
    ELSE [m EXCEPT !.epoch = 1,
                   !.h.rec = [i \in DOMAIN @ |-> [@[i] EXCEPT !.validation_epoch = 0]]]

\* A tree that passed the validation is destroyed with its record r.
DestroyIfValid(m, check, root, r) ==
    IF ~check.ok THEN [m |-> [m EXCEPT !.h = check.h], ok |-> FALSE]
    ELSE [m |-> [m EXCEPT
                  !.h = destroy_address_space_tree(check.h, root, PML4),
                  !.spaces[r].state = INACTIVE, !.spaces[r].in_use = FALSE,
                  !.cloned = IF @ = root THEN 0 ELSE @],
          ok |-> TRUE]

ValidateAndDestroy(m, root, r) ==
    DestroyIfValid(m, validate_address_space_tree(m.h, root, m.epoch), root, r)

\* vmm_destroy_address_space
DestroySpace(m, root, active) ==
    LET r == find_address_space_record(m.spaces, root) IN
    IF \/ root = active \/ r = 0
       \/ m.spaces[r].state = ACTIVE
       \/ ~vmm_verify_page_table_root(m.h.rec, root)
      THEN [m |-> m, ok |-> FALSE]
      ELSE ValidateAndDestroy(NextEpoch(m), root, r)

\* Map the pages [page, end) of the image, each at the place of its bytes behind
\* KernelFrame; r is the outcome so far.
RECURSIVE MapImage(_, _, _, _, _)
MapImage(r, root, page, end, flags) ==
    IF page >= end \/ ~r.ok THEN r
    ELSE MapImage(MapPage(r.h, root, page, KernelFrame + page - ImageBase \div VMM_PAGE_SIZE, flags),
                  root, page + 1, end, flags)

PagesUpTo(bytes) == (bytes + VMM_PAGE_SIZE - 1) \div VMM_PAGE_SIZE

\* An empty section maps nothing; one outside the image fails.
map_kernel_section(r, root, section) ==
    IF section.start >= section.end THEN r
    ELSE IF \/ section.start < ImageBase
            \/ PagesUpTo(section.end) > PagesUpTo(ImageBase + ImageSize)
           THEN [r EXCEPT !.ok = FALSE]
    ELSE MapImage(r, root, section.start \div VMM_PAGE_SIZE, PagesUpTo(section.end),
                  section.flags)

RECURSIVE MapSections(_, _, _)
MapSections(r, root, sections) ==
    IF sections = <<>> \/ ~r.ok THEN r
    ELSE MapSections(map_kernel_section(r, root, Head(sections)), root, Tail(sections))

\* Mutation: the root is left behind when a section cannot be mapped.
KeepOrDestroy_Abandon(m, image, root, active) ==
    [m |-> [m EXCEPT !.h = image.h], at |-> IF image.ok THEN root ELSE 0]

\* A space whose image could not be mapped is destroyed again.
KeepOrDestroy(m, image, root, active) ==
    IF image.ok THEN [m |-> [m EXCEPT !.h = image.h], at |-> root]
    ELSE [m |-> DestroySpace([m EXCEPT !.h = image.h], root, active).m, at |-> 0]

\* vmm_create_kernel_address_space: a space with the image's sections.
MapKernel(new, active) ==
    IF new.at = 0 THEN new
    ELSE KeepOrDestroy(new.m, MapSections([h |-> new.m.h, ok |-> TRUE], new.at, Sections),
                       new.at, active)

CreateKernelSpace(m, active) == MapKernel(CreateSpace(m), active)

\* The copy of a slot, if it succeeded, joins the others.
WithSlot(c, copy, i) ==
    [h |-> copy.h, roots |-> [c.roots EXCEPT ![i] = copy.at], ok |-> copy.at # 0]

\* The copies of the PML4 slots that the kernel's root lacks, in the order of the
\* slots from i on, behind those in c. c.roots[i] is the copy for slot i, or 0.
RECURSIVE CopySlots(_, _, _, _)
CopySlots(c, kernel, source, i) ==
    IF i = ENTRIES \/ ~c.ok THEN c
    ELSE LET entry == c.h.mem[source][i] IN
         CopySlots(
           IF Present(c.h.mem[kernel][i]) \/ ~Present(entry) THEN c
           ELSE WithSlot(c, IF Huge(entry) THEN Failed(c.h)
                            ELSE copy_page_table_subtree(c.h, entry.addr, kernel), i),
           kernel, source, i + 1)

RECURSIVE DiscardSlots(_, _, _)
DiscardSlots(s, roots, i) ==
    IF i = ENTRIES THEN s
    ELSE DiscardSlots(IF roots[i] = 0 THEN s
                      ELSE discard_page_table_tree(s, roots[i], PML4 - 1), roots, i + 1)

\* The copies are published together; or all that was built is discarded.
PublishOrDiscard(copies, kernel, source, cloned) ==
    IF ~copies.ok
      THEN Failed(discard_page_table_tree(DiscardSlots(copies.h, copies.roots, 0), cloned, PML4))
      ELSE [h |-> [copies.h EXCEPT !.mem[kernel] =
                     [i \in Index |-> IF copies.roots[i] = 0 THEN @[i]
                        ELSE [copies.h.mem[source][i] EXCEPT !.addr = copies.roots[i]]]],
            at |-> cloned]

Complete(clone, kernel, source) ==
    IF clone.at = 0 THEN clone
    ELSE PublishOrDiscard(
           CopySlots([h |-> clone.h, roots |-> [i \in Index |-> 0], ok |-> TRUE],
                     kernel, source, 0), kernel, source, clone.at)

\* vmm_prepare_address_space: a standalone clone of the source, then copies of
\* the slots the kernel lacks.
Prepare(s, kernel, source) == Complete(clone_page_table(s, source), kernel, source)

-----------------------------------------------------------------------------
\* The boot loader's tables lie behind the PMM's frames.
Init ==
    /\ \E n \in PoolSizes :
          /\ pool = 1..n
          /\ h = [free |-> 1..n, rec |-> <<>>,
                  mem |-> [f \in 1..n |-> EmptyTable] @@ BootTables]
    /\ validation_epoch = 0 /\ kernel_pml4 = 0 /\ last_cloned_pml4 = 0
    /\ address_space_records = <<>> /\ active_address_space_pml4 = 0
    /\ cr3 = BootRoot /\ tlb = NoTranslation
    /\ result = "none"

Calls == [h |-> h, epoch |-> validation_epoch, spaces |-> address_space_records,
          cloned |-> last_cloned_pml4]

Becomes(m, ok) ==
    /\ h' = m.h /\ validation_epoch' = m.epoch /\ address_space_records' = m.spaces
    /\ last_cloned_pml4' = m.cloned
    /\ result' = IF ok THEN "ok" ELSE "failed"
    /\ UNCHANGED pool

Created(new) == Becomes(new.m, new.at # 0)

Booted == result # "none"

\* Boot calls it once, before every other call.
vmm_init ==
    LET new == CreateSpace(Calls) IN
    /\ ~Booted
    /\ kernel_pml4' = new.at
    /\ Becomes([new.m EXCEPT !.cloned = 0], new.at # 0)
    /\ UNCHANGED <<active_address_space_pml4, cr3, tlb>>

vmm_create_address_space ==
    /\ Booted /\ Created(CreateSpace(Calls))
    /\ UNCHANGED <<kernel_pml4, active_address_space_pml4, cr3, tlb>>

vmm_create_kernel_address_space ==
    /\ Booted /\ Created(CreateKernelSpace(Calls, active_address_space_pml4))
    /\ UNCHANGED <<kernel_pml4, active_address_space_pml4, cr3, tlb>>

Live == {address_space_records[i].pml4_physical :
           i \in {j \in DOMAIN address_space_records : address_space_records[j].in_use}}

\* The roots callers have: those of live spaces, and the standalone clone, which
\* they verify and never map pages in.
KnownRoots == (Live \cup {kernel_pml4, last_cloned_pml4}) \ {0}

\* No caller destroys the kernel's own space.
vmm_destroy_address_space(root) ==
    LET d == DestroySpace(Calls, root, active_address_space_pml4) IN
    /\ Booted /\ root # kernel_pml4
    /\ Becomes(d.m, d.ok)
    /\ UNCHANGED <<kernel_pml4, active_address_space_pml4, cr3, tlb>>

vmm_map_page(root, page, frame, flags) ==
    LET r == MapPage(h, root, page, frame, flags) IN
    /\ Booted
    /\ Becomes([Calls EXCEPT !.h = r.h], r.ok)
    /\ UNCHANGED <<kernel_pml4, active_address_space_pml4, cr3, tlb>>

\* The translation is invalidated when the space is the active one.
vmm_unmap_page(root, page) ==
    LET r == UnmapPage(h, root, page) IN
    /\ Booted
    /\ Becomes([Calls EXCEPT !.h = r.h], r.ok)
    /\ tlb' = IF r.ok /\ root = active_address_space_pml4 /\ tlb.page = page
                THEN NoTranslation ELSE tlb
    /\ UNCHANGED <<kernel_pml4, active_address_space_pml4, cr3>>

ImagePages == (ImageBase \div VMM_PAGE_SIZE)..(PagesUpTo(ImageBase + ImageSize) - 1)

\* The kernel can only go on running on a root that maps its image.
MapsTheKernel(root) == \A page \in ImagePages : HardwareWalk(h, root, page) # 0

\* The previous space becomes inactive once the CPU is on the new root, which
\* drops the CPU's translations.
vmm_activate_address_space(root) ==
    LET target == find_address_space_record(address_space_records, root)
        previous == find_address_space_record(address_space_records, active_address_space_pml4)
        left == IF previous = 0 \/ active_address_space_pml4 = root THEN Calls
                ELSE [Calls EXCEPT !.spaces[previous].state = INACTIVE]
    IN
    /\ Booted /\ MapsTheKernel(root)
    /\ IF target = 0 \/ ~vmm_verify_page_table_root(h.rec, root)
         THEN Becomes(Calls, FALSE) /\ UNCHANGED <<cr3, tlb, active_address_space_pml4>>
       ELSE IF /\ active_address_space_pml4 = root
               /\ address_space_records[target].state = ACTIVE
         THEN Becomes(Calls, TRUE) /\ UNCHANGED <<cr3, tlb, active_address_space_pml4>>
       ELSE /\ cr3' = root /\ tlb' = NoTranslation
            /\ Becomes([left EXCEPT !.spaces[target].state = ACTIVE], TRUE)
            /\ active_address_space_pml4' = root
    /\ UNCHANGED kernel_pml4

\* Boot prepares the kernel's root once, from the boot loader's tables. On the
\* kernel's root there is nothing to do.
vmm_prepare_address_space ==
    LET r == Prepare(h, kernel_pml4, cr3) IN
    /\ Booted /\ kernel_pml4 # 0
    /\ IF cr3 = kernel_pml4 THEN Becomes(Calls, TRUE)
       ELSE /\ cr3 = BootRoot /\ last_cloned_pml4 = 0
            /\ Becomes([Calls EXCEPT !.h = r.h, !.cloned = r.at], r.at # 0)
    /\ UNCHANGED <<kernel_pml4, active_address_space_pml4, cr3, tlb>>

\* The CPU walks the active tables, to read or to write any page they map, and
\* keeps what it finds. The kernel itself goes through the large pages of the
\* boot loader for every access to a table (physical_to_virtual).
CpuTranslates(page, write) ==
    /\ Booted /\ HardwareWalk(h, cr3, page) # 0
    /\ tlb' = [page |-> page, frame |-> HardwareWalk(h, cr3, page)]
    /\ h' = Accessed(h, cr3, PML4, page, write)
    /\ result' = "ok"
    /\ UNCHANGED <<pool, validation_epoch, kernel_pml4, last_cloned_pml4,
                   address_space_records, active_address_space_pml4, cr3>>

Next ==
    \/ vmm_init
    \/ vmm_create_address_space
    \/ vmm_create_kernel_address_space
    \/ \E root \in KnownRoots : vmm_destroy_address_space(root)
    \/ \E root \in Live, page \in VirtualPage, frame \in DataFrame, flags \in LeafFlags :
          vmm_map_page(root, page, frame, flags)
    \/ \E root \in Live, page \in VirtualPage : vmm_unmap_page(root, page)
    \/ \E root \in KnownRoots : vmm_activate_address_space(root)
    \/ vmm_prepare_address_space
    \/ \E page \in CpuPage, write \in BOOLEAN : CpuTranslates(page, write)

-----------------------------------------------------------------------------
\* The registry's view of the tables in use.
InUse(s) == {s.rec[i] : i \in {j \in DOMAIN s.rec : s.rec[j].in_use}}
Tables(s) == {r.physical_address : r \in InUse(s)}
Roots(s) == {r.physical_address : r \in {q \in InUse(s) : q.level = PML4}}

\* The tables the registry holds are the tables that the entries below the
\* registered roots lead to (register_page_table, release_page_table): each is
\* reached along one path of one root, at the level and for the owner that its
\* record says. After every call no table is shared between trees, reachable
\* after its release, or held by nobody.
OwnershipIsTheTree ==
    LET reached == UNION {{[root |-> r, at |-> p] : p \in PathsBelow(h, r, PML4, <<>>)} :
                            r \in Roots(h)}
    IN  /\ {<<i.physical_address, i.level, i.owner_pml4>> : i \in InUse(h)}
             = {<<p.at.table, p.at.level, p.root>> : p \in reached}
        /\ Cardinality(InUse(h)) = Cardinality(Tables(h))
        /\ Cardinality(Tables(h)) = Cardinality(reached)

\* A live space can be destroyed exactly while the CPU does not run on it. Its
\* validation never takes one of its tables for one met before, whatever epochs
\* the records have kept from other trees and however often the epoch has
\* wrapped; and the records know which space the CPU is on.
InactiveSpacesCanBeDestroyed ==
    \A root \in Live :
       DestroySpace(Calls, root, active_address_space_pml4).ok <=> root # cr3

\* What the registry, the trees and the lifecycle amount to.
Observable ==
    <<h.free, {<<r.physical_address, r.level, r.owner_pml4>> : r \in InUse(h)},
      [f \in Tables(h) |-> h.mem[f]], Live, last_cloned_pml4, cr3>>

\* A call that fails, for want of a frame, of an ownership record or of an
\* address-space record, or because it is refused, changes nothing that can be
\* observed: all that it built is taken back.
FailedCallsLeaveNoTrace ==
    [][(Booted /\ result' = "failed") => Observable' = Observable]_vars

\* The tables with the bits that the CPU sets taken off their leaves: off those of
\* large pages only, or off all of them.
Masked(s, large_only) ==
    [s EXCEPT !.mem = [f \in DOMAIN s.mem |-> [i \in DOMAIN s.mem[f] |->
        IF Huge(s.mem[f][i]) \/ ~large_only
          THEN [s.mem[f][i] EXCEPT !.flags = @ \ VMM_HARDWARE_MANAGED_BITS]
          ELSE s.mem[f][i]]]]

\* What the CPU finds for each page is what the software finds. vmm_translate and
\* vmm_inspect_mapping, which trust only registered tables, give the CPU's frame,
\* and vmm_verify_page_table_ownership accepts every mapped page. The standalone
\* clone translates every page as the boot loader's tables do. As long as those
\* tables are in use vmm_verify_clone accepts it, whatever Accessed and Dirty bits
\* the CPU sets in the entries of their SMALL pages meanwhile, and
\* vmm_verify_recursive_clone accepts the path of each mapped page, up to those
\* bits. The bits of large pages are left out here: see
\* HardwareUpdatesAreNoCloneFailure.
SoftwareSeesWhatTheCpuSees ==
    /\ \A root \in Roots(h), page \in Page :
          LET frame == HardwareWalk(h, root, page) IN
          /\ vmm_translate(h, root, page) = frame
          /\ vmm_inspect_mapping(h, root, page).frame = frame
          /\ frame # 0 => vmm_verify_page_table_ownership(h, root, page)
    /\ last_cloned_pml4 # 0 =>
          LET unmarked == Masked(h, FALSE) IN
          /\ vmm_verify_clone(Masked(h, TRUE), BootRoot, last_cloned_pml4)
          /\ \A page \in Page :
                LET frame == HardwareWalk([mem |-> BootTables], BootRoot, page) IN
                /\ HardwareWalk(h, last_cloned_pml4, page) = frame
                /\ frame # 0 =>
                     vmm_verify_recursive_clone(unmarked, BootRoot, last_cloned_pml4, page)

\* "Recursive-clone verification must not treat hardware updates to these bits as
\* a clone failure" (vmm.c:34): vmm_verify_clone accepts the standalone clone as
\* long as the CPU uses the boot loader's tables, whatever bits it sets in them.
HardwareUpdatesAreNoCloneFailure ==
    last_cloned_pml4 # 0 /\ cr3 = BootRoot => vmm_verify_clone(h, BootRoot, last_cloned_pml4)
=============================================================================
