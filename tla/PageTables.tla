----------------------------- MODULE PageTables -----------------------------
(***************************************************************************)
(* The page-table trees of the virtual memory manager (mm/vmm/vmm.c) and   *)
(* the registry that records the level and the owner of every table, as    *)
(* operators on a record s with the fields                                 *)
(*    free   the free frames of the physical memory manager,               *)
(*    mem    the tables that the frames hold,                              *)
(*    rec    page_table_records, as long as page_table_record_count.       *)
(*                                                                         *)
(* Addresses are page numbers: the arguments that the code refuses because *)
(* they are not page aligned are left out. A frame's number is its         *)
(* physical address, and 0 is no frame.                                    *)
(***************************************************************************)
EXTENDS Integers, Sequences, FiniteSets, FiniteSetsExt

CONSTANTS ENTRIES,                  \* PAGE_TABLE_ENTRIES, 512
          PML4,                     \* level of a root, 3; a PT has level 0
          VMM_MAX_PAGE_TABLES

ASSUME PageTablesAssumption ==
    /\ ENTRIES \in Nat \ {0, 1} /\ PML4 \in Nat \ {0}
    /\ VMM_MAX_PAGE_TABLES \in Nat \ {0}

PT == 0
Index == 0..(ENTRIES - 1)

-----------------------------------------------------------------------------
\* Page-table entries and tables.
Empty == [addr |-> 0, flags |-> {}]
EmptyTable == [i \in Index |-> Empty]
Present(entry) == "P" \in entry.flags
Huge(entry) == "H" \in entry.flags

\* pml4_index, pdpt_index, pd_index, pt_index
IndexAt(page, level) == (page \div ENTRIES ^ level) % ENTRIES

-----------------------------------------------------------------------------
\* The ownership registry.

\* The record of a table in use, or 0.
find_page_table_record(rec, physical) ==
    LET found == {i \in DOMAIN rec : rec[i].in_use /\ rec[i].physical_address = physical}
    IN  IF found = {} THEN 0 ELSE Min(found)

verify_page_table_record(rec, physical, level, owner) ==
    LET i == find_page_table_record(rec, physical) IN
    i # 0 /\ rec[i].level = level /\ rec[i].owner_pml4 = owner

vmm_verify_page_table_root(rec, root) ==
    root # 0 /\ verify_page_table_record(rec, root, PML4, root)

\* The slot register_page_table writes: the first that is not in use, or one
\* more. There may be none.
FreeSlot(rec) ==
    LET unused == {i \in DOMAIN rec : ~rec[i].in_use} IN
    IF unused = {} THEN Len(rec) + 1 ELSE Min(unused)

RegistryFull(rec) == FreeSlot(rec) > VMM_MAX_PAGE_TABLES

\* Mutation: a reused slot keeps the owner it had.
register_page_table_KeepOwner(rec, physical, level, owner) ==
    LET i == FreeSlot(rec) IN
    IF i > Len(rec)
      THEN Append(rec, [physical_address |-> physical, owner_pml4 |-> owner,
                        validation_epoch |-> 0, level |-> level, in_use |-> TRUE])
      ELSE [rec EXCEPT ![i].physical_address = physical,
                       ![i].level = level, ![i].in_use = TRUE]

\* A reused record keeps its validation epoch.
register_page_table(rec, physical, level, owner) ==
    LET i == FreeSlot(rec) IN
    IF i > Len(rec)
      THEN Append(rec, [physical_address |-> physical, owner_pml4 |-> owner,
                        validation_epoch |-> 0, level |-> level, in_use |-> TRUE])
      ELSE [rec EXCEPT ![i].physical_address = physical, ![i].owner_pml4 = owner,
                       ![i].level = level, ![i].in_use = TRUE]

Failed(s) == [h |-> s, at |-> 0]

\* Allocate, zero and register a table. A PML4 without an owner owns itself.
\* When the registry is full the frame goes back to the PMM.
allocate_page_table(s, level, owner) ==
    IF s.free = {} THEN Failed(s)
    ELSE LET physical == Min(s.free)
             zeroed == [s EXCEPT !.mem[physical] = EmptyTable]
         IN  IF RegistryFull(s.rec) THEN Failed(zeroed)
             ELSE [h |-> [zeroed EXCEPT !.free = @ \ {physical},
                           !.rec = register_page_table(@, physical, level,
                                      IF level = PML4 /\ owner = 0 THEN physical ELSE owner)],
                   at |-> physical]

release_page_table(s, physical) ==
    LET i == find_page_table_record(s.rec, physical) IN
    IF i = 0 THEN s
    ELSE [s EXCEPT !.rec[i].in_use = FALSE, !.free = @ \cup {physical}]

-----------------------------------------------------------------------------
\* Mapping one page.

\* The table a present entry leads to, if the registry knows it at this level
\* and for this owner; otherwise 0.
verify_existing_child_table(s, entry, level, owner) ==
    IF /\ Present(entry) /\ ~Huge(entry)
       /\ verify_page_table_record(s.rec, entry.addr, level, owner)
      THEN entry.addr ELSE 0

\* A new table is entered in its parent.
Linked(new, parent, index, flags) ==
    IF new.at = 0 THEN [h |-> new.h, created |-> FALSE, at |-> 0]
    ELSE [h |-> [new.h EXCEPT !.mem[parent][index] =
                   [addr |-> new.at, flags |-> {"P", "W"} \cup (flags \cap {"U"})]],
          created |-> TRUE, at |-> new.at]

get_or_create_table(s, parent, index, flags, level, owner) ==
    IF Present(s.mem[parent][index])
      THEN [h |-> s, created |-> FALSE,
            at |-> verify_existing_child_table(s, s.mem[parent][index], level, owner)]
      ELSE Linked(allocate_page_table(s, level, owner), parent, index, flags)

rollback_page_table(s, parent, index, child) ==
    IF Present(s.mem[parent][index]) /\ s.mem[parent][index].addr = child
      THEN release_page_table([s EXCEPT !.mem[parent][index] = Empty], child)
      ELSE s

\* A failed mapping below a table takes back the table if this call created it.
KeepOrRollback(r, child, table, index) ==
    IF r.ok \/ ~child.created THEN r
    ELSE [h |-> rollback_page_table(r.h, table, index, child.at), ok |-> FALSE]

\* vmm_map_page below a table of the given level: get or create the next
\* table and map below it. A present page is never overwritten.
RECURSIVE MapBelow(_, _, _, _, _, _, _), MapInChild(_, _, _, _, _, _, _)
MapBelow(s, table, level, page, frame, flags, owner) ==
    LET index == IndexAt(page, level) IN
    IF level = PT
      THEN IF Present(s.mem[table][index]) THEN [h |-> s, ok |-> FALSE]
           ELSE [h |-> [s EXCEPT !.mem[table][index] =
                          [addr |-> frame, flags |-> {"P"} \cup (flags \cap {"W", "U"})]],
                 ok |-> TRUE]
      ELSE MapInChild(get_or_create_table(s, table, index, flags, level - 1, owner),
                      table, level, page, frame, flags, owner)

MapInChild(child, table, level, page, frame, flags, owner) ==
    IF child.at = 0 THEN [h |-> child.h, ok |-> FALSE]
    ELSE KeepOrRollback(MapBelow(child.h, child.at, level - 1, page, frame, flags, owner),
                        child, table, IndexAt(page, level))

MapPage(s, root, page, frame, flags) ==
    IF flags \subseteq {"W", "U"} /\ vmm_verify_page_table_root(s.rec, root)
      THEN MapBelow(s, root, PML4, page, frame, flags, root)
      ELSE [h |-> s, ok |-> FALSE]

-----------------------------------------------------------------------------
\* Walking the tables.

NoLeaf == [level |-> PT, table |-> 0, entry |-> Empty]

\* The leaf that the entries lead to. Verified: each table on the way must be
\* registered for the owner, as in vmm_translate; otherwise the entries are
\* followed as the CPU does.
RECURSIVE LeafBelow(_, _, _, _, _, _)
LeafBelow(s, table, level, page, owner, verified) ==
    LET entry == s.mem[table][IndexAt(page, level)] IN
    IF ~Present(entry) \/ (level = PML4 /\ Huge(entry)) THEN NoLeaf
    ELSE IF level = PT \/ Huge(entry)
           THEN [level |-> level, table |-> table, entry |-> entry]
    ELSE IF verified /\ verify_existing_child_table(s, entry, level - 1, owner) = 0
           THEN NoLeaf
    ELSE LeafBelow(s, entry.addr, level - 1, page, owner, verified)

\* The frame of a page below a leaf of this level.
FrameOf(leaf, page) ==
    IF Present(leaf.entry) THEN leaf.entry.addr + (page % ENTRIES ^ leaf.level) ELSE 0

Leaf(s, root, page) ==
    IF vmm_verify_page_table_root(s.rec, root)
      THEN LeafBelow(s, root, PML4, page, root, TRUE) ELSE NoLeaf

vmm_translate(s, root, page) == FrameOf(Leaf(s, root, page), page)

vmm_inspect_mapping(s, root, page) ==
    LET leaf == Leaf(s, root, page) IN
    [frame |-> FrameOf(leaf, page),
     flags |-> leaf.entry.flags \cap {"P", "W", "U", "H"}]

HardwareWalk(s, root, page) == FrameOf(LeafBelow(s, root, PML4, page, root, FALSE), page)

\* vmm_unmap_page goes through small pages only and clears the last entry.
UnmapPage(s, root, page) ==
    LET leaf == Leaf(s, root, page) IN
    IF Present(leaf.entry) /\ leaf.level = PT
      THEN [h |-> [s EXCEPT !.mem[leaf.table][IndexAt(page, PT)] = Empty],
            frame |-> leaf.entry.addr, ok |-> TRUE]
      ELSE [h |-> s, frame |-> 0, ok |-> FALSE]

-----------------------------------------------------------------------------
\* Whole trees. Each is walked in the order of the entries; i is the next one.

RECURSIVE TakeDown(_, _, _, _)
TakeDown(s, table, level, i) ==
    IF level = PT \/ i = ENTRIES THEN release_page_table(s, table)
    ELSE LET entry == s.mem[table][i]
             cleared == [s EXCEPT !.mem[table][i] = Empty]
         IN  IF ~Present(entry) THEN TakeDown(s, table, level, i + 1)
             ELSE IF Huge(entry) THEN TakeDown(cleared, table, level, i + 1)
             ELSE TakeDown(TakeDown(cleared, entry.addr, level - 1, 0), table, level, i + 1)

\* Reclaim a validated hierarchy, children first. Frames that leaves map are
\* not touched.
destroy_address_space_tree(s, table, level) == TakeDown(s, table, level, 0)

\* Reclaim a hierarchy that a failed call has built so far.
discard_page_table_tree(s, table, level) == TakeDown(s, table, level, 0)

\* Every table below `table' is registered at its level for the owner and is
\* met once in this epoch. The epochs written stay written when it fails.
RECURSIVE Validate(_, _, _, _, _, _)
Validate(s, table, level, owner, epoch, i) ==
    LET r == find_page_table_record(s.rec, table) IN
    IF i = 0 /\ (\/ r = 0
                 \/ s.rec[r].level # level
                 \/ s.rec[r].owner_pml4 # owner
                 \/ s.rec[r].validation_epoch = epoch)
      THEN [h |-> s, ok |-> FALSE]
    ELSE LET marked == [s EXCEPT !.rec[r].validation_epoch = epoch] IN
         IF level = PT \/ i = ENTRIES THEN [h |-> marked, ok |-> TRUE]
         ELSE LET entry == s.mem[table][i]
                  child == IF ~Present(entry) THEN [h |-> marked, ok |-> TRUE]
                           ELSE IF Huge(entry) THEN [h |-> marked, ok |-> level # PML4]
                           ELSE Validate(marked, entry.addr, level - 1, owner, epoch, 0)
              IN  IF child.ok THEN Validate(child.h, table, level, owner, epoch, i + 1)
                  ELSE child

validate_address_space_tree(s, root, epoch) == Validate(s, root, PML4, root, epoch, 0)

\* A copy that is incomplete is discarded.
KeepOrDiscard(copy, table, level) ==
    IF copy.ok THEN [h |-> copy.h, at |-> table]
    ELSE Failed(discard_page_table_tree(copy.h, table, level))

\* The copy of a table is entered in the copy of its parent.
Entered(child, entry, destination, i) ==
    [h |-> IF child.at = 0 THEN child.h
           ELSE [child.h EXCEPT !.mem[destination][i] = [entry EXCEPT !.addr = child.at]],
     ok |-> child.at # 0]

RECURSIVE CopyTree(_, _, _, _), CopyInto(_, _, _, _), CopyEntries(_, _, _, _, _, _)

\* A new table with copies of the leaves of `source' and of the trees below it.
\* A copied PML4 owns the copy.
CopyTree(s, source, level, owner) ==
    CopyInto(allocate_page_table(s, level, owner), source, level, owner)

CopyInto(new, source, level, owner) ==
    IF new.at = 0 THEN new
    ELSE KeepOrDiscard(
           CopyEntries([h |-> new.h, ok |-> TRUE], source, new.at, level,
                       IF level = PML4 THEN new.at ELSE owner, 0), new.at, level)

\* The present entries from i on; c is the copy so far.
CopyEntries(c, source, destination, level, owner, i) ==
    IF i = ENTRIES \/ ~c.ok THEN c
    ELSE LET entry == c.h.mem[source][i] IN
         CopyEntries(
           IF ~Present(entry) THEN c
           ELSE IF level = PT \/ Huge(entry)
             THEN [c EXCEPT !.h.mem[destination][i] = entry]
           ELSE Entered(CopyTree(c.h, entry.addr, level - 1, owner), entry, destination, i),
           source, destination, level, owner, i + 1)

\* A standalone clone of the tree of a root.
clone_page_table(s, root) == CopyTree(s, root, PML4, 0)

\* A copy of a tree of level PDPT for an existing root.
copy_page_table_subtree(s, source, owner) == CopyTree(s, source, PML4 - 1, owner)

\* The bits of an entry that the CPU sets while it uses it.
VMM_HARDWARE_MANAGED_BITS == {"A", "D"}

\* Mutation: leaf entries are compared with the hardware bits.
SameLeaf_AllBits(source, destination) == source = destination

SameLeaf(source, destination) ==
    /\ source.addr = destination.addr
    /\ source.flags \ VMM_HARDWARE_MANAGED_BITS
         = destination.flags \ VMM_HARDWARE_MANAGED_BITS

RECURSIVE verify_clone_level(_, _, _, _)
verify_clone_level(s, source, destination, level) ==
    /\ source # 0 /\ destination # 0 /\ source # destination
    /\ \A i \in Index :
          LET se == s.mem[source][i]
              de == s.mem[destination][i]
          IN  IF ~Present(se) THEN ~Present(de)
              ELSE IF Huge(se) THEN de = se
              ELSE /\ Present(de)
                   /\ IF level = PT THEN SameLeaf(se, de)
                      ELSE verify_clone_level(s, se.addr, de.addr, level - 1)

vmm_verify_clone(s, source_root, cloned_root) ==
    verify_clone_level(s, source_root, cloned_root, PML4)

\* One path of a clone: other tables, the same leaf with all its flags.
RECURSIVE SamePath(_, _, _, _, _)
SamePath(s, source, destination, level, page) ==
    LET se == s.mem[source][IndexAt(page, level)]
        de == s.mem[destination][IndexAt(page, level)]
    IN  /\ source # 0 /\ destination # 0 /\ source # destination
        /\ Present(se) /\ Present(de)
        /\ level = PML4 => ~Huge(se) /\ ~Huge(de)
        /\ IF level = PT \/ Huge(se) THEN se = de
           ELSE ~Huge(de) /\ SamePath(s, se.addr, de.addr, level - 1, page)

vmm_verify_recursive_clone(s, source_root, cloned_root, page) ==
    SamePath(s, source_root, cloned_root, PML4, page)

\* Every table on the path of a page is registered for the root; the page itself
\* need not be mapped.
RECURSIVE OwnedBelow(_, _, _, _, _)
OwnedBelow(s, table, level, page, owner) ==
    LET entry == s.mem[table][IndexAt(page, level)] IN
    /\ verify_page_table_record(s.rec, table, level, owner)
    /\ \/ level = PT
       \/ /\ Present(entry)
          /\ IF Huge(entry) THEN level # PML4
             ELSE OwnedBelow(s, entry.addr, level - 1, page, owner)

vmm_verify_page_table_ownership(s, root, page) ==
    root # 0 /\ OwnedBelow(s, root, PML4, page, root)

-----------------------------------------------------------------------------
\* The CPU sets the Accessed bit of each entry it follows and, when it writes to a
\* page that it may write to, the Dirty bit of the leaf.
RECURSIVE Accessed(_, _, _, _, _)
Accessed(s, table, level, page, write) ==
    LET i == IndexAt(page, level)
        entry == s.mem[table][i]
        dirty == IF write /\ "W" \in entry.flags THEN {"D"} ELSE {}
    IN  IF level = PT \/ Huge(entry)
          THEN [s EXCEPT !.mem[table][i].flags = @ \cup {"A"} \cup dirty]
          ELSE Accessed([s EXCEPT !.mem[table][i].flags = @ \cup {"A"}],
                        entry.addr, level - 1, page, write)

\* The tables that the entries below a table lead to, with their levels, once
\* for each path.
RECURSIVE PathsBelow(_, _, _, _)
PathsBelow(s, table, level, path) ==
    {[table |-> table, level |-> level, path |-> path]}
      \cup (IF level = PT THEN {}
            ELSE UNION {PathsBelow(s, s.mem[table][i].addr, level - 1, Append(path, i)) :
                          i \in {j \in Index : /\ Present(s.mem[table][j])
                                              /\ ~Huge(s.mem[table][j])}})
=============================================================================
