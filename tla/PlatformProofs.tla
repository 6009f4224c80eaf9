--------------------------- MODULE PlatformProofs ---------------------------
(***************************************************************************)
(* Discovery, routing and their composition.                               *)
(*                                                                         *)
(* For every size of the headers and entries, every table and every        *)
(* sequence of entries: discovery reads nothing past the end of the MADT,  *)
(* a successful parse has taken the whole table, and the table is the last *)
(* valid MADT of the root table.                                           *)
(*                                                                         *)
(* For any number of IOAPICs, GSIs and redirection entries: once the       *)
(* IOAPICs are accepted no GSI has two owners, a GSI resolves exactly to   *)
(* the entry that owns it, and the one entry that is programmed is the one *)
(* the MADT asks for.                                                      *)
(*                                                                         *)
(* platform_init is both, so all of it holds of platform_init.             *)
(***************************************************************************)
EXTENDS Platform, TLAPS

-----------------------------------------------------------------------------
(* Discovery.                                                              *)

Types == {"local", "io", "iso", "unknown"}
Known == {"local", "io", "iso"}
Records == [local : Nat, io : Nat, iso : Nat, unknown : Nat]

(* The numbers are natural numbers.                                        *)
Numbers ==
  /\ acpi_pc \in {"rsdp", "root", "enumerate", "madt", "entries", "done"}
  /\ root_left \in Nat /\ madt_address \in Nat /\ madt_length \in Nat
  /\ entry_physical \in Nat /\ covered \in Nat /\ touched \in Nat
  /\ madt \in Records /\ seen \in Records
  /\ valid \subseteq Nat

(* The walk of the root table counts down, so the lowest number is the     *)
(* last table; what is still to be read has a lower number.                *)
Root ==
  /\ valid = {} => madt_address = 0
  /\ valid # {} => madt_address \in valid /\ \A t \in valid : madt_address <= t
  /\ acpi_pc \in {"rsdp", "root"} => valid = {}
  /\ acpi_pc = "enumerate" => \A t \in valid : t > root_left

(* The walk of the MADT: the entries taken fill the table up to            *)
(* entry_physical.                                                         *)
Walk ==
  /\ acpi_pc \in {"rsdp", "root", "enumerate", "madt"} => covered = 0 /\ seen = NoRecords
  /\ acpi_pc \in {"rsdp", "root"} => madt_length = 0 /\ madt_address = 0
  /\ acpi_pc = "entries" =>
       /\ madt_length >= MadtHeader
       /\ entry_physical = MadtHeader + covered
       /\ entry_physical <= madt_length
       /\ touched <= madt_length
       /\ madt = seen
       /\ \A type \in Known : madt[type] <= MaxRecords
  /\ acpi_pc = "done" => ReadsStayInTheTable /\ ParsedIsTheTable
  /\ acpi_pc \in {"rsdp", "root", "enumerate", "madt"} => touched = 0

AcpiInv == Numbers /\ Root /\ Walk

-----------------------------------------------------------------------------
(* The sizes, as facts the provers can use one by one.                     *)
LEMMA Sizes ==
  /\ SdtHeader \in Nat /\ MadtHeader \in Nat /\ EntryHeader \in Nat
  /\ LocalApic \in Nat /\ IoApic \in Nat /\ Iso \in Nat /\ MaxRecords \in Nat
  /\ MaxRootEntries \in Nat /\ MaxTable \in Nat /\ MaxEntry \in Nat
  /\ UINT32 \in Nat /\ UINT32 > 0 /\ MadtHeader > 0 /\ EntryHeader > 0
  BY LayoutAssumption

(* The structure of an entry has a size, and it covers the entry's header. *)
LEMMA SizeIsNat == ASSUME NEW type \in Types PROVE Size(type) \in Nat /\ Size(type) >= EntryHeader
  BY Sizes, LayoutAssumption DEF Types, Size

(* A counter that wraps at 2^32 is a natural number no larger than the     *)
(* count.                                                                  *)
LEMMA Wrapped == ASSUME NEW n \in Nat PROVE n % UINT32 \in Nat /\ n % UINT32 <= n
  <1>1. n % UINT32 \in 0 .. UINT32 - 1
    BY Sizes
  <1>2. CASE n >= UINT32
    BY <1>1, <1>2, Sizes
  <1>3. CASE n < UINT32
    <2>1. n % UINT32 = n
      BY <1>3, Sizes
    <2> QED BY <2>1
  <1> QED BY <1>2, <1>3, Sizes

(* Counting an entry keeps the records well formed, and the count of its   *)
(* type within bounds where there was room.                                *)
LEMMA AnotherRecord ==
  ASSUME NEW r \in Records, NEW type \in Types
  PROVE  /\ Another(r, type) \in Records
         /\ \A k \in Types : k # type => Another(r, type)[k] = r[k]
         /\ Another(r, type)[type] <= r[type] + 1
  <1>1. r[type] \in Nat
    BY DEF Records, Types
  <1>2. (r[type] + 1) % UINT32 \in Nat /\ (r[type] + 1) % UINT32 <= r[type] + 1
    BY <1>1, Wrapped
  <1> QED BY <1>1, <1>2 DEF Another, Records, Types

-----------------------------------------------------------------------------
(* The initial state satisfies the invariant.                              *)
LEMMA AcpiInitInv == AcpiInit => AcpiInv
  BY Sizes DEF AcpiInit, AcpiInv, Numbers, Root, Walk, NoRecords, Records, Known

(* Everything before the entries of the MADT.                              *)
LEMMA RootInv ==
  ASSUME AcpiInv,
         \/ \E rsdp \in Rsdp : FindRoot(rsdp)
         \/ \E sound \in BOOLEAN, n \in 0 .. MaxRootEntries : acpi_enumerate_xsdt(sound, n) \/ acpi_enumerate_rsdt(sound, n)
         \/ \E present, intact, is_madt \in BOOLEAN, n \in 0 .. MaxTable : acpi_inspect_table(present, intact, is_madt, n)
         \/ RootDone \/ OpenMadt
  PROVE  AcpiInv'
  <1> USE Sizes
  <1>1. ASSUME NEW rsdp \in Rsdp, FindRoot(rsdp) PROVE AcpiInv'
    <2>1. \/ acpi_pc' = "done" /\ result' # 0
          \/ acpi_pc' = "root"
      BY <1>1 DEF FindRoot, Return, Rsdp
    <2> QED BY <1>1, <2>1 DEF FindRoot, AcpiInv, Numbers, Root, Walk, ReadsStayInTheTable, ParsedIsTheTable
  <1>2. ASSUME NEW sound \in BOOLEAN, NEW n \in 0 .. MaxRootEntries,
               acpi_enumerate_xsdt(sound, n) \/ acpi_enumerate_rsdt(sound, n)
        PROVE  AcpiInv'
    BY <1>2 DEF acpi_enumerate_xsdt, acpi_enumerate_rsdt, OpenRoot, Return, AcpiInv, Numbers, Root, Walk,
                ReadsStayInTheTable, ParsedIsTheTable
  <1>3. ASSUME NEW present \in BOOLEAN, NEW intact \in BOOLEAN, NEW is_madt \in BOOLEAN, NEW n \in 0 .. MaxTable,
               acpi_inspect_table(present, intact, is_madt, n)
        PROVE  AcpiInv'
    <2>1. /\ acpi_pc = "enumerate" /\ acpi_pc' = "enumerate" /\ root_left > 0 /\ root_left' = root_left - 1
          /\ UNCHANGED <<entry_physical, madt, seen, covered, touched>>
      BY <1>3 DEF acpi_inspect_table
    <2>2. \/ madt_address' = root_left /\ madt_length' = n /\ valid' = valid \union {root_left}
          \/ UNCHANGED <<madt_address, madt_length, valid>>
      BY <1>3 DEF acpi_inspect_table, acpi_validate_sdt
    <2>3. Numbers'
      <3>1. root_left' \in Nat /\ n \in Nat
        BY <2>1 DEF AcpiInv, Numbers
      <3>2. madt_address' \in Nat /\ madt_length' \in Nat
        BY <2>2, <3>1 DEF AcpiInv, Numbers
      <3>3. valid' \subseteq Nat
        BY Zenon, <2>2 DEF AcpiInv, Numbers
      <3> QED BY <2>1, <3>1, <3>2, <3>3 DEF AcpiInv, Numbers, Records
    <2>4. Root'
      <3>1. CASE UNCHANGED <<madt_address, valid>>
        BY <2>1, <3>1 DEF AcpiInv, Numbers, Root
      <3>2. CASE madt_address' = root_left /\ valid' = valid \union {root_left}
        <4>1. \A t \in valid' : t > root_left' /\ madt_address' <= t
          BY <2>1, <3>2 DEF AcpiInv, Numbers, Root
        <4> QED BY <2>1, <3>2, <4>1 DEF Root
      <3> QED BY <2>2, <3>1, <3>2
    <2>5. Walk'
      BY <2>1 DEF AcpiInv, Walk
    <2> QED BY <2>3, <2>4, <2>5 DEF AcpiInv
  <1>4. ASSUME RootDone PROVE AcpiInv'
    BY <1>4 DEF RootDone, root, Records, Return, AcpiInv, Numbers, Root, Walk, ReadsStayInTheTable, ParsedIsTheTable
  <1>5. ASSUME OpenMadt PROVE AcpiInv'
    <2>1. Numbers' /\ Root'
      BY <1>5 DEF OpenMadt, root, Return, AcpiInv, Numbers, Root, NoRecords, Records
    <2>2. Walk'
      BY <1>5 DEF OpenMadt, root, Return, AcpiInv, Numbers, Walk, ReadsStayInTheTable, ParsedIsTheTable, NoRecords, Known
    <2> QED BY <2>1, <2>2 DEF AcpiInv
  <1> QED BY <1>1, <1>2, <1>3, <1>4, <1>5

(* One entry of the MADT.                                                  *)
LEMMA EntryInv ==
  ASSUME AcpiInv, NEW type \in Types, NEW n \in 0 .. MaxEntry, acpi_parse_madt(type, n)
  PROVE  AcpiInv'
  <1> USE Sizes
  <1>1. /\ acpi_pc = "entries" /\ entry_physical < madt_length
        /\ UNCHANGED <<root_left, madt_address, madt_length, valid>>
    BY DEF acpi_parse_madt, root
  <1>3. CASE ~HeaderFits
    BY <1>1, <1>3 DEF acpi_parse_madt, Return, AcpiInv, Numbers, Root, Walk, ReadsStayInTheTable, ParsedIsTheTable
  <1>4. CASE HeaderFits /\ ~EntryAccepted(type, n)
    <2>1. touched' \in Nat /\ touched' <= madt_length
      BY <1>1, <1>4 DEF acpi_parse_madt, ReadUpTo, Further, HeaderFits, AcpiInv, Numbers, Walk
    <2> QED BY <1>1, <1>4, <2>1 DEF acpi_parse_madt, Return, AcpiInv, Numbers, Root, Walk, ReadsStayInTheTable, ParsedIsTheTable
  <1>5. CASE HeaderFits /\ EntryAccepted(type, n)
    <2>1. Size(type) \in Nat /\ n \in Nat /\ n <= madt_length - entry_physical /\ Size(type) <= n
      BY <1>5, SizeIsNat DEF EntryAccepted, Size, Types
    <2>2. touched' \in Nat /\ touched' <= madt_length
      BY <1>1, <1>5, <2>1 DEF acpi_parse_madt, ReadUpTo, Further, AcpiInv, Numbers, Walk
    <2>3. /\ acpi_pc' = "entries" /\ entry_physical' = entry_physical + n /\ covered' = covered + n
          /\ madt' = Another(madt, type) /\ seen' = Another(seen, type)
      BY <1>1, <1>5 DEF acpi_parse_madt, TakeEntry
    <2>4. madt' \in Records /\ seen' \in Records /\ madt' = seen'
      BY <1>1, <2>3, AnotherRecord DEF AcpiInv, Numbers, Walk
    <2>5. \A k \in Known : madt'[k] <= MaxRecords
      <3> SUFFICES ASSUME NEW k \in Known PROVE madt'[k] <= MaxRecords
        OBVIOUS
      <3>1. k \in Types /\ madt[k] \in Nat /\ madt'[k] \in Nat
        BY <2>4 DEF AcpiInv, Numbers, Records, Known, Types
      <3>2. CASE k # type
        BY <1>1, <2>3, <3>1, <3>2, AnotherRecord DEF AcpiInv, Numbers, Walk
      <3>3. CASE k = type
        <4>1. madt[k] < MaxRecords
          BY <1>5, <3>3 DEF EntryAccepted, Known
        <4>2. madt'[k] <= madt[k] + 1
          BY <2>3, <3>3, AnotherRecord DEF AcpiInv, Numbers
        <4> QED BY <4>1, <4>2, <3>1
      <3> QED BY <3>2, <3>3
    <2>6. Numbers'
      BY <1>1, <2>1, <2>2, <2>3, <2>4 DEF AcpiInv, Numbers
    <2>7. Root'
      BY <1>1, <2>3 DEF AcpiInv, Root
    <2>8. Walk'
      BY <1>1, <2>1, <2>2, <2>3, <2>4, <2>5 DEF AcpiInv, Numbers, Walk
    <2> QED BY <2>6, <2>7, <2>8 DEF AcpiInv
  <1> QED BY <1>3, <1>4, <1>5

(* The end of the MADT.                                                    *)
LEMMA DoneInv == ASSUME AcpiInv, MadtDone PROVE AcpiInv'
  BY Sizes DEF MadtDone, Return, root, AcpiInv, Numbers, Root, Walk, ReadsStayInTheTable, ParsedIsTheTable, Known

(* A step preserves the invariant.                                         *)
LEMMA AcpiStepInv == ASSUME AcpiInv, [AcpiNext]_acpiVars PROVE AcpiInv'
  <1>1. CASE UNCHANGED acpiVars
    BY <1>1 DEF acpiVars, root, AcpiInv, Numbers, Root, Walk, ReadsStayInTheTable, ParsedIsTheTable
  <1>2. ASSUME NEW type \in {"local", "io", "iso", "unknown"}, NEW n \in 0 .. MaxEntry, acpi_parse_madt(type, n)
        PROVE  AcpiInv'
    BY <1>2, EntryInv DEF Types
  <1> QED BY <1>1, <1>2, RootInv, DoneInv DEF AcpiNext

(* The invariant gives the three properties.                               *)
LEMMA AcpiInvImplies == AcpiInv => ReadsStayInTheTable /\ ParsedIsTheTable /\ TheLastValidMadtIsParsed
  BY DEF AcpiInv, Root, Walk, ReadsStayInTheTable, ParsedIsTheTable, TheLastValidMadtIsParsed

(* No byte past the end of the MADT is read, whatever lengths its entries  *)
(* claim.                                                                  *)
THEOREM ReadsAreBounded == AcpiSpec => []ReadsStayInTheTable
  BY AcpiInitInv, AcpiStepInv, AcpiInvImplies, PTL DEF AcpiSpec

(* A successful parse has consumed the whole table and recorded every      *)
(* entry of it.                                                            *)
THEOREM ParseIsComplete == AcpiSpec => []ParsedIsTheTable
  BY AcpiInitInv, AcpiStepInv, AcpiInvImplies, PTL DEF AcpiSpec

(* The table that is parsed is the last valid MADT of the root table.      *)
THEOREM LastMadtWins == AcpiSpec => []TheLastValidMadtIsParsed
  BY AcpiInitInv, AcpiStepInv, AcpiInvImplies, PTL DEF AcpiSpec

-----------------------------------------------------------------------------
(* Routing.                                                                *)

Instance == [address : Pages, gsi_base : 0 .. UINT32_MAX, max : 0 .. IOAPIC_MAX_REDIR_INDEX]

Shape ==
  /\ pc \in {"lapic", "ioapic", "probe", "gsi", "routing", "ready", "failed"}
  /\ madt_io_apics \in Seq(IoApicRecord)
  /\ ioapic_instances \in Seq(Instance)
  /\ gsi_initialized \in BOOLEAN

(* What has been probed is counted, and no device was accepted twice.      *)
Counted ==
  /\ ioapic_count = 0 \/ ioapic_count = Probed
  /\ pc \in {"lapic", "ioapic"} => ioapic_count = 0
  /\ pc = "probe" => ioapic_count = Probed
  /\ \A i, j \in 1 .. Probed : i # j => ioapic_instances[i].address # ioapic_instances[j].address

(* GSIs are resolved only after the check for overlap.                     *)
Accepted ==
  /\ pc \in {"lapic", "ioapic", "probe", "gsi"} => ~gsi_initialized
  /\ pc \in {"routing", "ready"} => gsi_initialized
  /\ pc = "gsi" \/ gsi_initialized => ~Overlapping
  /\ pc = "failed" /\ ~gsi_initialized => ioapic_count = 0

RoutesInv == Shape /\ Counted /\ Accepted

-----------------------------------------------------------------------------
(* The constants, as facts the provers can use one by one.                 *)
LEMMA Constants ==
  /\ IOAPIC_MAX_INSTANCES \in Nat /\ IOAPIC_MAX_REDIR_INDEX \in Nat /\ UINT32_MAX \in Nat
  BY RoutesAssumption

(* The fields of a probed IOAPIC are natural numbers.                      *)
LEMMA InstanceFields ==
  ASSUME ioapic_instances \in Seq(Instance), NEW i \in 1 .. Probed
  PROVE  /\ ioapic_instances[i] \in Instance
         /\ ioapic_instances[i].gsi_base \in Nat /\ ioapic_instances[i].max \in Nat
         /\ ioapic_instances[i].max <= IOAPIC_MAX_REDIR_INDEX
  <1>1. ioapic_instances[i] \in Instance
    BY DEF Probed
  <1> QED BY <1>1, Constants DEF Instance

(* Whatever the MADT holds is a sequence of records.                       *)
LEMMA ListsAreSequences == IoApicLists \subseteq Seq(IoApicRecord)
  <1> SUFFICES ASSUME NEW n \in 0 .. IOAPIC_MAX_INSTANCES + 1, NEW records \in [1 .. n -> IoApicRecord]
               PROVE  records \in Seq(IoApicRecord)
    BY DEF IoApicLists
  <1>1. n \in Nat
    BY Constants
  <1> QED BY <1>1

LEMMA RoutesInitInv == Init => RoutesInv
  <1> SUFFICES ASSUME Init PROVE RoutesInv
    OBVIOUS
  <1>1. madt_io_apics \in Seq(IoApicRecord)
    BY DEF Init
  <1>2. ioapic_instances = <<>> /\ ioapic_count = 0 /\ pc = "lapic" /\ gsi_initialized = FALSE
    BY DEF Init
  <1>3. Shape
    <2>1. ioapic_instances \in Seq(Instance)
      BY <1>2
    <2> QED BY Zenon, <1>1, <1>2, <2>1 DEF Shape
  <1>4. Counted
    <2>1. Probed = 0
      BY <1>2 DEF Probed
    <2> QED BY <1>2, <2>1 DEF Counted
  <1>5. Accepted
    BY <1>2 DEF Accepted
  <1> QED BY <1>3, <1>4, <1>5 DEF RoutesInv

-----------------------------------------------------------------------------
(* A step that leaves the IOAPICs alone and goes on in the order of        *)
(* platform_init preserves the invariant.                                  *)
LEMMA SameIoapics ==
  ASSUME RoutesInv, UNCHANGED <<madt_io_apics, ioapic_instances, ioapic_count>>, Accepted',
         pc' \in {"lapic", "ioapic", "gsi", "routing", "ready", "failed"},
         pc' \in {"lapic", "ioapic"} => ioapic_count = 0, gsi_initialized' \in BOOLEAN
  PROVE  RoutesInv'
  <1>1. Shape'
    BY DEF RoutesInv, Shape, Instance, IoApicRecord
  <1>2. Counted'
    BY DEF RoutesInv, Counted, Probed
  <1> QED BY <1>1, <1>2 DEF RoutesInv

LEMMA LapicInv ==
  ASSUME RoutesInv, NEW a, NEW v, NEW e, lapic_init(a, v, e)
  PROVE  RoutesInv'
  <1>1. /\ pc = "lapic" /\ pc' \in {"ioapic", "failed"} /\ ioapic_count = 0 /\ ~gsi_initialized
        /\ UNCHANGED <<madt_io_apics, ioapic_instances, ioapic_count, gsi_initialized>>
    BY DEF lapic_init, Fail, firmware, RoutesInv, Counted, Accepted
  <1>2. Accepted'
    BY <1>1 DEF Accepted
  <1> QED BY <1>1, <1>2, SameIoapics DEF RoutesInv, Shape

LEMMA ResetInv ==
  ASSUME RoutesInv, ioapic_reset_state
  PROVE  RoutesInv'
  <1>1. /\ pc = "ioapic" /\ ioapic_count = 0 /\ ~gsi_initialized
        /\ UNCHANGED gsi_initialized /\ madt_io_apics' \in Seq(IoApicRecord)
    BY ListsAreSequences DEF ioapic_reset_state, RoutesInv, Counted, Accepted
  <1>2. CASE pc' = "failed" /\ UNCHANGED <<ioapic_instances, ioapic_count>>
    <2>1. Shape'
      BY <1>1, <1>2 DEF RoutesInv, Shape, Instance, IoApicRecord
    <2>2. Counted'
      BY <1>1, <1>2 DEF RoutesInv, Counted, Probed
    <2>3. Accepted'
      BY <1>1, <1>2 DEF Accepted
    <2> QED BY <2>1, <2>2, <2>3 DEF RoutesInv
  <1>3. CASE pc' = "probe" /\ ioapic_instances' = <<>> /\ ioapic_count' = 0
    <2>1. Shape'
      BY <1>1, <1>3 DEF RoutesInv, Shape, Instance, IoApicRecord
    <2>2. Counted'
      BY <1>3 DEF Counted, Probed
    <2>3. Accepted'
      BY <1>1, <1>3 DEF Accepted
    <2> QED BY <2>1, <2>2, <2>3 DEF RoutesInv
  <1> QED BY <1>2, <1>3 DEF ioapic_reset_state, Fail

LEMMA ProbeFailedInv ==
  ASSUME RoutesInv, NEW v, NEW m, ProbeFailed(v, m)
  PROVE  RoutesInv'
  <1>1. /\ pc = "probe" /\ pc' = "failed" /\ ioapic_count' = 0 /\ ~gsi_initialized
        /\ UNCHANGED <<madt_io_apics, ioapic_instances, gsi_initialized>>
    BY DEF ProbeFailed, Fail, firmware, RoutesInv, Accepted
  <1>2. Shape'
    BY <1>1 DEF RoutesInv, Shape, Instance, IoApicRecord
  <1>3. Counted'
    BY <1>1 DEF RoutesInv, Counted, Probed
  <1>4. Accepted'
    BY <1>1 DEF Accepted
  <1> QED BY <1>2, <1>3, <1>4 DEF RoutesInv

(* The IOAPIC that is added has an address none of the others has.         *)
LEMMA ProbeSucceedsInv ==
  ASSUME RoutesInv, NEW v, NEW m \in 0 .. IOAPIC_MAX_REDIR_INDEX + 1, ProbeSucceeds(v, m)
  PROVE  RoutesInv'
  <1> DEFINE entry == madt_io_apics[Probed + 1]
             new == [address |-> entry.address, gsi_base |-> entry.gsi_base, max |-> m]
  <1>1. /\ pc = "probe" /\ pc' = "probe" /\ Probed < Len(madt_io_apics) /\ ~gsi_initialized
        /\ ~ProbeFails(entry, v, m)
        /\ ioapic_instances' = Append(ioapic_instances, new)
        /\ ioapic_count' = ioapic_count + 1
        /\ UNCHANGED <<madt_io_apics, gsi_initialized>>
    BY DEF ProbeSucceeds, firmware, RoutesInv, Accepted
  <1>2. ioapic_instances \in Seq(Instance) /\ madt_io_apics \in Seq(IoApicRecord) /\ Probed \in Nat
    BY DEF RoutesInv, Shape, Probed
  <1>3. entry \in IoApicRecord
    BY <1>1, <1>2
  <1>4. new \in Instance
    <2>1. entry.address \in Pages /\ m <= IOAPIC_MAX_REDIR_INDEX /\ entry.gsi_base \in 0 .. UINT32_MAX
      BY <1>1, <1>3, Constants DEF ProbeFails, IoApicRecord
    <2> QED BY <2>1, Constants DEF Instance
  <1> HIDE DEF new
  <1>5. /\ ioapic_instances' \in Seq(Instance) /\ Probed' = Probed + 1
        /\ ioapic_instances'[Probed + 1] = new
        /\ \A i \in 1 .. Probed : ioapic_instances'[i] = ioapic_instances[i]
    BY <1>1, <1>2, <1>4 DEF Probed
  <1>6. \A i \in 1 .. Probed : ioapic_instances[i].address # new.address
    BY <1>1 DEF ProbeFails, new
  <1>7. \A i, j \in 1 .. Probed' : i # j => ioapic_instances'[i].address # ioapic_instances'[j].address
    <2> SUFFICES ASSUME NEW i \in 1 .. Probed + 1, NEW j \in 1 .. Probed + 1, i # j
                 PROVE  ioapic_instances'[i].address # ioapic_instances'[j].address
      BY <1>5
    <2>1. CASE i \in 1 .. Probed /\ j \in 1 .. Probed
      BY <1>5, <2>1 DEF RoutesInv, Counted
    <2>2. CASE i = Probed + 1 /\ j \in 1 .. Probed
      BY <1>5, <1>6, <2>2
    <2>3. CASE i \in 1 .. Probed /\ j = Probed + 1
      BY <1>5, <1>6, <2>3
    <2> QED BY <1>2, <2>1, <2>2, <2>3
  <1>8. Shape'
    BY <1>1, <1>5 DEF RoutesInv, Shape, Instance, IoApicRecord
  <1>9. Counted'
    BY Zenon, <1>1, <1>2, <1>5, <1>7 DEF RoutesInv, Counted
  <1>10. Accepted'
    BY <1>1 DEF Accepted
  <1> QED BY <1>8, <1>9, <1>10 DEF RoutesInv

LEMMA OverlapInv ==
  ASSUME RoutesInv, CheckOverlap
  PROVE  RoutesInv'
  <1>1. /\ pc = "probe" /\ ~gsi_initialized
        /\ UNCHANGED <<madt_io_apics, gsi_initialized>>
    BY DEF CheckOverlap, firmware, RoutesInv, Accepted
  <1>2. CASE Overlapping
    <2>1. pc' = "failed" /\ ioapic_instances' = <<>> /\ ioapic_count' = 0
      BY <1>2 DEF CheckOverlap, Fail
    <2>2. Shape'
      BY <1>1, <2>1 DEF RoutesInv, Shape, Instance, IoApicRecord
    <2>3. Counted'
      BY <2>1 DEF Counted, Probed
    <2>4. Accepted'
      BY <1>1, <2>1 DEF Accepted
    <2> QED BY <2>2, <2>3, <2>4 DEF RoutesInv
  <1>3. CASE ~Overlapping
    <2>1. pc' = "gsi" /\ UNCHANGED <<ioapic_instances, ioapic_count>>
      BY <1>3 DEF CheckOverlap
    <2>2. ~Overlapping'
      BY <1>3, <2>1 DEF Overlapping, Last
    <2>3. Accepted'
      BY <1>1, <2>1, <2>2 DEF Accepted
    <2> QED BY <1>1, <2>1, <2>3, SameIoapics DEF RoutesInv, Shape
  <1> QED BY <1>2, <1>3

(* The steps after the check leave the IOAPICs as they are.                *)
LEMMA RoutingInv ==
  ASSUME RoutesInv,
         \/ gsi_init
         \/ \E same \in BOOLEAN : irq_routing_configure_timer(same)
         \/ \E masked \in BOOLEAN : irq_routing_set_irq0_masked(masked)
  PROVE  RoutesInv'
  <1>1. UNCHANGED <<madt_io_apics, ioapic_instances, ioapic_count>>
    BY Zenon DEF gsi_init, irq_routing_configure_timer, irq_routing_set_irq0_masked, firmware
  <1>2. /\ pc \in {"gsi", "routing", "ready"} /\ pc' \in {"routing", "ready", "failed"}
        /\ gsi_initialized' = TRUE
    BY Zenon DEF gsi_init, irq_routing_configure_timer, irq_routing_set_irq0_masked, Fail, RoutesInv, Shape, Accepted
  <1>3. ~Overlapping'
    BY <1>1, <1>2 DEF Overlapping, Last, RoutesInv, Accepted
  <1>4. Accepted'
    BY <1>2, <1>3 DEF Accepted
  <1> QED BY <1>1, <1>2, <1>4, SameIoapics

(* A step preserves the invariant.                                         *)
LEMMA RoutesStepInv == ASSUME RoutesInv, [Next]_vars PROVE RoutesInv'
  <1>1. CASE UNCHANGED vars
    <2>1. Shape' /\ Counted'
      BY <1>1 DEF vars, RoutesInv, Shape, Counted, Probed, Instance, IoApicRecord
    <2>2. Accepted'
      BY <1>1 DEF vars, RoutesInv, Accepted, Overlapping, Last
    <2> QED BY <2>1, <2>2 DEF RoutesInv
  <1>2. CASE Next
    BY <1>2, LapicInv, ResetInv, ProbeFailedInv, ProbeSucceedsInv, OverlapInv, RoutingInv DEF Next
  <1> QED BY <1>1, <1>2

-----------------------------------------------------------------------------
(* Without overlap a GSI lies in the range of one IOAPIC at most.          *)
LEMMA OneOwner ==
  ASSUME RoutesInv, ~Overlapping, NEW g \in 0 .. UINT32_MAX,
         NEW i \in 1 .. ioapic_count, NEW j \in 1 .. ioapic_count,
         ioapic_gsi_in_range(i, g), ioapic_gsi_in_range(j, g)
  PROVE  i = j
  <1>1. i \in 1 .. Probed /\ j \in 1 .. Probed /\ ioapic_instances \in Seq(Instance)
    BY DEF RoutesInv, Counted, Shape
  <1>2. /\ ioapic_instances[i].gsi_base \in Nat /\ ioapic_instances[i].max \in Nat
        /\ ioapic_instances[j].gsi_base \in Nat /\ ioapic_instances[j].max \in Nat
    BY <1>1, InstanceFields
  <1>3. /\ ioapic_instances[i].gsi_base <= Last(ioapic_instances[j])
        /\ ioapic_instances[j].gsi_base <= Last(ioapic_instances[i])
    BY <1>2, Constants DEF ioapic_gsi_in_range, Last
  <1>4. ~(i < j) /\ ~(j < i)
    BY <1>3 DEF Overlapping
  <1> QED BY <1>4

(* The invariant gives unambiguous ownership.                              *)
LEMMA InvUnambiguous == ASSUME RoutesInv PROVE GsiOwnershipIsUnambiguous
  <1> SUFFICES ASSUME pc \in {"gsi", "routing", "ready"},
                      NEW i \in 1 .. ioapic_count, NEW j \in 1 .. ioapic_count, i # j
               PROVE  /\ ioapic_instances[i].address # ioapic_instances[j].address
                      /\ \A g \in 0 .. UINT32_MAX : ~(ioapic_gsi_in_range(i, g) /\ ioapic_gsi_in_range(j, g))
    BY DEF GsiOwnershipIsUnambiguous
  <1>1. ~Overlapping
    BY DEF RoutesInv, Accepted
  <1>2. i \in 1 .. Probed /\ j \in 1 .. Probed
    BY DEF RoutesInv, Counted
  <1>3. ioapic_instances[i].address # ioapic_instances[j].address
    BY <1>2 DEF RoutesInv, Counted
  <1> QED BY <1>1, <1>3, OneOwner

(* The invariant makes resolution the inverse of ownership: the set the    *)
(* search runs through has one member at most, so the first is the owner.  *)
LEMMA InvResolution == ASSUME RoutesInv PROVE ResolutionIsOwnership
  <1> SUFFICES ASSUME gsi_initialized, NEW g \in 0 .. UINT32_MAX
               PROVE  LET r == gsi_resolve_gsi(g)
                      IN  /\ r.found <=> \E i \in 1 .. ioapic_count, x \in 0 .. IOAPIC_MAX_REDIR_INDEX :
                                            x <= ioapic_instances[i].max /\ g = ioapic_instances[i].gsi_base + x
                          /\ r.found => /\ ioapic_instances[r.ioapic].gsi_base + r.index = g
                                        /\ r.index <= ioapic_instances[r.ioapic].max
    BY DEF ResolutionIsOwnership
  <1> DEFINE owners == {i \in 1 .. ioapic_count : ioapic_gsi_in_range(i, g)}
             r == gsi_resolve_gsi(g)
  <1>1. ~Overlapping /\ ioapic_instances \in Seq(Instance) /\ g \in Nat
    BY Constants DEF RoutesInv, Accepted, Shape
  <1>2. \A i \in 1 .. ioapic_count :
          /\ ioapic_instances[i].gsi_base \in Nat /\ ioapic_instances[i].max \in Nat
          /\ ioapic_instances[i].max <= IOAPIC_MAX_REDIR_INDEX
    BY <1>1, InstanceFields DEF RoutesInv, Counted
  <1>3. CASE owners = {}
    <2>1. r = NoRoute
      BY <1>3 DEF gsi_resolve_gsi
    <2>2. ~r.found
      BY <2>1 DEF NoRoute
    <2>3. ASSUME NEW i \in 1 .. ioapic_count, NEW x \in 0 .. IOAPIC_MAX_REDIR_INDEX,
                 x <= ioapic_instances[i].max, g = ioapic_instances[i].gsi_base + x
          PROVE  FALSE
      <3>1. ioapic_gsi_in_range(i, g)
        BY <1>2, <2>3, Constants DEF ioapic_gsi_in_range, Last
      <3> QED BY <1>3, <3>1
    <2> QED BY <2>2, <2>3
  <1>4. CASE owners # {}
    <2>1. PICK o \in owners : TRUE
      BY <1>4
    <2>2. o \in 1 .. ioapic_count /\ ioapic_gsi_in_range(o, g)
      BY <2>1
    <2>3. \A i \in owners : i = o
      BY <1>1, <2>2, OneOwner
    <2>4. owners = {o} /\ o \in Int
      BY <2>1, <2>2, <2>3
    <2>5. First(owners) = o
      BY <2>4 DEF First
    <2>6. r = [found |-> TRUE, ioapic |-> o, index |-> g - ioapic_instances[o].gsi_base]
      BY Zenon, <1>4, <2>5 DEF gsi_resolve_gsi
    <2>7. /\ ioapic_instances[o].gsi_base + (g - ioapic_instances[o].gsi_base) = g
          /\ g - ioapic_instances[o].gsi_base <= ioapic_instances[o].max
          /\ g - ioapic_instances[o].gsi_base \in 0 .. IOAPIC_MAX_REDIR_INDEX
      BY SMTT(30), <1>1, <1>2, <2>2, Constants DEF ioapic_gsi_in_range, Last
    <2>8. r.found /\ r.ioapic = o /\ r.index = g - ioapic_instances[o].gsi_base
      BY <2>6
    <2>9. \E i \in 1 .. ioapic_count, x \in 0 .. IOAPIC_MAX_REDIR_INDEX :
             x <= ioapic_instances[i].max /\ g = ioapic_instances[i].gsi_base + x
      BY <2>2, <2>7
    <2> QED BY <2>7, <2>8, <2>9
  <1> QED BY <1>3, <1>4

(* Ambiguous ownership never reaches the routing layer.                    *)
THEOREM OwnershipIsUnambiguous == Spec => []GsiOwnershipIsUnambiguous
  BY RoutesInitInv, RoutesStepInv, InvUnambiguous, PTL DEF Spec

(* A GSI resolves if and only if some IOAPIC has an entry for it, and to   *)
(* that entry.                                                             *)
THEOREM ResolutionIsExact == Spec => []ResolutionIsOwnership
  BY RoutesInitInv, RoutesStepInv, InvResolution, PTL DEF Spec

(* A bring-up that fails before routing leaves no IOAPIC.                  *)
THEOREM FailureLeavesNoIoapic == Spec => []FailedBringUpHasNoIoapic
  <1>1. RoutesInv => FailedBringUpHasNoIoapic
    BY DEF RoutesInv, Accepted, FailedBringUpHasNoIoapic
  <1> QED BY <1>1, RoutesInitInv, RoutesStepInv, PTL DEF Spec

-----------------------------------------------------------------------------
(* The entry of the timer.                                                 *)

(* The list of overrides is a sequence of records, nothing is programmed   *)
(* before the routing, and after it one entry, the one IRQ 0 resolves to.  *)
Programmed ==
  /\ madt_isos \in Seq(IsoRecord)
  /\ pc \in {"lapic", "ioapic", "probe", "gsi", "routing"} => redirection = <<>>
  /\ pc = "ready" =>
       LET route == gsi_resolve_irq(0)
       IN  /\ route.found
           /\ DOMAIN redirection = {<<route.ioapic, route.index>>}
           /\ \E m : redirection[<<route.ioapic, route.index>>] =
                       [vector |-> 32, polarity |-> route.polarity, trigger |-> route.trigger, masked |-> m]

LEMMA OverridesAreSequences == IsoLists \subseteq Seq(IsoRecord)
  <1> SUFFICES ASSUME NEW n \in 0 .. MaxIsos, NEW records \in [1 .. n -> IsoRecord]
               PROVE  records \in Seq(IsoRecord)
    BY DEF IsoLists
  <1>1. n \in Nat
    BY RoutesAssumption
  <1> QED BY <1>1

LEMMA InitProgrammed == Init => Programmed
  BY SMTT(30) DEF Init, Programmed

(* The resolution depends on the overrides and the IOAPICs only.           *)
LEMMA RouteIsFixed ==
  ASSUME UNCHANGED <<madt_isos, ioapic_instances, ioapic_count, gsi_initialized>>
  PROVE  gsi_resolve_irq(0)' = gsi_resolve_irq(0)
  BY Zenon DEF gsi_resolve_irq, gsi_resolve_gsi, gsi_find_iso, Overrides, ioapic_gsi_in_range, Last

(* Writing one entry twice leaves one entry.                               *)
LEMMA StepProgrammed == ASSUME Programmed, RoutesInv, [Next]_vars PROVE Programmed'
  <1> DEFINE route == gsi_resolve_irq(0)
             slot == <<route.ioapic, route.index>>
  <1>1. CASE UNCHANGED vars
    <2>1. gsi_resolve_irq(0)' = gsi_resolve_irq(0)
      BY <1>1, RouteIsFixed DEF vars
    <2> QED BY Zenon, <1>1, <2>1 DEF Programmed, vars, IsoRecord
  <1>2. ASSUME NEW a, NEW v, NEW e, lapic_init(a, v, e) PROVE Programmed'
    BY <1>2 DEF lapic_init, Fail, firmware, Programmed, IsoRecord
  <1>3. CASE ioapic_reset_state
    BY <1>3 DEF ioapic_reset_state, Fail, Programmed, IsoRecord
  <1>4. ASSUME NEW v, NEW m, ProbeFailed(v, m) \/ ProbeSucceeds(v, m) PROVE Programmed'
    BY <1>4 DEF ProbeFailed, ProbeSucceeds, Fail, firmware, Programmed, IsoRecord
  <1>5. CASE CheckOverlap
    BY <1>5 DEF CheckOverlap, Fail, firmware, Programmed, IsoRecord
  <1>6. CASE gsi_init
    <2>1. madt_isos' \in Seq(IsoRecord)
      BY <1>6, OverridesAreSequences DEF gsi_init
    <2> QED BY <1>6, <2>1 DEF gsi_init, Programmed, IsoRecord
  <1>7. ASSUME NEW same \in BOOLEAN, irq_routing_configure_timer(same) PROVE Programmed'
    <2>1. /\ pc = "routing" /\ pc' \in {"ready", "failed"} /\ redirection = <<>>
          /\ UNCHANGED <<madt_isos, ioapic_instances, ioapic_count, gsi_initialized>>
      BY <1>7 DEF irq_routing_configure_timer, Fail, firmware, Programmed
    <2>2. gsi_resolve_irq(0)' = route
      BY <2>1, RouteIsFixed
    <2> DEFINE entry == [vector |-> 32, polarity |-> route.polarity, trigger |-> route.trigger, masked |-> TRUE]
    <2>3. pc' = "ready" =>
            /\ route.found
            /\ redirection' = [p \in DOMAIN redirection \union {slot} |->
                                 IF p = slot THEN entry ELSE redirection[p]]
      BY <1>7 DEF irq_routing_configure_timer, Fail, ioapic_write_redirection_at
    <2>4. DOMAIN redirection = {}
      BY <2>1
    <2> HIDE DEF slot, entry
    <2>5. pc' = "ready" => route.found /\ DOMAIN redirection' = {slot} /\ redirection'[slot] = entry
      BY <2>3, <2>4
    <2> HIDE DEF route
    <2> QED BY Zenon, <2>1, <2>2, <2>5 DEF Programmed, IsoRecord, slot, entry
  <1>8. ASSUME NEW masked \in BOOLEAN, irq_routing_set_irq0_masked(masked) PROVE Programmed'
    <2>1. /\ pc = "ready" /\ pc' = "ready"
          /\ UNCHANGED <<madt_isos, ioapic_instances, ioapic_count, gsi_initialized>>
      BY <1>8 DEF irq_routing_set_irq0_masked, firmware
    <2>2. gsi_resolve_irq(0)' = route
      BY <2>1, RouteIsFixed
    <2>3. /\ route.found
          /\ redirection' = [p \in DOMAIN redirection \union {slot} |->
                               IF p = slot THEN [redirection[slot] EXCEPT !.masked = masked] ELSE redirection[p]]
      BY <1>8 DEF irq_routing_set_irq0_masked, ioapic_write_redirection_at
    <2>4. PICK m : /\ DOMAIN redirection = {slot}
                   /\ redirection[slot] = [vector |-> 32, polarity |-> route.polarity,
                                           trigger |-> route.trigger, masked |-> m]
      BY Zenon, <2>1 DEF Programmed
    <2> HIDE DEF slot, route
    <2>5. DOMAIN redirection' = {slot} /\ redirection'[slot] = [redirection[slot] EXCEPT !.masked = masked]
      BY <2>3, <2>4
    <2>6. redirection'[slot] = [vector |-> 32, polarity |-> route.polarity,
                                trigger |-> route.trigger, masked |-> masked]
      BY <2>4, <2>5
    <2> QED BY Zenon, <2>1, <2>2, <2>3, <2>5, <2>6 DEF Programmed, IsoRecord, slot
  <1> QED BY <1>1, <1>2, <1>3, <1>4, <1>5, <1>6, <1>7, <1>8 DEF Next

(* A GSI that resolves does so to an IOAPIC entry that exists.             *)
LEMMA ResolvedPlace ==
  ASSUME RoutesInv, gsi_initialized, NEW g \in 0 .. UINT32_MAX, gsi_resolve_gsi(g).found
  PROVE  LET r == gsi_resolve_gsi(g)
         IN  /\ r.ioapic \in 1 .. ioapic_count /\ r.index \in 0 .. IOAPIC_MAX_REDIR_INDEX
             /\ r.index <= ioapic_instances[r.ioapic].max
             /\ g = ioapic_instances[r.ioapic].gsi_base + r.index
  <1> DEFINE r == gsi_resolve_gsi(g)
             owners == {i \in 1 .. ioapic_count : ioapic_gsi_in_range(i, g)}
  <1>1. owners # {} /\ r = [found |-> TRUE, ioapic |-> First(owners),
                            index |-> g - ioapic_instances[First(owners)].gsi_base]
    BY DEF gsi_resolve_gsi, NoRoute
  <1>2. ~Overlapping /\ ioapic_instances \in Seq(Instance)
    BY DEF RoutesInv, Accepted, Shape
  <1>3. PICK o \in owners : TRUE
    BY <1>1
  <1>4. o \in 1 .. ioapic_count /\ ioapic_gsi_in_range(o, g) /\ o \in Int
    BY <1>3
  <1>5. \A i \in owners : i = o
    BY <1>2, <1>4, OneOwner
  <1>6. First(owners) = o
    <2>1. owners = {o}
      BY <1>3, <1>5
    <2> HIDE DEF owners
    <2> QED BY <1>4, <2>1 DEF First
  <1>7. /\ ioapic_instances[o].gsi_base \in Nat /\ ioapic_instances[o].max \in Nat
        /\ ioapic_instances[o].max <= IOAPIC_MAX_REDIR_INDEX
    BY <1>2, <1>4, InstanceFields DEF RoutesInv, Counted
  <1>8. r.ioapic = o /\ r.index = g - ioapic_instances[o].gsi_base
    BY <1>1, <1>6
  <1>9. /\ g - ioapic_instances[o].gsi_base \in 0 .. IOAPIC_MAX_REDIR_INDEX
        /\ g - ioapic_instances[o].gsi_base <= ioapic_instances[o].max
        /\ g = ioapic_instances[o].gsi_base + (g - ioapic_instances[o].gsi_base)
    BY <1>4, <1>7, Constants DEF ioapic_gsi_in_range, Last
  <1> HIDE DEF r
  <1>10. /\ r.ioapic \in 1 .. ioapic_count /\ r.index \in 0 .. IOAPIC_MAX_REDIR_INDEX
         /\ r.index <= ioapic_instances[r.ioapic].max
         /\ g = ioapic_instances[r.ioapic].gsi_base + r.index
    BY <1>4, <1>8, <1>9
  <1> QED BY <1>10 DEF r

LEMMA InvTimerEntry == ASSUME RoutesInv, Programmed PROVE TimerEntryIsTheRoute
  <1> SUFFICES ASSUME pc = "ready" PROVE TimerEntryIsTheRoute
    BY Zenon DEF TimerEntryIsTheRoute
  <1> DEFINE route == gsi_resolve_irq(0)
             isos == {k \in 1 .. Len(madt_isos) : madt_isos[k].bus = 0 /\ madt_isos[k].source = 0}
             Right(gsi, polarity, trigger) ==
               \E i \in 1 .. ioapic_count, x \in 0 .. IOAPIC_MAX_REDIR_INDEX :
                 /\ x <= ioapic_instances[i].max /\ gsi = ioapic_instances[i].gsi_base + x
                 /\ DOMAIN redirection = {<<i, x>>}
                 /\ redirection[<<i, x>>].vector = 32
                 /\ redirection[<<i, x>>].polarity = polarity
                 /\ redirection[<<i, x>>].trigger = trigger
  <1>1. PICK m : /\ route.found
                 /\ DOMAIN redirection = {<<route.ioapic, route.index>>}
                 /\ redirection[<<route.ioapic, route.index>>] =
                       [vector |-> 32, polarity |-> route.polarity, trigger |-> route.trigger, masked |-> m]
    BY Zenon DEF Programmed
  <1>2. gsi_initialized
    BY DEF RoutesInv, Accepted
  <1>3. isos = Overrides(0)
    BY DEF Overrides
  <1>4. ASSUME NEW g \in 0 .. UINT32_MAX, NEW p, NEW t,
               route = [found |-> TRUE, gsi |-> g, ioapic |-> gsi_resolve_gsi(g).ioapic,
                        index |-> gsi_resolve_gsi(g).index, polarity |-> p, trigger |-> t],
               gsi_resolve_gsi(g).found
        PROVE  Right(g, p, t)
    <2>1. /\ route.ioapic = gsi_resolve_gsi(g).ioapic /\ route.index = gsi_resolve_gsi(g).index
          /\ route.polarity = p /\ route.trigger = t
      BY <1>4
    <2> HIDE DEF route
    <2>2. /\ route.ioapic \in 1 .. ioapic_count /\ route.index \in 0 .. IOAPIC_MAX_REDIR_INDEX
          /\ route.index <= ioapic_instances[route.ioapic].max
          /\ g = ioapic_instances[route.ioapic].gsi_base + route.index
      BY <1>2, <1>4, <2>1, ResolvedPlace
    <2>3. /\ redirection[<<route.ioapic, route.index>>].vector = 32
          /\ redirection[<<route.ioapic, route.index>>].polarity = p
          /\ redirection[<<route.ioapic, route.index>>].trigger = t
      BY <1>1, <2>1
    <2> QED BY <1>1, <2>2, <2>3
  <1>5. CASE isos = {}
    <2>1. /\ gsi_resolve_gsi(0).found
          /\ route = [found |-> TRUE, gsi |-> 0, ioapic |-> gsi_resolve_gsi(0).ioapic,
                      index |-> gsi_resolve_gsi(0).index, polarity |-> "HIGH", trigger |-> "EDGE"]
      BY Zenon, <1>1, <1>3, <1>5 DEF gsi_resolve_irq, NoRoute
    <2>2. 0 \in 0 .. UINT32_MAX
      BY Constants
    <2> HIDE DEF Right, route
    <2>3. Right(0, "HIGH", "EDGE")
      BY <1>4, <2>1, <2>2
    <2> QED BY SMTT(30), <1>5, <2>3 DEF TimerEntryIsTheRoute, Right
  <1>6. CASE isos # {}
    <2> SUFFICES ASSUME NEW k \in isos, \A j \in isos : k <= j
                 PROVE  Right(madt_isos[k].gsi,
                              IF madt_isos[k].flags.polarity = 3 THEN "LOW" ELSE "HIGH",
                              IF madt_isos[k].flags.trigger = 3 THEN "LEVEL" ELSE "EDGE")
      BY Zenon, <1>6 DEF TimerEntryIsTheRoute
    <2> DEFINE iso == madt_isos[k]
    <2>1. gsi_find_iso(0) = iso
      <3>1. isos \subseteq Int
        OBVIOUS
      <3>2. First(isos) = k
        <4>1. ASSUME NEW i \in isos, \A j \in isos : i <= j PROVE i = k
          <5>1. i <= k /\ k <= i /\ i \in Int /\ k \in Int
            BY <3>1, <4>1
          <5> QED BY <5>1
        <4>2. \E i \in isos : \A j \in isos : i <= j
          OBVIOUS
        <4> HIDE DEF isos
        <4> QED BY <4>1, <4>2, Zenon DEF First
      <3> QED BY Zenon, <1>3, <3>2 DEF gsi_find_iso
    <2>2. iso.gsi \in 0 .. UINT32_MAX
      <3>1. iso \in IsoRecord
        BY DEF Programmed
      <3>2. IsoRecord = [bus : {0, 1}, source : Irqs, gsi : IsoGsis, flags : IsoFlags]
        BY DEF IsoRecord
      <3> HIDE DEF iso
      <3>3. iso.gsi \in IsoGsis
        BY <3>1, <3>2
      <3> QED BY <3>3, RoutesAssumption, Zenon
    <2> HIDE DEF iso
    <2>3. /\ gsi_resolve_gsi(iso.gsi).found
          /\ route = [found |-> TRUE, gsi |-> iso.gsi, ioapic |-> gsi_resolve_gsi(iso.gsi).ioapic,
                      index |-> gsi_resolve_gsi(iso.gsi).index,
                      polarity |-> gsi_decode_polarity(iso.flags), trigger |-> gsi_decode_trigger(iso.flags)]
      BY Zenon, <1>1, <1>3, <1>6, <2>1 DEF gsi_resolve_irq, NoRoute
    <2> HIDE DEF Right, route
    <2>4. Right(iso.gsi, gsi_decode_polarity(iso.flags), gsi_decode_trigger(iso.flags))
      BY Zenon, <1>4, <2>2, <2>3
    <2> QED BY <2>4 DEF gsi_decode_polarity, gsi_decode_trigger, iso
  <1> QED BY SMTT(30), <1>5, <1>6

(* One redirection entry is ever programmed, and it is the one the MADT    *)
(* asks for, with the polarity and the trigger mode it asks for.           *)
THEOREM TimerRouting == Spec => []TimerEntryIsTheRoute
  BY RoutesInitInv, RoutesStepInv, InitProgrammed, StepProgrammed, InvTimerEntry, PTL DEF Spec

-----------------------------------------------------------------------------
(* Every step of platform_init is a step of discovery or one of routing,   *)
(* so platform_init implements both.                                       *)
THEOREM PlatformIsBoth == PlatformSpec => AcpiSpec /\ Spec
  <1>1. PlatformInit => AcpiInit /\ Init
    BY DEF PlatformInit
  <1>2. [platform_init]_<<acpiVars, vars>> => [AcpiNext]_acpiVars /\ [Next]_vars
    BY DEF platform_init
  <1> QED BY <1>1, <1>2, PTL DEF PlatformSpec, AcpiSpec, Spec

(* So all the properties hold of platform_init as a whole.                 *)
THEOREM PlatformBringUp ==
  PlatformSpec => [](/\ ReadsStayInTheTable /\ ParsedIsTheTable /\ TheLastValidMadtIsParsed
                     /\ GsiOwnershipIsUnambiguous /\ ResolutionIsOwnership
                     /\ FailedBringUpHasNoIoapic /\ TimerEntryIsTheRoute)
  BY PlatformIsBoth, ReadsAreBounded, ParseIsComplete, LastMadtWins, OwnershipIsUnambiguous,
     ResolutionIsExact, FailureLeavesNoIoapic, TimerRouting, PTL
=============================================================================
