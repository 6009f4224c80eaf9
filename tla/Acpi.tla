-------------------------------- MODULE Acpi --------------------------------
(***************************************************************************)
(* Discovery of the interrupt controllers from the ACPI tables             *)
(* (acpi/acpi.c): the RSDP, the walk of the root table, and the walk of    *)
(* the MADT.                                                               *)
(*                                                                         *)
(* The tables are firmware data: anything.  The code reads each entry once *)
(* and moves only forward, so an entry is chosen when it is read.  Sizes   *)
(* are those of the packed structures, scaled down by the constants.       *)
(***************************************************************************)
EXTENDS Integers

CONSTANTS SdtHeader, MadtHeader, EntryHeader,  \* sizeof the three headers
          LocalApic, IoApic, Iso,              \* sizeof the three entries
          MaxRecords,                          \* ACPI_MAX_MADT_*
          UINT32,                              \* 2^32, where madt_unknown_entry_count wraps
          MaxRootEntries,                      \* bound: entries of a root table
          MaxTable,                            \* bound: length field of a MADT
          MaxEntry                             \* bound: length field of an entry

ASSUME LayoutAssumption ==
  /\ {SdtHeader, MadtHeader, EntryHeader, LocalApic, IoApic, Iso, MaxRecords, UINT32} \subseteq Nat \ {0}
  /\ {MaxRootEntries, MaxTable, MaxEntry} \subseteq Nat
  /\ SdtHeader < MadtHeader
  /\ EntryHeader < LocalApic /\ EntryHeader < IoApic /\ EntryHeader < Iso

VARIABLES acpi_pc, result,
          root_table_is_xsdt, root_left,   \* the root table and its entries still to be read
          root_table_count,
          madt_address,                    \* 0, or the number of the entry that named the table
          madt_length,                     \* the table at madt_address
          entry_physical,                  \* offset of the next MADT entry
          madt,                            \* [local, io, iso, unknown |-> count]
          valid,                           \* history: MADTs that passed validation
          seen,                            \* history: entries taken of each type (% UINT32)
          covered,                         \* history: sum of the lengths of the entries taken
          touched                          \* history: end of the furthest byte read in the MADT

root == <<root_table_is_xsdt, root_left, root_table_count>>
acpiVars == <<acpi_pc, result, root, madt_address, madt_length, entry_physical, madt, valid, seen, covered, touched>>

NoRecords == [local |-> 0, io |-> 0, iso |-> 0, unknown |-> 0]

AcpiInit ==
  /\ acpi_pc = "rsdp" /\ result = 0
  /\ root_table_is_xsdt = FALSE /\ root_left = 0 /\ root_table_count = 0
  /\ madt_address = 0 /\ madt_length = 0 /\ entry_physical = 0
  /\ madt = NoRecords /\ valid = {} /\ seen = NoRecords /\ covered = 0 /\ touched = 0

Return(r) == acpi_pc' = "done" /\ result' = r

-----------------------------------------------------------------------------
(* acpi_init up to the root table.  `rsdp' says what the pointer structure *)
(* of the firmware is like.                                                *)
Rsdp == [present : BOOLEAN, sound : BOOLEAN, revision2 : BOOLEAN, extended_sound : BOOLEAN,
         xsdt : BOOLEAN, rsdt : BOOLEAN]

FindRoot(rsdp) ==
  LET extended == rsdp.revision2 /\ rsdp.xsdt
  IN  /\ acpi_pc = "rsdp"
      /\ CASE ~rsdp.present -> Return(-1) /\ UNCHANGED root_table_is_xsdt
           [] rsdp.present /\ ~rsdp.sound -> Return(-4) /\ UNCHANGED root_table_is_xsdt
           [] rsdp.present /\ rsdp.sound /\ rsdp.revision2 /\ ~rsdp.extended_sound ->
                Return(-6) /\ UNCHANGED root_table_is_xsdt
           [] OTHER -> IF extended \/ rsdp.rsdt
                         THEN acpi_pc' = "root" /\ root_table_is_xsdt' = extended /\ UNCHANGED result
                         ELSE Return(-8) /\ UNCHANGED root_table_is_xsdt
      /\ UNCHANGED <<root_left, root_table_count, madt_address, madt_length, entry_physical, madt, valid, seen, covered, touched>>

(* acpi_enumerate_xsdt and acpi_enumerate_rsdt up to their loop: the root  *)
(* table is valid and its payload a whole number of entries, or the call   *)
(* fails.                                                                  *)
OpenRoot(sound, entries, error) ==
  /\ acpi_pc = "root"
  /\ IF sound
       THEN acpi_pc' = "enumerate" /\ root_left' = entries /\ UNCHANGED result
       ELSE Return(error) /\ UNCHANGED root_left
  /\ UNCHANGED <<root_table_is_xsdt, root_table_count, madt_address, madt_length, entry_physical, madt, valid, seen, covered, touched>>

acpi_enumerate_xsdt(sound, entries) == root_table_is_xsdt /\ OpenRoot(sound, entries, -7)
acpi_enumerate_rsdt(sound, entries) == ~root_table_is_xsdt /\ OpenRoot(sound, entries, -9)

acpi_validate_sdt(intact, length) == intact /\ length >= SdtHeader

(* One entry of the root table: a null entry or an invalid table is       *)
(* skipped; the last valid MADT is remembered.                             *)
acpi_inspect_table(present, intact, is_madt, length) ==
  /\ acpi_pc = "enumerate" /\ root_left > 0
  /\ root_left' = root_left - 1
  /\ LET ok == present /\ acpi_validate_sdt(intact, length)
     IN  /\ root_table_count' = IF ok THEN root_table_count + 1 ELSE root_table_count
         /\ madt_address' = IF ok /\ is_madt THEN root_left ELSE madt_address
         /\ madt_length' = IF ok /\ is_madt THEN length ELSE madt_length
  /\ valid' = IF present /\ intact /\ length >= SdtHeader /\ is_madt THEN valid \union {root_left} ELSE valid
  /\ UNCHANGED <<acpi_pc, result, root_table_is_xsdt, entry_physical, madt, seen, covered, touched>>

(* The walk of the root table is over; without a MADT the call succeeds.   *)
RootDone ==
  /\ acpi_pc = "enumerate" /\ root_left = 0
  /\ IF madt_address = 0 THEN Return(0) ELSE acpi_pc' = "madt" /\ UNCHANGED result
  /\ UNCHANGED <<root, madt_address, madt_length, entry_physical, madt, valid, seen, covered, touched>>

-----------------------------------------------------------------------------
(* acpi_parse_madt.  Its error codes are all reported as -19.              *)

OpenMadt ==
  /\ acpi_pc = "madt"
  /\ IF madt_length < MadtHeader
       THEN Return(-19) /\ UNCHANGED <<entry_physical, madt>>
       ELSE /\ acpi_pc' = "entries"
            /\ entry_physical' = MadtHeader
            /\ madt' = NoRecords
            /\ UNCHANGED result
  /\ touched' = MadtHeader
  /\ UNCHANGED <<root, madt_address, madt_length, valid, seen, covered>>

HeaderFits == entry_physical <= madt_length - EntryHeader

Size(type) == CASE type = "local" -> LocalApic [] type = "io" -> IoApic [] type = "iso" -> Iso [] OTHER -> EntryHeader

EntryAccepted_NoStructureSize(type, length) ==
  /\ length >= EntryHeader
  /\ length <= madt_length - entry_physical
  /\ type # "unknown" => madt[type] < MaxRecords
EntryAccepted(type, length) ==
  /\ length >= EntryHeader
  /\ length <= madt_length - entry_physical
  /\ type # "unknown" => length >= Size(type) /\ madt[type] < MaxRecords

(* The end of what is read of an entry: its structure if it is of a known  *)
(* type and accepted, its header otherwise.                                *)
ReadUpTo(type, length) ==
  entry_physical + IF EntryAccepted(type, length) THEN Size(type) ELSE EntryHeader

Further(n) == IF n > touched THEN n ELSE touched

Another(records, type) == [records EXCEPT ![type] = (@ + 1) % UINT32]

TakeEntry_UnknownNotSkipped(type, length) ==
  /\ seen' = Another(seen, type)
  /\ covered' = covered + length
  /\ madt' = Another(madt, type)
  /\ entry_physical' = entry_physical + Size(type)
  /\ UNCHANGED <<acpi_pc, result>>
TakeEntry(type, length) ==
  /\ seen' = Another(seen, type)
  /\ covered' = covered + length
  /\ madt' = Another(madt, type)
  /\ entry_physical' = entry_physical + length
  /\ UNCHANGED <<acpi_pc, result>>

acpi_parse_madt(type, length) ==
  /\ acpi_pc = "entries" /\ entry_physical < madt_length
  /\ IF ~HeaderFits
       THEN Return(-19) /\ UNCHANGED <<seen, covered, madt, entry_physical, touched>>
       ELSE /\ touched' = Further(ReadUpTo(type, length))
            /\ IF EntryAccepted(type, length)
                 THEN TakeEntry(type, length)
                 ELSE Return(-19) /\ UNCHANGED <<seen, covered, madt, entry_physical>>
  /\ UNCHANGED <<root, madt_address, madt_length, valid>>

MadtDone ==
  /\ acpi_pc = "entries" /\ entry_physical >= madt_length
  /\ Return(IF entry_physical = madt_length THEN 0 ELSE -19)
  /\ UNCHANGED <<root, madt_address, madt_length, entry_physical, madt, valid, seen, covered, touched>>

-----------------------------------------------------------------------------
AcpiNext ==
  \/ \E rsdp \in Rsdp : FindRoot(rsdp)
  \/ \E sound \in BOOLEAN, n \in 0 .. MaxRootEntries : acpi_enumerate_xsdt(sound, n) \/ acpi_enumerate_rsdt(sound, n)
  \/ \E present, intact, is_madt \in BOOLEAN, n \in 0 .. MaxTable : acpi_inspect_table(present, intact, is_madt, n)
  \/ RootDone \/ OpenMadt
  \/ \E type \in {"local", "io", "iso", "unknown"}, n \in 0 .. MaxEntry : acpi_parse_madt(type, n)
  \/ MadtDone

AcpiSpec == AcpiInit /\ [][AcpiNext]_acpiVars

-----------------------------------------------------------------------------
(* Properties.                                                             *)

(* Whatever the lengths in the table say, nothing past its end is read     *)
(* once the table has room for its own header (acpi.c:333, :364).          *)
ReadsStayInTheTable == acpi_pc \in {"entries", "done"} /\ madt_length >= MadtHeader => touched <= madt_length

(* A successful parse has taken entries that tile the table from the end   *)
(* of its header to its end, and has one record for every entry.           *)
ParsedIsTheTable ==
  acpi_pc = "done" /\ result = 0 /\ madt_address # 0 =>
    /\ MadtHeader + covered = madt_length
    /\ madt = seen
    /\ \A type \in {"local", "io", "iso"} : madt[type] <= MaxRecords

(* What is parsed is the last MADT in the root table that passed the       *)
(* checks on its header and its checksum, if there is one (acpi.c:529).    *)
TheLastValidMadtIsParsed ==
  acpi_pc \in {"madt", "entries", "done"} =>
    IF valid = {} THEN madt_address = 0
                  ELSE madt_address \in valid /\ \A t \in valid : madt_address <= t

=============================================================================
