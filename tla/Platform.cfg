SPECIFICATION PlatformSpec
CONSTANTS
  SdtHeader = 1
  MadtHeader = 2
  EntryHeader = 1
  LocalApic = 2
  IoApic = 2
  Iso = 2
  MaxRecords = 2
  UINT32 = 4
  MaxRootEntries = 2
  MaxTable = 8
  MaxEntry = 3
  p1 = p1
  p2 = p2
  Pages = {p1, p2}
  ZERO = ZERO
  UNALIGNED = UNALIGNED
  IOAPIC_MAX_INSTANCES = 2
  IOAPIC_MAX_REDIR_INDEX = 1
  UINT32_MAX = 3
  Irqs = {0, 1}
  IsoGsis = {0, 2}
  IsoFlags <- MCFlags
  MaxIsos = 2
INVARIANTS
  ReadsStayInTheTable
  ParsedIsTheTable
  GsiOwnershipIsUnambiguous
  TimerEntryIsTheRoute
CHECK_DEADLOCK FALSE
