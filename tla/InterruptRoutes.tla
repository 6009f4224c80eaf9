--------------------------- MODULE InterruptRoutes ---------------------------
(***************************************************************************)
(* From the MADT to the redirection entry of IRQ 0: lapic_init             *)
(* (apic/lapic.c), ioapic_init and the redirection registers               *)
(* (apic/ioapic.c), the resolution of an ISA interrupt to an IOAPIC entry  *)
(* (apic/gsi.c), and the programming of that entry                         *)
(* (interrupt/irq_routing.c), in the order of platform_init.               *)
(*                                                                         *)
(* The records of the MADT and the registers of the IOAPICs are firmware   *)
(* and hardware data.  They are chosen where the code first reads them and *)
(* fixed from then on.  A redirection entry is written in one step: the    *)
(* two dwords of the register are not told apart.                          *)
(***************************************************************************)
EXTENDS Integers, Sequences, FiniteSets

CONSTANTS Pages,                   \* page aligned, nonzero MMIO addresses
          ZERO, UNALIGNED,         \* the other addresses a MADT may hold
          IOAPIC_MAX_INSTANCES,
          IOAPIC_MAX_REDIR_INDEX,
          UINT32_MAX,              \* the largest GSI
          Irqs,                    \* ISA interrupts, 0 among them
          IsoGsis, IsoFlags,       \* bound: what an override may say
          MaxIsos                  \* bound: overrides in the MADT

ASSUME RoutesAssumption ==
  /\ IOAPIC_MAX_INSTANCES \in Nat \ {0} /\ IOAPIC_MAX_REDIR_INDEX \in Nat /\ UINT32_MAX \in Nat
  /\ 0 \in Irqs /\ Irqs \subseteq 0 .. UINT32_MAX /\ IsoGsis \subseteq 0 .. UINT32_MAX
  /\ MaxIsos \in Nat
  /\ ZERO \notin Pages /\ UNALIGNED \notin Pages

VARIABLES pc,
          madt_io_apics,      \* sequence of [address, gsi_base]
          madt_isos,          \* sequence of [bus, source, gsi, flags]
          ioapic_instances,   \* sequence of [address, gsi_base, max], one per probed IOAPIC
          ioapic_count,
          gsi_initialized,
          redirection         \* <<instance, index>> -> entry, for the entries ever written

vars == <<pc, madt_io_apics, madt_isos, ioapic_instances, ioapic_count, gsi_initialized, redirection>>
firmware == <<madt_io_apics, madt_isos>>

IoApicRecord == [address : Pages \union {ZERO, UNALIGNED}, gsi_base : 0 .. UINT32_MAX]
IsoRecord == [bus : {0, 1}, source : Irqs, gsi : IsoGsis, flags : IsoFlags]
IoApicLists == UNION {[1 .. n -> IoApicRecord] : n \in 0 .. IOAPIC_MAX_INSTANCES + 1}
IsoLists == UNION {[1 .. n -> IsoRecord] : n \in 0 .. MaxIsos}

Init ==
  /\ pc = "lapic"
  /\ madt_io_apics = <<>> /\ madt_isos = <<>>
  /\ ioapic_instances = <<>> /\ ioapic_count = 0
  /\ gsi_initialized = FALSE
  /\ redirection = <<>>

Fail == pc' = "failed"

-----------------------------------------------------------------------------
(* The address of the LAPIC in the MADT, its version register and the      *)
(* enable bit read back decide.                                            *)
lapic_init(address, version, enabled) ==
  /\ pc = "lapic"
  /\ IF address \in Pages /\ version # 0 /\ enabled THEN pc' = "ioapic" ELSE Fail
  /\ UNCHANGED <<firmware, ioapic_instances, ioapic_count, gsi_initialized, redirection>>

(* ioapic_init before its loop: what it finds in the MADT.                 *)
ioapic_reset_state ==
  /\ pc = "ioapic"
  /\ madt_io_apics' \in IoApicLists
  /\ IF Len(madt_io_apics') \in 1 .. IOAPIC_MAX_INSTANCES
       THEN pc' = "probe" /\ ioapic_instances' = <<>> /\ ioapic_count' = 0
       ELSE Fail /\ UNCHANGED <<ioapic_instances, ioapic_count>>
  /\ UNCHANGED <<madt_isos, gsi_initialized, redirection>>

Probed == Len(ioapic_instances)

ProbeFails(entry, version, max) ==
  \/ entry.address \notin Pages
  \/ \E j \in 1 .. Probed : ioapic_instances[j].address = entry.address
  \/ max > IOAPIC_MAX_REDIR_INDEX
  \/ version = 0

ProbeFailed(version, max) ==
  /\ pc = "probe" /\ Probed < Len(madt_io_apics)
  /\ ProbeFails(madt_io_apics[Probed + 1], version, max)
  /\ Fail
  /\ ioapic_count' = 0
  /\ UNCHANGED <<firmware, ioapic_instances, gsi_initialized, redirection>>

ProbeSucceeds(version, max) ==
  /\ pc = "probe" /\ Probed < Len(madt_io_apics)
  /\ LET entry == madt_io_apics[Probed + 1]
     IN  /\ ~ProbeFails(entry, version, max)
         /\ ioapic_instances' = Append(ioapic_instances,
              [address |-> entry.address, gsi_base |-> entry.gsi_base, max |-> max])
  /\ ioapic_count' = ioapic_count + 1
  /\ UNCHANGED <<pc, firmware, gsi_initialized, redirection>>

Last(a) == a.gsi_base + a.max

Overlapping_BasesOnly ==
  \E i, j \in 1 .. ioapic_count :
    i < j /\ ioapic_instances[i].gsi_base = ioapic_instances[j].gsi_base
Overlapping ==
  \E i, j \in 1 .. ioapic_count :
    LET a == ioapic_instances[i]
        b == ioapic_instances[j]
    IN  i < j /\ a.gsi_base <= Last(b) /\ b.gsi_base <= Last(a)

(* The pairwise check, after every IOAPIC has been probed.                 *)
CheckOverlap ==
  /\ pc = "probe" /\ Probed = Len(madt_io_apics)
  /\ IF Overlapping
       THEN Fail /\ ioapic_instances' = <<>> /\ ioapic_count' = 0
       ELSE pc' = "gsi" /\ UNCHANGED <<ioapic_instances, ioapic_count>>
  /\ UNCHANGED <<firmware, gsi_initialized, redirection>>

gsi_init ==
  /\ pc = "gsi"
  /\ pc' = "routing"
  /\ gsi_initialized' = TRUE
  /\ madt_isos' \in IsoLists
  /\ UNCHANGED <<madt_io_apics, ioapic_instances, ioapic_count, redirection>>

-----------------------------------------------------------------------------
(* Resolution.  An operator returns NoRoute where the code returns an      *)
(* error.                                                                  *)
NoRoute == [found |-> FALSE]

ioapic_gsi_in_range(i, gsi) == ioapic_instances[i].gsi_base <= gsi /\ gsi <= Last(ioapic_instances[i])

First(S) == CHOOSE i \in S : \A j \in S : i <= j

gsi_resolve_gsi(gsi) ==
  LET owners == {i \in 1 .. ioapic_count : ioapic_gsi_in_range(i, gsi)}
      i == First(owners)
  IN  IF ~gsi_initialized \/ owners = {} THEN NoRoute
      ELSE [found |-> TRUE, ioapic |-> i, index |-> gsi - ioapic_instances[i].gsi_base]

(* The two fields of the flags: 0 conforms to the bus, 1 is high or edge,  *)
(* 3 low or level; 2 is reserved and refused.                              *)
Decodes(field) == field \in {0, 1, 3}
gsi_decode_polarity(flags) == IF flags.polarity = 3 THEN "LOW" ELSE "HIGH"
gsi_decode_trigger(flags) == IF flags.trigger = 3 THEN "LEVEL" ELSE "EDGE"

(* The first override for the ISA bus and this interrupt.                  *)
Overrides(irq) == {k \in 1 .. Len(madt_isos) : madt_isos[k].bus = 0 /\ madt_isos[k].source = irq}
gsi_find_iso(irq) == madt_isos[First(Overrides(irq))]

gsi_resolve_irq(irq) ==
  LET has_iso == Overrides(irq) # {}
      iso == gsi_find_iso(irq)
      gsi == IF has_iso THEN iso.gsi ELSE irq
      place == gsi_resolve_gsi(gsi)
  IN  IF ~gsi_initialized \/ (has_iso /\ ~(Decodes(iso.flags.polarity) /\ Decodes(iso.flags.trigger))) \/ ~place.found
        THEN NoRoute
        ELSE [found |-> TRUE, gsi |-> gsi, ioapic |-> place.ioapic, index |-> place.index,
              polarity |-> IF has_iso THEN gsi_decode_polarity(iso.flags) ELSE "HIGH",
              trigger |-> IF has_iso THEN gsi_decode_trigger(iso.flags) ELSE "EDGE"]

-----------------------------------------------------------------------------
(* irq_routing_configure_timer and irq_routing_set_irq0_masked.            *)

(* ioapic_write_redirection_at refuses an entry the IOAPIC does not have.  *)
Writable(ioapic, index) == ioapic \in 1 .. ioapic_count /\ index <= ioapic_instances[ioapic].max

ioapic_write_redirection_at(ioapic, index, entry) ==
  redirection' = [p \in DOMAIN redirection \union {<<ioapic, index>>} |->
                    IF p = <<ioapic, index>> THEN entry ELSE redirection[p]]

(* The entry is read back after it is written; a difference (a status bit  *)
(* the hardware has set) fails the call and leaves the entry written.      *)
irq_routing_configure_timer(same) ==
  /\ pc = "routing"
  /\ LET route == gsi_resolve_irq(0)
     IN  IF route.found /\ Writable(route.ioapic, route.index)
           THEN /\ pc' = IF same THEN "ready" ELSE "failed"
                /\ ioapic_write_redirection_at(route.ioapic, route.index,
                     [vector |-> 32, polarity |-> route.polarity, trigger |-> route.trigger, masked |-> TRUE])
           ELSE Fail /\ UNCHANGED redirection
  /\ UNCHANGED <<firmware, ioapic_instances, ioapic_count, gsi_initialized>>

irq_routing_set_irq0_masked_ByIrqNumber(masked) ==
  /\ pc = "ready"
  /\ LET route == gsi_resolve_gsi(0)
     IN  IF route.found /\ <<route.ioapic, route.index>> \in DOMAIN redirection
           THEN ioapic_write_redirection_at(route.ioapic, route.index,
                  [redirection[<<route.ioapic, route.index>>] EXCEPT !.masked = masked])
           ELSE ioapic_write_redirection_at(1, 0, [vector |-> 0, polarity |-> "HIGH", trigger |-> "EDGE", masked |-> masked])
  /\ UNCHANGED <<pc, firmware, ioapic_instances, ioapic_count, gsi_initialized>>
irq_routing_set_irq0_masked(masked) ==
  /\ pc = "ready"
  /\ LET route == gsi_resolve_irq(0)
     IN  /\ route.found /\ Writable(route.ioapic, route.index)
         /\ ioapic_write_redirection_at(route.ioapic, route.index,
              [redirection[<<route.ioapic, route.index>>] EXCEPT !.masked = masked])
  /\ UNCHANGED <<pc, firmware, ioapic_instances, ioapic_count, gsi_initialized>>

-----------------------------------------------------------------------------
Next ==
  \/ \E address \in Pages \union {ZERO, UNALIGNED}, version \in {0, 1}, enabled \in BOOLEAN :
       lapic_init(address, version, enabled)
  \/ ioapic_reset_state
  \/ \E version \in {0, 1}, max \in 0 .. IOAPIC_MAX_REDIR_INDEX + 1 :
       ProbeFailed(version, max) \/ ProbeSucceeds(version, max)
  \/ CheckOverlap
  \/ gsi_init
  \/ \E same \in BOOLEAN : irq_routing_configure_timer(same)
  \/ \E masked \in BOOLEAN : irq_routing_set_irq0_masked(masked)

Spec == Init /\ [][Next]_vars

-----------------------------------------------------------------------------
(* Properties.                                                             *)

(* "Ambiguous GSI ownership must never reach the routing or                *)
(* redirection-programming layers" (ioapic.c:461): once the IOAPICs are    *)
(* accepted no GSI lies in the ranges of two, and no two are one device.   *)
GsiOwnershipIsUnambiguous ==
  pc \in {"gsi", "routing", "ready"} =>
    \A i, j \in 1 .. ioapic_count : i # j =>
      /\ ioapic_instances[i].address # ioapic_instances[j].address
      /\ \A g \in 0 .. UINT32_MAX : ~(ioapic_gsi_in_range(i, g) /\ ioapic_gsi_in_range(j, g))

(* A GSI resolves exactly if an IOAPIC has an entry for it, and then to    *)
(* that entry (gsi.c:149), also at the end of the 32-bit range.            *)
ResolutionIsOwnership ==
  gsi_initialized =>
    \A g \in 0 .. UINT32_MAX :
      LET r == gsi_resolve_gsi(g)
      IN  /\ r.found <=> \E i \in 1 .. ioapic_count, x \in 0 .. IOAPIC_MAX_REDIR_INDEX :
                            x <= ioapic_instances[i].max /\ g = ioapic_instances[i].gsi_base + x
          /\ r.found => ioapic_instances[r.ioapic].gsi_base + r.index = g /\ r.index <= ioapic_instances[r.ioapic].max

(* A failed bring-up leaves no IOAPIC for a later call to find.            *)
FailedBringUpHasNoIoapic == pc = "failed" /\ ~gsi_initialized => ioapic_count = 0

(* Once routing is established exactly one redirection entry was ever      *)
(* written: the one that owns the GSI of IRQ 0, which is the GSI of the    *)
(* first override of the interrupt, or 0.  While its mask bit changes it   *)
(* stays what the MADT asks for, low polarity and level triggering exactly *)
(* where that override says so.  Every other entry is left as the firmware *)
(* had it (irq_routing.c:65).                                            *)
TimerEntryIsTheRoute ==
  pc = "ready" =>
    LET isos == {k \in 1 .. Len(madt_isos) : madt_isos[k].bus = 0 /\ madt_isos[k].source = 0}
        Programmed(gsi, polarity, trigger) ==
          \E i \in 1 .. ioapic_count, x \in 0 .. IOAPIC_MAX_REDIR_INDEX :
            /\ x <= ioapic_instances[i].max /\ gsi = ioapic_instances[i].gsi_base + x
            /\ DOMAIN redirection = {<<i, x>>}
            /\ redirection[<<i, x>>].vector = 32
            /\ redirection[<<i, x>>].polarity = polarity
            /\ redirection[<<i, x>>].trigger = trigger
    IN  /\ isos = {} => Programmed(0, "HIGH", "EDGE")
        /\ \A k \in isos : (\A j \in isos : k <= j) =>
             Programmed(madt_isos[k].gsi,
                        IF madt_isos[k].flags.polarity = 3 THEN "LOW" ELSE "HIGH",
                        IF madt_isos[k].flags.trigger = 3 THEN "LEVEL" ELSE "EDGE")
==============================================================================
