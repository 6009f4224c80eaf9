------------------------------ MODULE Platform ------------------------------
(***************************************************************************)
(* Bring-up of the interrupt controllers (platform_init in                 *)
(* platform/platform.c, then irq_routing_init): what discovery recorded of *)
(* the MADT is what the LAPIC, the IOAPICs and the GSIs are set up from.   *)
(***************************************************************************)
EXTENDS Acpi, InterruptRoutes

(* The later steps see as many records as the parse has taken, and no      *)
(* address of the LAPIC without a MADT.                                    *)
FromTheMadt ==
  /\ pc = "lapic" /\ madt_address = 0 => pc' = "failed"
  /\ pc = "ioapic" => Len(madt_io_apics') = madt.io
  /\ pc = "gsi" => Len(madt_isos') = madt.iso

(* Each call is made only if the one before returned 0.                    *)
platform_init ==
  \/ AcpiNext /\ UNCHANGED vars
  \/ acpi_pc = "done" /\ result = 0 /\ Next /\ FromTheMadt /\ UNCHANGED acpiVars

PlatformInit == AcpiInit /\ Init

PlatformSpec == PlatformInit /\ [][platform_init]_<<acpiVars, vars>>

(* Fields that conform to the bus, explicit ones, and the reserved values. *)
MCFlags == {[polarity |-> f[1], trigger |-> f[2]] : f \in {<<0, 3>>, <<3, 1>>, <<2, 0>>, <<0, 2>>}}
=============================================================================
