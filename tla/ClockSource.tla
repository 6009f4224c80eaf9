----------------------------- MODULE ClockSource -----------------------------
(***************************************************************************)
(* The clock of the system: routing of IRQ 0 (interrupt/irq_routing.c,     *)
(* irq.c, pic.c), the LAPIC timer (apic/lapic.c), and the calibration that *)
(* measures the LAPIC timer against the PIT and then hands the clock over  *)
(* to it (time/clock_source.c, clock_event.c, time.c).                     *)
(*                                                                         *)
(* One processor executes the boot code; the hardware clock advances       *)
(* between any two of its steps, and where the interrupt flag is set a     *)
(* pending interrupt may be taken.  One hardware step is one tick of the   *)
(* LAPIC timer; `rate' of them make one PIT period.  platform_init has     *)
(* succeeded, so the LAPIC is mapped and the route of IRQ 0 resolves the   *)
(* same way at every call; calls that fail only for lack of these succeed. *)
(***************************************************************************)
EXTENDS Integers, FiniteSets

CONSTANTS Rates,           \* LAPIC ticks in a PIT period, unknown to the code
          UINT32_MAX,      \* the initial count and the limit of a frequency
          ReferenceTicks,  \* 20
          Frequency,       \* reference_frequency, 100
          Calibrations,    \* bound: calls of clock_source_init
          MaxIrq0,         \* bound: deliveries of IRQ 0, other than those that end a hlt
          MaxTimer         \* bound: LAPIC timer interrupts outside a calibration

VARIABLES rate, phase,                          \* the PIT: LAPIC ticks into the period
          pic_masked,                           \* mask bit of line 0 of the PIC
          ioapic_masked,                        \* mask bit of the redirection entry of IRQ 0
          lapic,                                \* [mask, periodic, initial, count, irr, isr]
          irq0_handler, irq0_controller,        \* irq_handlers[0], irq_controllers[0]
          irq0_delivery_count, lapic_timer_interrupt_count,
          clock_event_source, clock_event_count, time_ticks,
          rflags_if, saved_if, pc, result, calls,
          start_count, start_pit_ticks, end_count, end_pit_ticks

hardware == <<rate, phase, pic_masked, ioapic_masked, lapic>>
routing == <<irq0_handler, irq0_controller>>
counters == <<irq0_delivery_count, lapic_timer_interrupt_count, clock_event_count, time_ticks>>
samples == <<start_count, start_pit_ticks, end_count, end_pit_ticks>>
software == <<routing, counters, clock_event_source>>
cpu == <<rflags_if, saved_if>>
call == <<result, calls, samples>>
vars == <<hardware, software, cpu, pc, call>>

IRQ0 == 32       \* vectors: the larger one has the higher priority
TIMER == 240

Points == {"boot", "dead", "idle", "unmask", "start", "read_start", "read_pit", "sti", "wait", "hlt_next", "hlt",
           "cli", "read_end", "evaluate", "configure", "switch", "mask", "unmask_lapic", "restore"}

(* The state after platform_init, which changes no redirection entry:      *)
(* interrupts off, PIC and IOAPIC as the firmware left them, the PIT       *)
(* running.                                                                *)
Init ==
  /\ rate \in Rates /\ phase = 0
  /\ pic_masked \in BOOLEAN /\ ioapic_masked \in BOOLEAN
  /\ lapic = [mask |-> TRUE, periodic |-> FALSE, initial |-> 0, count |-> 0, irr |-> {}, isr |-> {}]
  /\ irq0_handler = FALSE /\ irq0_controller = "PIC"
  /\ irq0_delivery_count = 0 /\ lapic_timer_interrupt_count = 0
  /\ clock_event_source = "NONE" /\ clock_event_count = 0 /\ time_ticks = 0
  /\ rflags_if = FALSE /\ saved_if = FALSE /\ pc = "boot" /\ result = 0 /\ calls = 0
  /\ start_count = 0 /\ start_pit_ticks = 0 /\ end_count = 0 /\ end_pit_ticks = 0

-----------------------------------------------------------------------------
(* Hardware.                                                               *)

(* The LAPIC timer counts down; at zero it raises its vector unless masked *)
(* and starts again in periodic mode.                                      *)
CountedDown ==
  [lapic EXCEPT
     !.count = IF @ = 0 THEN 0 ELSE IF @ = 1 /\ lapic.periodic THEN lapic.initial ELSE @ - 1,
     !.irr = IF lapic.count = 1 /\ ~lapic.mask THEN @ \union {TIMER} ELSE @]

(* A PIT edge reaches the LAPIC unless the IOAPIC entry is masked, which   *)
(* drops it.  The PIC is masked wherever interrupts can be taken (see      *)
(* the properties) and has no action.  The bounds stop the clock  *)
(* only where no code waits for it.                                        *)
ClockTick ==
  /\ CASE pc = "idle" -> lapic_timer_interrupt_count < MaxTimer
       [] pc = "hlt"  -> TRUE
       [] OTHER       -> irq0_delivery_count < MaxIrq0
  /\ phase' = (phase + 1) % rate
  /\ LET edge == phase' = 0
     IN  lapic' = IF edge /\ ~ioapic_masked
                    THEN [CountedDown EXCEPT !.irr = @ \union {IRQ0}] ELSE CountedDown
  /\ UNCHANGED <<rate, pic_masked, ioapic_masked, software, cpu, pc, call>>

-----------------------------------------------------------------------------
(* Interrupts.  A handler runs with interrupts masked and is one step; it  *)
(* ends a halt.                                                            *)

clock_event_notify_AnySource(source) ==
  IF clock_event_source = "NONE"
    THEN UNCHANGED <<clock_event_count, time_ticks>>
    ELSE clock_event_count' = clock_event_count + 1 /\ time_ticks' = time_ticks + 1
clock_event_notify(source) ==
  IF clock_event_source = "NONE" \/ source # clock_event_source
    THEN UNCHANGED <<clock_event_count, time_ticks>>
    ELSE clock_event_count' = clock_event_count + 1 /\ time_ticks' = time_ticks + 1

irq0_timer_handler ==
  /\ irq0_delivery_count' = irq0_delivery_count + 1
  /\ clock_event_notify("PIT")

Highest(vectors) == CHOOSE v \in vectors : \A w \in vectors : v >= w

(* The end of interrupt reaches the LAPIC, whose highest vector in service *)
(* it ends, or the PIC, which has none in service.                         *)
Acknowledged(controller, l) ==
  IF controller = "LAPIC" THEN [l EXCEPT !.isr = @ \ {Highest(@)}] ELSE l

Resumed == pc' = IF pc = "hlt" THEN "wait" ELSE pc

irq_dispatch ==
  /\ rflags_if /\ lapic.irr = {IRQ0} /\ lapic.isr = {}
  /\ IF irq0_handler THEN irq0_timer_handler ELSE UNCHANGED <<irq0_delivery_count, clock_event_count, time_ticks>>
  /\ lapic' = Acknowledged(irq0_controller, [lapic EXCEPT !.irr = {}, !.isr = {IRQ0}])
  /\ Resumed
  /\ UNCHANGED <<rate, phase, pic_masked, ioapic_masked, routing, lapic_timer_interrupt_count, clock_event_source, cpu, call>>

(* lapic_timer_stub: accounting, then the end of interrupt.                *)
lapic_timer_interrupt ==
  /\ rflags_if /\ TIMER \in lapic.irr /\ TIMER \notin lapic.isr
  /\ lapic_timer_interrupt_count' = lapic_timer_interrupt_count + 1
  /\ clock_event_notify("LAPIC")
  /\ lapic' = Acknowledged("LAPIC", [lapic EXCEPT !.irr = @ \ {TIMER}, !.isr = @ \union {TIMER}])
  /\ Resumed
  /\ UNCHANGED <<rate, phase, pic_masked, ioapic_masked, routing, irq0_delivery_count, clock_event_source, cpu, call>>

-----------------------------------------------------------------------------
(* Boot.                                                                   *)

(* The PIC is remapped and masked, the handler of IRQ 0 installed, and the *)
(* line routed through the IOAPIC, masked, to be acknowledged at the LAPIC.*)
irq_routing_init_ControllerNotSet ==
  /\ pc = "boot"
  /\ pic_masked' = TRUE
  /\ ioapic_masked' = TRUE
  /\ irq0_handler' = TRUE
  /\ UNCHANGED irq0_controller
  /\ pc' = "idle"
  /\ UNCHANGED <<rate, phase, lapic, counters, clock_event_source, cpu, call>>
irq_routing_init ==
  /\ pc = "boot"
  /\ pic_masked' = TRUE
  /\ ioapic_masked' = TRUE
  /\ irq0_handler' = TRUE
  /\ irq0_controller' = "LAPIC"
  /\ pc' = "idle"
  /\ UNCHANGED <<rate, phase, lapic, counters, clock_event_source, cpu, call>>

(* gsi_resolve_irq, or the check of what was written, fails: the kernel    *)
(* halts with interrupts off.                                              *)
irq_routing_init_Fails ==
  /\ pc = "boot"
  /\ pic_masked' = TRUE
  /\ irq0_handler' = TRUE
  /\ pc' = "dead"
  /\ UNCHANGED <<rate, phase, ioapic_masked, lapic, irq0_controller, counters, clock_event_source, cpu, call>>

(* The callers of clock_source_init run with interrupts on or off.         *)
SetInterruptFlag ==
  /\ pc = "idle"
  /\ rflags_if' = ~rflags_if
  /\ UNCHANGED <<hardware, software, saved_if, pc, call>>

-----------------------------------------------------------------------------
(* clock_source_calibrate_lapic.                                           *)

Stopped(l) == [l EXCEPT !.mask = TRUE, !.initial = 0, !.count = 0]
Step(from, to) == pc = from /\ pc' = to

(* irq_save, lapic_timer_stop, pit_init, time_init, clock_event_init(PIT). *)
Prepare ==
  /\ calls < Calibrations
  /\ Step("idle", "unmask")
  /\ calls' = calls + 1
  /\ saved_if' = rflags_if /\ rflags_if' = FALSE
  /\ lapic' = Stopped(lapic)
  /\ phase' = 0
  /\ time_ticks' = 0 /\ clock_event_source' = "PIT" /\ clock_event_count' = 0
  /\ UNCHANGED <<rate, pic_masked, ioapic_masked, routing, irq0_delivery_count, lapic_timer_interrupt_count, result, samples>>

irq_routing_set_irq0_masked(m) == ioapic_masked' = m

UnmaskIrq0 ==
  /\ Step("unmask", "start")
  /\ irq_routing_set_irq0_masked(FALSE)
  /\ UNCHANGED <<rate, phase, pic_masked, lapic, software, cpu, call>>

lapic_timer_init(count) ==
  lapic' = [lapic EXCEPT !.mask = TRUE, !.periodic = FALSE, !.initial = count, !.count = count]

StartLapic ==
  /\ Step("start", "read_start")
  /\ lapic_timer_init(UINT32_MAX)
  /\ UNCHANGED <<rate, phase, pic_masked, ioapic_masked, software, cpu, call>>

ReadStartCount ==
  /\ Step("read_start", "read_pit")
  /\ start_count' = lapic.count
  /\ UNCHANGED <<hardware, software, cpu, result, calls,
                 start_pit_ticks, end_count, end_pit_ticks>>

ReadStartTicks ==
  /\ Step("read_pit", "sti")
  /\ start_pit_ticks' = irq0_delivery_count
  /\ UNCHANGED <<hardware, software, cpu, result, calls,
                 start_count, end_count, end_pit_ticks>>

Sti ==
  /\ Step("sti", "wait")
  /\ rflags_if' = TRUE
  /\ UNCHANGED <<hardware, software, saved_if, call>>

EnoughTicks == irq0_delivery_count >= start_pit_ticks + ReferenceTicks

(* The loop test, and the hlt, which an interrupt between the two precedes.*)
WaitForTicks ==
  /\ \/ EnoughTicks /\ Step("wait", "cli")
     \/ ~EnoughTicks /\ Step("wait", "hlt_next")
     \/ Step("hlt_next", "hlt")
  /\ UNCHANGED <<hardware, software, cpu, call>>

Cli ==
  /\ Step("cli", "read_end")
  /\ rflags_if' = FALSE
  /\ UNCHANGED <<hardware, software, saved_if, call>>

ReadEnd ==
  /\ Step("read_end", "evaluate")
  /\ end_count' = lapic.count
  /\ end_pit_ticks' = irq0_delivery_count
  /\ UNCHANGED <<hardware, software, cpu, result, calls, start_count, start_pit_ticks>>

lapic_frequency == ((start_count - end_count) * Frequency) \div (end_pit_ticks - start_pit_ticks)
lapic_reload == (lapic_frequency + Frequency \div 2) \div Frequency

Verdict ==
  CASE end_count = 0 \/ end_count >= start_count \/ end_pit_ticks <= start_pit_ticks -> -6
    [] OTHER -> IF lapic_frequency = 0 \/ lapic_frequency > UINT32_MAX THEN -8
                ELSE IF lapic_reload = 0 \/ lapic_reload > UINT32_MAX THEN -9 ELSE 0

GiveUp_Irq0LeftUnmasked ==
  /\ Step("evaluate", "restore")
  /\ Verdict # 0
  /\ result' = Verdict
  /\ lapic' = Stopped(lapic)
  /\ UNCHANGED <<rate, phase, pic_masked, ioapic_masked, software, cpu, calls, samples>>
GiveUp ==
  /\ Step("evaluate", "restore")
  /\ Verdict # 0
  /\ result' = Verdict
  /\ lapic' = Stopped(lapic)
  /\ irq_routing_set_irq0_masked(TRUE)
  /\ UNCHANGED <<rate, phase, pic_masked, software, cpu, calls, samples>>

Accept ==
  /\ Step("evaluate", "configure")
  /\ Verdict = 0
  /\ lapic' = Stopped(lapic)
  /\ UNCHANGED <<rate, phase, pic_masked, ioapic_masked, software, cpu, call>>

lapic_timer_configure_periodic(count) ==
  lapic' = [Stopped(lapic) EXCEPT !.periodic = TRUE, !.initial = count, !.count = count]

ConfigurePeriodic ==
  /\ Step("configure", "switch")
  /\ lapic_timer_configure_periodic(lapic_reload)
  /\ UNCHANGED <<rate, phase, pic_masked, ioapic_masked, software, cpu, call>>

SwitchSource ==
  /\ Step("switch", "mask")
  /\ clock_event_source' = "LAPIC" /\ clock_event_count' = 0
  /\ UNCHANGED <<hardware, routing, irq0_delivery_count, lapic_timer_interrupt_count, time_ticks, cpu, call>>

MaskIrq0 ==
  /\ Step("mask", "unmask_lapic")
  /\ irq_routing_set_irq0_masked(TRUE)
  /\ UNCHANGED <<rate, phase, pic_masked, lapic, software, cpu, call>>

lapic_timer_set_masked(m) == lapic' = [lapic EXCEPT !.mask = m]

UnmaskLapic ==
  /\ Step("unmask_lapic", "restore")
  /\ lapic_timer_set_masked(FALSE)
  /\ result' = 0
  /\ UNCHANGED <<rate, phase, pic_masked, ioapic_masked, software, cpu, calls, samples>>

Restore ==
  /\ Step("restore", "idle")
  /\ rflags_if' = saved_if
  /\ UNCHANGED <<hardware, software, saved_if, call>>

-----------------------------------------------------------------------------
Interrupt == irq_dispatch \/ lapic_timer_interrupt

Calibrate ==
  \/ UnmaskIrq0 \/ StartLapic \/ ReadStartCount \/ ReadStartTicks \/ Sti \/ WaitForTicks \/ Cli \/ ReadEnd
  \/ GiveUp \/ Accept \/ ConfigurePeriodic \/ SwitchSource \/ MaskIrq0 \/ UnmaskLapic \/ Restore

Next ==
  \/ irq_routing_init \/ irq_routing_init_Fails \/ SetInterruptFlag \/ Prepare
  \/ Calibrate \/ Interrupt \/ ClockTick

Spec == Init /\ [][Next]_vars

(* The processor executes, the clock runs, and an interrupt that stays     *)
(* deliverable is taken.                                                   *)
LiveSpec == Spec /\ WF_vars(Calibrate) /\ WF_vars(ClockTick) /\ WF_vars(Interrupt)

-----------------------------------------------------------------------------
(* Properties.                                                             *)

(* Time advances by one, and only with an interrupt of the clock source in *)
(* force: an edge or a countdown that was pending when the source changed  *)
(* is taken later and not counted.  Only a calibration sets time back.     *)
TimeFollowsTheSource ==
  [][time_ticks' # time_ticks =>
       \/ pc = "idle" /\ pc' = "unmask" /\ time_ticks' = 0
       \/ /\ time_ticks' = time_ticks + 1
          /\ clock_event_source = "PIT" => irq0_delivery_count' = irq0_delivery_count + 1
          /\ clock_event_source = "LAPIC" => lapic_timer_interrupt_count' = lapic_timer_interrupt_count + 1]_vars

(* Wherever interrupts can be taken, at most one of the two clocks is      *)
(* unmasked, and it is the one clock_event_notify accepts.  A successful   *)
(* calibration leaves a clock that counts: a periodic, unmasked timer with *)
(* a reload of at least one.  A failed one (clock_source.c:125-181) leaves *)
(* both sources masked and the LAPIC timer stopped.                        *)
CalibrationLeavesAClockOrSilence ==
  /\ rflags_if =>
       /\ pic_masked
       /\ ~ioapic_masked => clock_event_source = "PIT" /\ lapic.mask
       /\ ~lapic.mask => clock_event_source = "LAPIC" /\ ioapic_masked
  /\ pc = "restore" =>
       /\ ioapic_masked
       /\ result = 0 => ~lapic.mask /\ lapic.periodic /\ lapic.initial > 0 /\ lapic.count > 0
       /\ result # 0 => lapic.mask /\ lapic.count = 0

(* The wait for the PIT ends (clock_source.c:99), although an interrupt    *)
(* may arrive between the test of the loop and the hlt.                    *)
CalibrationEnds == pc = "wait" ~> pc = "idle"

==============================================================================
