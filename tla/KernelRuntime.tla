--------------------------- MODULE KernelRuntime ---------------------------
(***************************************************************************)
(* The life of the production runtime: attempts to initialize it over the  *)
(* transactions of Execution, then, once kernel_runtime_start has handed   *)
(* the CPU over, the two tasks on the scheduling core.  The variables of   *)
(* the core rest until the hand-over, those of Execution after it.         *)
(***************************************************************************)
EXTENDS Startup

CONSTANT ROOT_TICKS         \* number of hlt instructions in the root entry

VARIABLES
    ready, terminated, rip, \* runqueue, pending and pc of the core
    state, resume_authority, wait_queue, context, preempt_frame, stacks,
    members, registered, waiters, scheduler_current, preempt_enabled, cpu,
    local, irq_enabled, tick, stage, root_reaped_reported

R == INSTANCE Runtime WITH
        runqueue <- ready, pending <- terminated, pc <- rip,
        Queue <- {}, Managed <- Task, Reaper <- {reaper}, WAIT_QUEUE_MAX_TASKS <- 1

ASSUME RuntimeAssumption == ROOT_TICKS \in Nat

coreVars == <<ready, terminated, rip, state, resume_authority, wait_queue, context,
              preempt_frame, stacks, members, registered, waiters, scheduler_current,
              preempt_enabled, cpu, local, irq_enabled, tick, stage, root_reaped_reported>>
lifeVars == <<allVars, coreVars>>

\* The core as its initial state describes it.
LifeInit == StartupInit /\ R!RuntimeInit

BootStep(A) == A /\ at # "started" /\ UNCHANGED coreVars

\* kernel_runtime_start: what the core finds is what the transactions left.
HandOver ==
    /\ kernel_runtime_start
    /\ ready' = runqueue
    /\ terminated' = pending
    /\ state' = [t \in Task |-> task[t].state]
    /\ stacks' = {t \in Registered : mapped[task[t].id] = task[t].pages}
    /\ registered' = Registered
    /\ members' = Members(kernel)
    /\ UNCHANGED <<rip, resume_authority, wait_queue, context, preempt_frame, waiters,
                   scheduler_current, preempt_enabled, cpu, local, irq_enabled,
                   tick, stage, root_reaped_reported>>

CoreStep(A) == at = "started" /\ A /\ UNCHANGED allVars

LifeNext ==
    \/ BootStep(StartupNext)
    \/ HandOver
    \/ CoreStep(R!RuntimeNext)

\* The processor executes the call it is in.  A task that holds the CPU
\* executes instructions between two of the 100 Hz timer events, and a timer
\* event stays latched while interrupts are off.
Fairness ==
    /\ WF_lifeVars(BootStep(RuntimeStep))
    /\ WF_lifeVars(CoreStep(R!CpuStep))
    /\ \A t \in Task : SF_lifeVars(CoreStep(R!CpuStep /\ cpu = t))
    /\ SF_lifeVars(CoreStep(R!RuntimeTimer))

LifeSpec == LifeInit /\ [][LifeNext]_lifeVars /\ Fairness

-----------------------------------------------------------------------------
(* Properties.                                                              *)

\* The runtime that reports success is a client of the scheduling core: what
\* kernel_runtime_start hands over, after any number of failed attempts, is an
\* initial state of Scheduler, and every step the two tasks then make is a
\* step of Scheduler, so what holds of Scheduler holds of them.
ImplementsScheduler == R!Spec

\* runtime.c:180 "Root Task reclamation is observable only after its Task
\* Registry membership and Process membership have both been released": the
\* report is never made while the root task still has a stack.
ReportedOnlyAfterReclaim ==
    root_reaped_reported => root \notin stacks \cup registered \cup members

\* Once the runtime is started the root task terminates, and the reaper
\* reclaims and reports it, however the timer interleaves the two.
RootIsReclaimed ==
    at = "started" ~>
        [](root \notin stacks /\ terminated = <<>> /\ root_reaped_reported)
=============================================================================
