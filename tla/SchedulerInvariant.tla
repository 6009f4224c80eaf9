------------------------- MODULE SchedulerInvariant -------------------------
(***************************************************************************)
(* The inductive invariant of the scheduling core.  The properties of      *)
(* Scheduler speak of the states with interrupts enabled; to carry them    *)
(* through a critical section the invariant says, location by location,    *)
(* what the section has already changed and what it still owes.            *)
(***************************************************************************)
EXTENDS Scheduler

\* Sections that have taken the CPU from the current task, or not yet given
\* it to one: no task is RUNNING.
NobodyRuns == {"boot", "yield_take", "block_enqueue", "block_take",
               "exit_publish", "exit_take"}

\* Locations at which local.current, or local.arg as a queue or a task, is
\* live.
UsesCurrent == {"yield_save", "yield_commit", "yield_take", "block_save",
                "block_commit", "block_enqueue", "block_take", "exit_save",
                "exit_commit", "exit_publish", "exit_take", "dispatch"}
UsesQueue == {"block_save", "block_commit", "block_enqueue"}
UsesTask == {"wake_save", "wake_commit", "wake_ready"}

LocalsFit(at, on, l) ==
    /\ at \in UsesCurrent => l.current = on
    /\ at \in UsesQueue => l.arg \in Queue
    /\ at \in UsesTask => l.arg \in Task

\* t can be resumed through what its authority names.
Resumable(t) ==
    /\ LiveContinuation(t)
    /\ resume_authority[t] = "INTERRUPT" =>
          LocalsFit(preempt_frame[t].at, t, preempt_frame[t].local)

\* The interrupt flag, the boot phase and the current task, by location.
InvControl ==
    /\ pc # "corrupt"
    /\ irq_enabled <=> pc \in Open \cup {"undefined"}
    /\ preempt_enabled <=> pc # "boot"
    /\ cpu = NULL <=> pc \in Boot
    /\ scheduler_current = NULL <=> pc = "boot"
    /\ pc \notin Boot \cup {"dispatch", "halted"} => scheduler_current = cpu

\* Who is RUNNING, and in which state a section has put the task it leaves.
InvRunning ==
    /\ \A t \in Task : state[t] = "RUNNING" => t = scheduler_current
    /\ pc \notin NobodyRuns \cup {"halted"} =>
          state[scheduler_current] = "RUNNING"
    /\ pc = "yield_take" => state[cpu] = "READY"
    /\ pc \in {"block_enqueue", "block_take"} => state[cpu] = "BLOCKED"
    /\ pc \in {"exit_publish", "exit_take"} => state[cpu] = "TERMINATED"
    /\ pc = "dispatch" => cpu # scheduler_current

\* Tasks between two blocking owners: entering a queue, or leaving one.
BlockedUnqueued(t) ==
    \/ pc = "block_enqueue" /\ t = cpu
    \/ pc = "wake_ready" /\ t = local.arg

InvQueues ==
    /\ NoDuplicates(runqueue)
    /\ \A t \in Task : t \in Elems(runqueue) <=> state[t] = "READY"
    /\ \A t \in Task, q \in Queue : t \in waiters[q] <=> wait_queue[t] = q
    /\ \A t \in Task : wait_queue[t] # NULL => state[t] = "BLOCKED"
    /\ \A t \in Task :
          state[t] = "BLOCKED" => wait_queue[t] # NULL \/ BlockedUnqueued(t)
    /\ pc = "wake_ready" => /\ state[local.arg] = "BLOCKED"
                            /\ wait_queue[local.arg] = NULL
                            /\ Len(runqueue) < TASK_MAX_TASKS
    /\ pc = "block_enqueue" =>
          /\ wait_queue[cpu] = NULL
          /\ Cardinality(waiters[local.arg]) < WAIT_QUEUE_MAX_TASKS
    /\ pc \in {"block_enqueue", "block_take"} => runqueue # <<>>

InvLocals ==
    /\ LocalsFit(pc, cpu, local)
    /\ pc \in Critical => local.irq_flags
    /\ pc = "yield_take" =>
          /\ runqueue # <<>>
          /\ Head(runqueue) # cpu
          /\ local.target = x86_64_scheduler_resolve_target(Head(runqueue))
    /\ pc = "dispatch" =>
          local.target = x86_64_scheduler_resolve_target(scheduler_current)

\* Everyone who waits for the CPU or a wake-up can be resumed; the task that
\* is leaving the CPU will be, once dispatch has stored its context.
InvContinuations ==
    /\ \A t \in Task : t # cpu /\ state[t] \in {"READY", "BLOCKED"} =>
          Resumable(t)
    /\ pc = "boot" => \A t \in Task : state[t] = "READY" =>
          context[t] = "bootstrap" /\ resume_authority[t] = "CONTEXT"
    /\ pc = "boot_switch" => context[scheduler_current] = "bootstrap"
    /\ pc = "dispatch" => Resumable(scheduler_current)
    /\ (pc = "block_take" \/ (pc = "dispatch" /\ state[cpu] # "TERMINATED"))
          => resume_authority[cpu] = "CONTEXT"

InvOwners ==
    /\ cpu # NULL => cpu \in stacks
    /\ \A t \in Task : state[t] \in {"READY", "RUNNING", "BLOCKED"} =>
          t \in stacks
    /\ NoDuplicates(pending)
    /\ pc # "halted" => \A t \in Task :
          t \in Elems(pending) <=>
              /\ t \in Managed
              /\ state[t] = "TERMINATED"
              /\ t \in stacks
              /\ ~(pc = "exit_publish" /\ t = cpu)
    /\ pc = "exit_publish" => cpu \in Managed
    /\ pc = "reap_destroy" => /\ pending # <<>>
                              /\ resume_authority[Head(pending)] = "NONE"
    /\ pc # "halted" =>
          registered = IF pc = "reap_destroy" THEN stacks \ {Head(pending)}
                                              ELSE stacks
    /\ members = registered

\* All of the above: what holds at every control location of yield, block,
\* wake, exit, reap and the timer path, inside the critical sections too.
IInv ==
    /\ TypeOK
    /\ InvControl
    /\ InvRunning
    /\ InvQueues
    /\ InvLocals
    /\ InvContinuations
    /\ InvOwners

-----------------------------------------------------------------------------
(* Where the kernel may stop.                                               *)

\* The reap path.
Reaping == {"reap_save", "reap_detach", "reap_destroy", "failed"}

\* A task that is, or was interrupted, at location `at' of the reap path is
\* a reaper; what it found pending is still there unless another reaper took
\* it, which is the only way a reap can fail.
ReapsAt(at, t) ==
    /\ at \in Reaping => t \in Reaper
    /\ at \in {"reap_save", "reap_detach"} /\ Reaper = {t} => pending # <<>>
    /\ at = "failed" => Reaper # {t}

\* Together with IInv: no preflight, publication or reclamation is refused.
\* A popped frame is marked dead, so only a task that waits under INTERRUPT
\* authority has a frame on the reap path; a terminated task has no
\* authority left; there are never more stacks than the ring has slots.
InvStops ==
    /\ IsFiniteSet(stacks)
    /\ Cardinality(stacks) <= TASK_MAX_TASKS
    /\ ReapsAt(pc, cpu)
    /\ \A t \in Task : ReapsAt(preempt_frame[t].at, t)
    /\ \A t \in Task : preempt_frame[t].at \in Reaping =>
          t # cpu /\ resume_authority[t] = "INTERRUPT" /\ pc \notin Boot
    /\ \A t \in Task : state[t] = "TERMINATED" => resume_authority[t] = "NONE"
    /\ HaltsOnlyWhenNothingIsRunnable
=============================================================================
