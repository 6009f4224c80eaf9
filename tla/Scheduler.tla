----------------------------- MODULE Scheduler -----------------------------
(***************************************************************************)
(* The single-CPU scheduling core: task life cycle, run queue, wait        *)
(* queues, cooperative yield/block/wake, terminal exit, deferred reaping   *)
(* and LAPIC-timer preemption.                                             *)
(*                                                                         *)
(* There is one CPU, so one stack in use (`cpu'), one program counter      *)
(* (`pc'), one set of live local variables (`local') and one interrupt     *)
(* flag (`irq_enabled').  Each kernel operation is cut into one action per *)
(* group of assignments; whether the timer can come between two actions is *)
(* decided by irq_enabled alone, not by the granularity of the model.      *)
(*                                                                         *)
(* A suspended task exists only as the continuation stored for it: the     *)
(* cooperative `context' (its saved rip) or the interrupt frame bound to   *)
(* `preempt_state'.  Resuming a continuation pops it off its stack; what   *)
(* the task structure still points at afterwards is "dead".                *)
(***************************************************************************)
EXTENDS Naturals, Sequences, FiniteSets

CONSTANTS
    Task,                   \* task objects (struct task), one per task id
    Queue,                  \* initialized wait queues
    Managed,                \* tasks with lifecycle_mode MANAGED
    Reaper,                 \* tasks whose entry calls lifecycle_reap_one
    TASK_MAX_TASKS,         \* capacity of the run queue and pending ring
    WAIT_QUEUE_MAX_TASKS,   \* capacity of a wait queue
    NULL

ASSUME ConstantsAssumption ==
    /\ NULL \notin Task \cup Queue
    /\ Task \cap Queue = {}
    /\ Managed \subseteq Task
    /\ Reaper \subseteq Task
    /\ TASK_MAX_TASKS \in Nat \ {0}
    /\ WAIT_QUEUE_MAX_TASKS \in Nat \ {0}

VARIABLES
    state,              \* task->state
    resume_authority,   \* task->resume_authority
    wait_queue,         \* task->wait_queue
    context,            \* task->context: the label its saved rip denotes
    preempt_frame,      \* what task->preempt_state.frame_address points at
    stacks,             \* tasks whose kernel stack is mapped
    members,            \* tasks attached to the kernel process
    registered,         \* tasks in the task registry
    runqueue,           \* FIFO of the run-queue ring
    waiters,            \* membership of each wait queue
    pending,            \* FIFO of the lifecycle publication ring
    scheduler_current,
    preempt_enabled,
    cpu,                \* owner of the stack rsp points into; NULL: boot
    pc,
    local,              \* live locals and arguments of the running operation
    irq_enabled         \* RFLAGS.IF

taskVars == <<state, resume_authority, wait_queue, context, preempt_frame>>
ownerVars == <<stacks, members, registered, waiters, pending>>
cpuVars == <<cpu, pc, local, irq_enabled>>
vars == <<taskVars, ownerVars, runqueue, scheduler_current,
          preempt_enabled, cpuVars>>

-----------------------------------------------------------------------------
(* Control locations.                                                       *)

\* Locations of task context, where interrupts are meant to be enabled.
Open == {"run", "hlt", "bootstrap", "yield_save", "block_save", "wake_save",
         "exit_save", "reap_save", "failed", "past_noreturn"}

\* Locations inside an irq_save critical section.
Critical == {"yield_commit", "yield_take", "block_commit", "block_enqueue",
             "block_take", "wake_commit", "wake_ready", "exit_commit",
             "exit_publish", "exit_take", "reap_detach", "reap_destroy",
             "dispatch"}

Boot == {"boot", "boot_switch"}

\* "halted": a cli;hlt loop.  "undefined": execution left the compiled code
\* of the kernel.  "corrupt": a dead continuation was resumed.
Stopped == {"halted", "undefined", "corrupt"}

Label == Open \cup Critical \cup Boot \cup Stopped

NoTarget == [kind |-> "NONE", task |-> NULL]
NoLocals == [current |-> NULL, arg |-> NULL, irq_flags |-> TRUE,
             target |-> NoTarget]

\* preempt_state before any frame, after its frame was popped, and the
\* synthetic frame that x86_64_preempt_prepare_first_run builds without SS:RSP.
NoFrame == [on |-> NULL, at |-> "none", local |-> NoLocals]
DeadFrame == [NoFrame EXCEPT !.at = "dead"]
FirstRunFrame(t) == [on |-> t, at |-> "first_run", local |-> NoLocals]

Elems(seq) == {seq[i] : i \in 1..Len(seq)}
NoDuplicates(seq) == \A i, j \in 1..Len(seq) : seq[i] = seq[j] => i = j

-----------------------------------------------------------------------------
(* Boot: every admitted task was built by task_create, registered, attached *)
(* and added to the run queue with interrupts disabled.                     *)

BootOrders == {s \in UNION {[1..n -> Task] : n \in 1..TASK_MAX_TASKS} :
                   NoDuplicates(s)}

Init ==
    /\ runqueue \in BootOrders
    /\ state = [t \in Task |->
                   IF t \in Elems(runqueue) THEN "READY" ELSE "NEW"]
    /\ resume_authority = [t \in Task |->
                   IF t \in Elems(runqueue) THEN "CONTEXT" ELSE "NONE"]
    /\ wait_queue = [t \in Task |-> NULL]
    /\ context = [t \in Task |->
                   IF t \in Elems(runqueue) THEN "bootstrap" ELSE "dead"]
    /\ preempt_frame = [t \in Task |->
                   IF t \in Elems(runqueue) THEN FirstRunFrame(t) ELSE NoFrame]
    /\ stacks = Elems(runqueue)
    /\ members = Elems(runqueue)
    /\ registered = Elems(runqueue)
    /\ waiters = [q \in Queue |-> {}]
    /\ pending = <<>>
    /\ scheduler_current = NULL
    /\ preempt_enabled = FALSE
    /\ cpu = NULL
    /\ pc = "boot"
    /\ local = NoLocals
    /\ irq_enabled = FALSE

-----------------------------------------------------------------------------
(* Interrupt flag.                                                          *)

\* Mutation: the flags are saved but cli is missing.
x86_64_irq_save_NoCli(next) ==
    /\ local' = [local EXCEPT !.irq_flags = irq_enabled]
    /\ UNCHANGED irq_enabled
    /\ pc' = next

x86_64_irq_save(next) ==
    /\ local' = [local EXCEPT !.irq_flags = irq_enabled]
    /\ irq_enabled' = FALSE
    /\ pc' = next

\* x86_64_irq_restore followed by a return to the task's own code.
RestoreAndReturn ==
    /\ irq_enabled' = local.irq_flags
    /\ local' = NoLocals
    /\ pc' = "run"

Halt ==
    /\ pc' = "halted"
    /\ irq_enabled' = FALSE
    /\ local' = NoLocals

\* x86_64_irq_restore on an error path whose caller then stops the kernel.
RestoreAndFail ==
    /\ irq_enabled' = local.irq_flags
    /\ local' = NoLocals
    /\ pc' = "failed"

-----------------------------------------------------------------------------
(* Run queue admission and continuation resolution.                         *)

runqueue_peek == Head(runqueue)

\* runqueue_remove: compact the FIFO around the entry of t.
Without(seq, t) ==
    LET at == CHOOSE i \in 1..Len(seq) : seq[i] = t
    IN  IF t \in Elems(seq)
          THEN SubSeq(seq, 1, at - 1) \o SubSeq(seq, at + 1, Len(seq))
          ELSE seq

CanEnqueue(t) == Len(runqueue) < TASK_MAX_TASKS /\ t \notin Elems(runqueue)

x86_64_preempt_state_is_valid(t) == preempt_frame[t].at # "none"

Resolvable(t) ==
    \/ resume_authority[t] = "CONTEXT"
    \/ resume_authority[t] = "INTERRUPT" /\ x86_64_preempt_state_is_valid(t)

x86_64_scheduler_resolve_target(t) == [kind |-> resume_authority[t], task |-> t]

\* The preflight shared by every hand-over: a READY, resumable FIFO head.
SuccessorReady ==
    /\ runqueue # <<>>
    /\ state[runqueue_peek] = "READY"
    /\ Resolvable(runqueue_peek)

-----------------------------------------------------------------------------
(* Resuming a continuation.                                                 *)

ResumesAt(rip) ==
    CASE rip = "bootstrap"        -> "bootstrap"
      [] rip = "scheduler_resume" -> "run"
      [] rip = "interrupt_resume" -> "past_noreturn"
      [] OTHER                    -> "corrupt"

\* sti; jmp rax on the stack of t.  `saved' is the context array after the
\* outgoing task's registers were stored.
ResumeContext(t, saved) ==
    /\ cpu' = t
    /\ pc' = ResumesAt(saved[t])
    /\ context' = [saved EXCEPT ![t] = "dead"]
    /\ local' = NoLocals
    /\ irq_enabled' = TRUE

\* iretq from the frame bound to t: it runs on the stack the frame lies on,
\* with the RFLAGS the CPU pushed, in which IF was set.
ResumeFrame(t, frames) ==
    LET frame == frames[t] IN
    /\ cpu' = frame.on
    /\ pc' = IF frame.at \in Label THEN frame.at ELSE "corrupt"
    /\ preempt_frame' = [frames EXCEPT ![t] = DeadFrame]
    /\ local' = frame.local
    /\ irq_enabled' = TRUE

\* x86_64_scheduler_dispatch: store the running task's cooperative context,
\* then enter the resolved target.  The two switch primitives store
\* different continuation addresses.
x86_64_scheduler_dispatch ==
    /\ pc = "dispatch"
    /\ CASE local.target.kind = "CONTEXT" ->
              /\ ResumeContext(local.target.task,
                     [context EXCEPT ![local.current] = "scheduler_resume"])
              /\ UNCHANGED preempt_frame
         [] local.target.kind = "INTERRUPT" ->
              /\ context' = [context EXCEPT ![local.current] = "interrupt_resume"]
              /\ ResumeFrame(local.target.task, preempt_frame)
         [] OTHER -> Halt /\ UNCHANGED <<context, preempt_frame, cpu>>
    /\ UNCHANGED <<state, resume_authority, wait_queue, ownerVars, runqueue,
                   scheduler_current, preempt_enabled>>

\* .interrupt_resume is a plain `ret' to the instruction after a call the
\* compiler was told never returns: either the build happens to continue
\* into the caller's epilogue or it runs whatever code follows.
PastNoreturn ==
    /\ pc = "past_noreturn"
    /\ pc' \in {"run", "undefined"}
    /\ UNCHANGED <<taskVars, ownerVars, runqueue, scheduler_current,
                   preempt_enabled, cpu, local, irq_enabled>>

\* The common end of yield, block and exit: dequeue the preflighted head,
\* make it RUNNING and current, and go on to the architecture hand-over.
\* `queue' and `st' are the run queue and the task states before the dequeue.
CommitSuccessor(queue, st) ==
    /\ runqueue' = Tail(queue)
    /\ state' = [st EXCEPT ![Head(queue)] = "RUNNING"]
    /\ scheduler_current' = Head(queue)
    /\ pc' = "dispatch"

-----------------------------------------------------------------------------
(* kernel_runtime_start: scheduler_start claims the first task, preemption  *)
(* is enabled with interrupts still off, and the boot stack is left.        *)

scheduler_start ==
    /\ pc = "boot"
    /\ scheduler_current = NULL
    /\ runqueue # <<>>
    /\ state[runqueue_peek] = "READY"
    /\ runqueue' = Tail(runqueue)
    /\ state' = [state EXCEPT ![runqueue_peek] = "RUNNING"]
    /\ scheduler_current' = runqueue_peek
    /\ preempt_enabled' = TRUE
    /\ pc' = "boot_switch"
    /\ UNCHANGED <<resume_authority, wait_queue, context, preempt_frame,
                   ownerVars, cpu, local, irq_enabled>>

\* x86_64_context_switch into the first task; its trampoline executes sti.
FirstDispatch ==
    /\ pc = "boot_switch"
    /\ ResumeContext(scheduler_current, context)
    /\ UNCHANGED <<state, resume_authority, wait_queue, preempt_frame,
                   ownerVars, runqueue, scheduler_current, preempt_enabled>>

task_bootstrap_entry ==
    /\ pc = "bootstrap"
    /\ IF state[cpu] = "RUNNING"
         THEN pc' = "run" /\ UNCHANGED <<local, irq_enabled>>
         ELSE Halt
    /\ UNCHANGED <<taskVars, ownerVars, runqueue, scheduler_current,
                   preempt_enabled, cpu>>

\* The cli; hlt loop behind a failed exit, and kernel_runtime_halt_failure.
StopKernel ==
    /\ pc = "failed"
    /\ Halt
    /\ UNCHANGED <<taskVars, ownerVars, runqueue, scheduler_current,
                   preempt_enabled, cpu>>

\* A task waits for the next interrupt.
Hlt ==
    /\ pc = "run"
    /\ pc' = "hlt"
    /\ UNCHANGED <<taskVars, ownerVars, runqueue, scheduler_current,
                   preempt_enabled, cpu, local, irq_enabled>>

-----------------------------------------------------------------------------
(* scheduler_yield                                                          *)

\* `current' is read, and its state tested, before interrupts are masked.
YieldEnter ==
    /\ pc = "run"
    /\ scheduler_current # NULL
    /\ state[scheduler_current] = "RUNNING"
    /\ local' = [local EXCEPT !.current = scheduler_current]
    /\ pc' = "yield_save"
    /\ UNCHANGED <<taskVars, ownerVars, runqueue, scheduler_current,
                   preempt_enabled, cpu, irq_enabled>>

YieldSave ==
    /\ pc = "yield_save"
    /\ x86_64_irq_save("yield_commit")
    /\ UNCHANGED <<taskVars, ownerVars, runqueue, scheduler_current,
                   preempt_enabled, cpu>>

\* Resolve the head, then current -> READY and to the tail of the queue.
YieldCommit ==
    /\ pc = "yield_commit"
    /\ IF SuccessorReady /\ CanEnqueue(local.current)
         THEN /\ state' = [state EXCEPT ![local.current] = "READY"]
              /\ runqueue' = Append(runqueue, local.current)
              /\ local' = [local EXCEPT !.target =
                              x86_64_scheduler_resolve_target(runqueue_peek)]
              /\ pc' = "yield_take"
              /\ UNCHANGED irq_enabled
         ELSE RestoreAndReturn /\ UNCHANGED <<state, runqueue>>
    /\ UNCHANGED <<resume_authority, wait_queue, context, preempt_frame,
                   ownerVars, scheduler_current, preempt_enabled, cpu>>

\* Mutation: the yielding task keeps the authority of its last timer frame.
YieldTake_KeepAuthority ==
    /\ pc = "yield_take"
    /\ CommitSuccessor(runqueue, state)
    /\ UNCHANGED <<resume_authority, local, irq_enabled, wait_queue, context,
                   preempt_frame, ownerVars, preempt_enabled, cpu>>

YieldTake ==
    /\ pc = "yield_take"
    /\ IF state[runqueue_peek] = "READY"
         THEN /\ CommitSuccessor(runqueue, state)
              /\ resume_authority' =
                    [resume_authority EXCEPT ![local.current] = "CONTEXT"]
              /\ UNCHANGED <<local, irq_enabled>>
         ELSE /\ runqueue' = Without(Tail(runqueue), local.current)
              /\ state' = [state EXCEPT ![local.current] = "RUNNING"]
              /\ RestoreAndReturn
              /\ UNCHANGED <<resume_authority, scheduler_current>>
    /\ UNCHANGED <<wait_queue, context, preempt_frame, ownerVars,
                   preempt_enabled, cpu>>

-----------------------------------------------------------------------------
(* task_block(current, queue)                                               *)

BlockEnter(queue) ==
    /\ pc = "run"
    /\ scheduler_current = cpu
    /\ state[cpu] = "RUNNING"
    /\ wait_queue[cpu] = NULL
    /\ irq_enabled
    /\ local' = [local EXCEPT !.current = cpu, !.arg = queue]
    /\ pc' = "block_save"
    /\ UNCHANGED <<taskVars, ownerVars, runqueue, scheduler_current,
                   preempt_enabled, cpu, irq_enabled>>

BlockSave ==
    /\ pc = "block_save"
    /\ x86_64_irq_save("block_commit")
    /\ UNCHANGED <<taskVars, ownerVars, runqueue, scheduler_current,
                   preempt_enabled, cpu>>

\* A replacement must be READY; its continuation is not looked at here.
BlockCommit ==
    /\ pc = "block_commit"
    /\ IF /\ Cardinality(waiters[local.arg]) < WAIT_QUEUE_MAX_TASKS
          /\ local.current \notin waiters[local.arg]
          /\ runqueue # <<>>
          /\ state[runqueue_peek] = "READY"
         THEN /\ state' = [state EXCEPT ![local.current] = "BLOCKED"]
              /\ pc' = "block_enqueue"
              /\ UNCHANGED <<local, irq_enabled>>
         ELSE RestoreAndReturn /\ UNCHANGED state
    /\ UNCHANGED <<resume_authority, wait_queue, context, preempt_frame,
                   ownerVars, runqueue, scheduler_current, preempt_enabled,
                   cpu>>

BlockEnqueue ==
    /\ pc = "block_enqueue"
    /\ IF /\ Cardinality(waiters[local.arg]) < WAIT_QUEUE_MAX_TASKS
          /\ local.current \notin waiters[local.arg]
          /\ wait_queue[local.current] = NULL
         THEN /\ waiters' = [waiters EXCEPT ![local.arg] = @ \cup {local.current}]
              /\ wait_queue' = [wait_queue EXCEPT ![local.current] = local.arg]
              /\ resume_authority' =
                    [resume_authority EXCEPT ![local.current] = "CONTEXT"]
              /\ pc' = "block_take"
              /\ UNCHANGED <<local, irq_enabled>>
         ELSE /\ RestoreAndReturn
              /\ UNCHANGED <<waiters, wait_queue, resume_authority>>
    /\ UNCHANGED <<state, context, preempt_frame, stacks, members, registered,
                   pending, runqueue, scheduler_current, preempt_enabled, cpu>>

scheduler_block_current ==
    /\ pc = "block_take"
    /\ IF /\ local.current = scheduler_current
          /\ state[local.current] = "BLOCKED"
          /\ ~irq_enabled
          /\ SuccessorReady
         THEN /\ local' = [local EXCEPT !.target =
                              x86_64_scheduler_resolve_target(runqueue_peek)]
              /\ CommitSuccessor(runqueue, state)
              /\ UNCHANGED irq_enabled
         ELSE RestoreAndReturn /\ UNCHANGED <<state, runqueue, scheduler_current>>
    /\ UNCHANGED <<resume_authority, wait_queue, context, preempt_frame,
                   ownerVars, preempt_enabled, cpu>>

-----------------------------------------------------------------------------
(* task_wake(task)                                                          *)

\* state and wait_queue are tested before interrupts are masked ...
WakeEnter(task) ==
    /\ pc = "run"
    /\ state[task] = "BLOCKED"
    /\ wait_queue[task] # NULL
    /\ local' = [local EXCEPT !.arg = task]
    /\ pc' = "wake_save"
    /\ UNCHANGED <<taskVars, ownerVars, runqueue, scheduler_current,
                   preempt_enabled, cpu, irq_enabled>>

WakeSave ==
    /\ pc = "wake_save"
    /\ x86_64_irq_save("wake_commit")
    /\ UNCHANGED <<taskVars, ownerVars, runqueue, scheduler_current,
                   preempt_enabled, cpu>>

\* Mutation: nothing is read again once interrupts are masked.
WakeCommit_NoRevalidation ==
    /\ pc = "wake_commit"
    /\ waiters' = [queue \in Queue |-> waiters[queue] \ {local.arg}]
    /\ wait_queue' = [wait_queue EXCEPT ![local.arg] = NULL]
    /\ pc' = "wake_ready"
    /\ UNCHANGED <<local, irq_enabled, state, resume_authority, context,
                   preempt_frame, stacks, members, registered, pending,
                   runqueue, scheduler_current, preempt_enabled, cpu>>

\* ... and read again inside, because another task may have woken it since.
WakeCommit ==
    /\ pc = "wake_commit"
    /\ LET task == local.arg
           queue == wait_queue[task]
       IN  IF /\ state[task] = "BLOCKED"
              /\ queue # NULL
              /\ task \in waiters[queue]
              /\ CanEnqueue(task)
             THEN /\ waiters' = [waiters EXCEPT ![queue] = @ \ {task}]
                  /\ wait_queue' = [wait_queue EXCEPT ![task] = NULL]
                  /\ pc' = "wake_ready"
                  /\ UNCHANGED <<local, irq_enabled>>
             ELSE RestoreAndReturn /\ UNCHANGED <<waiters, wait_queue>>
    /\ UNCHANGED <<state, resume_authority, context, preempt_frame, stacks,
                   members, registered, pending, runqueue, scheduler_current,
                   preempt_enabled, cpu>>

\* Mutation: a woken task jumps the queue.
WakeReady_AtHead ==
    /\ pc = "wake_ready"
    /\ state' = [state EXCEPT ![local.arg] = "READY"]
    /\ runqueue' = <<local.arg>> \o runqueue
    /\ RestoreAndReturn
    /\ UNCHANGED <<resume_authority, wait_queue, context, preempt_frame,
                   ownerVars, scheduler_current, preempt_enabled, cpu>>

WakeReady ==
    /\ pc = "wake_ready"
    /\ state' = [state EXCEPT ![local.arg] = "READY"]
    /\ runqueue' = IF CanEnqueue(local.arg)
                     THEN Append(runqueue, local.arg) ELSE runqueue
    /\ RestoreAndReturn
    /\ UNCHANGED <<resume_authority, wait_queue, context, preempt_frame,
                   ownerVars, scheduler_current, preempt_enabled, cpu>>

-----------------------------------------------------------------------------
(* The tail of task_bootstrap_entry: the entry function returned.           *)

ExitEnter ==
    /\ pc = "run"
    /\ local' = [local EXCEPT !.current = cpu]
    /\ pc' = "exit_save"
    /\ UNCHANGED <<taskVars, ownerVars, runqueue, scheduler_current,
                   preempt_enabled, cpu, irq_enabled>>

ExitSave ==
    /\ pc = "exit_save"
    /\ x86_64_irq_save("exit_commit")
    /\ UNCHANGED <<taskVars, ownerVars, runqueue, scheduler_current,
                   preempt_enabled, cpu>>

task_exit ==
    /\ pc = "exit_commit"
    /\ IF state[local.current] = "RUNNING"
         THEN /\ state' = [state EXCEPT ![local.current] = "TERMINATED"]
              /\ resume_authority' =
                    [resume_authority EXCEPT ![local.current] = "NONE"]
              /\ pc' = IF local.current \in Managed
                         THEN "exit_publish" ELSE "exit_take"
              /\ UNCHANGED <<local, irq_enabled>>
         ELSE RestoreAndFail /\ UNCHANGED <<state, resume_authority>>
    /\ UNCHANGED <<wait_queue, context, preempt_frame, ownerVars, runqueue,
                   scheduler_current, preempt_enabled, cpu>>

lifecycle_publish_terminated_task ==
    /\ pc = "exit_publish"
    /\ IF /\ Len(pending) < TASK_MAX_TASKS
          /\ local.current \notin Elems(pending)
          /\ local.current \in registered
         THEN /\ pending' = Append(pending, local.current)
              /\ pc' = "exit_take"
              /\ UNCHANGED <<local, irq_enabled>>
         ELSE Halt /\ UNCHANGED pending
    /\ UNCHANGED <<taskVars, stacks, members, registered, waiters, runqueue,
                   scheduler_current, preempt_enabled, cpu>>

\* With nothing runnable the kernel halts for good.
scheduler_exit_current ==
    /\ pc = "exit_take"
    /\ CASE \/ local.current # scheduler_current
            \/ state[local.current] # "TERMINATED"
            \/ irq_enabled ->
              RestoreAndFail /\ UNCHANGED <<state, runqueue, scheduler_current>>
         [] runqueue = <<>> ->
              Halt /\ UNCHANGED <<state, runqueue, scheduler_current>>
         [] SuccessorReady ->
              /\ local' = [local EXCEPT !.target =
                              x86_64_scheduler_resolve_target(runqueue_peek)]
              /\ CommitSuccessor(runqueue, state)
              /\ UNCHANGED irq_enabled
         [] OTHER ->
              RestoreAndFail /\ UNCHANGED <<state, runqueue, scheduler_current>>
    /\ UNCHANGED <<resume_authority, wait_queue, context, preempt_frame,
                   ownerVars, preempt_enabled, cpu>>

-----------------------------------------------------------------------------
(* lifecycle_reap_one, called by the reaper task.                           *)

\* The pending count is tested before interrupts are masked.
ReapEnter ==
    /\ pc = "run"
    /\ cpu \in Reaper
    /\ pending # <<>>
    /\ pc' = "reap_save"
    /\ UNCHANGED <<taskVars, ownerVars, runqueue, scheduler_current,
                   preempt_enabled, cpu, local, irq_enabled>>

ReapSave ==
    /\ pc = "reap_save"
    /\ x86_64_irq_save("reap_detach")
    /\ UNCHANGED <<taskVars, ownerVars, runqueue, scheduler_current,
                   preempt_enabled, cpu>>

\* Preflight, then process_detach_task and task_registry_unregister.  The
\* reaper stops the kernel on every failure.
ReapDetach ==
    /\ pc = "reap_detach"
    /\ IF /\ pending # <<>>
          /\ state[Head(pending)] = "TERMINATED"
          /\ scheduler_current # Head(pending)
          /\ resume_authority[Head(pending)] = "NONE"
          /\ wait_queue[Head(pending)] = NULL
          /\ Head(pending) \notin Elems(runqueue)
          /\ Head(pending) \in registered
         THEN /\ members' = members \ {Head(pending)}
              /\ registered' = registered \ {Head(pending)}
              /\ pc' = "reap_destroy"
              /\ UNCHANGED <<local, irq_enabled>>
         ELSE RestoreAndFail /\ UNCHANGED <<members, registered>>
    /\ UNCHANGED <<taskVars, stacks, waiters, pending, runqueue,
                   scheduler_current, preempt_enabled, cpu>>

\* Mutation: the publication is not retired after the task was destroyed.
ReapDestroy_KeepPending ==
    /\ pc = "reap_destroy"
    /\ stacks' = stacks \ {Head(pending)}
    /\ preempt_frame' = [preempt_frame EXCEPT ![Head(pending)] = NoFrame]
    /\ RestoreAndReturn
    /\ UNCHANGED <<state, resume_authority, pending, wait_queue, context,
                   members, registered, waiters, runqueue, scheduler_current,
                   preempt_enabled, cpu>>

\* task_destroy unmaps and frees the stack, then the publication retires.
ReapDestroy ==
    /\ pc = "reap_destroy"
    /\ LET task == Head(pending) IN
       IF /\ scheduler_current # task
          /\ resume_authority[task] # "INTERRUPT"
          /\ state[task] \in {"READY", "TERMINATED"}
          /\ wait_queue[task] = NULL
          /\ task \notin members \cup registered \cup Elems(runqueue)
          /\ task \in stacks
         THEN /\ stacks' = stacks \ {task}
              /\ state' = [state EXCEPT ![task] = "TERMINATED"]
              /\ resume_authority' = [resume_authority EXCEPT ![task] = "NONE"]
              /\ preempt_frame' = [preempt_frame EXCEPT ![task] = NoFrame]
              /\ pending' = Tail(pending)
              /\ RestoreAndReturn
         ELSE /\ RestoreAndFail
              /\ UNCHANGED <<stacks, state, resume_authority, preempt_frame,
                             pending>>
    /\ UNCHANGED <<wait_queue, context, members, registered, waiters, runqueue,
                   scheduler_current, preempt_enabled, cpu>>

-----------------------------------------------------------------------------
(* The LAPIC timer interrupt.  The gate clears IF and the CPU pushes the    *)
(* interrupted location on the running stack; lapic_timer_stub ends in the  *)
(* resumption of some continuation.  hlt is left for good once interrupted. *)

LiveFrame == [on |-> cpu, at |-> IF pc = "hlt" THEN "run" ELSE pc,
              local |-> local]

\* Mutation: current goes to the head of the queue.
scheduler_preempt_current_AtHead(current) ==
    /\ runqueue' = <<current>> \o Tail(runqueue)
    /\ state' = [state EXCEPT ![current] = "READY", ![runqueue_peek] = "RUNNING"]
    /\ scheduler_current' = runqueue_peek

\* current goes to the tail of the queue and the validated head takes over;
\* every other outcome leaves the queue and the two states as they were.
scheduler_preempt_current(current) ==
    /\ runqueue' = Tail(Append(runqueue, current))
    /\ state' = [state EXCEPT ![current] = "READY", ![runqueue_peek] = "RUNNING"]
    /\ scheduler_current' = runqueue_peek

\* The frame is bound to scheduler_current, then the FIFO head takes the CPU
\* if it can.  On every other path the interrupted task goes on from the
\* same frame, which leaves its authority INTERRUPT while it runs.
x86_64_preempt_handle_timer(current, frames) ==
    /\ resume_authority' = [resume_authority EXCEPT ![current] = "INTERRUPT"]
    /\ IF /\ SuccessorReady
          /\ state[current] = "RUNNING"
          /\ CanEnqueue(current)
         THEN /\ scheduler_preempt_current(current)
              /\ IF resume_authority[runqueue_peek] = "CONTEXT"
                   THEN /\ ResumeContext(runqueue_peek, context)
                        /\ preempt_frame' = frames
                   ELSE /\ ResumeFrame(runqueue_peek, frames)
                        /\ UNCHANGED context
         ELSE /\ ResumeFrame(current, frames)
              /\ UNCHANGED <<runqueue, state, scheduler_current, context>>

LapicTimer ==
    /\ irq_enabled
    /\ pc \notin Stopped
    /\ IF preempt_enabled /\ scheduler_current # NULL
         THEN x86_64_preempt_handle_timer(scheduler_current,
                 [preempt_frame EXCEPT ![scheduler_current] = LiveFrame])
         ELSE /\ pc' = LiveFrame.at
              /\ UNCHANGED <<state, resume_authority, context, preempt_frame,
                             runqueue, scheduler_current, cpu, local,
                             irq_enabled>>
    /\ UNCHANGED <<wait_queue, ownerVars, preempt_enabled>>

-----------------------------------------------------------------------------

\* Steps the CPU takes once it is inside a kernel operation.
KernelStep ==
    \/ scheduler_start \/ FirstDispatch \/ task_bootstrap_entry
    \/ x86_64_scheduler_dispatch \/ PastNoreturn
    \/ YieldSave \/ YieldCommit \/ YieldTake
    \/ BlockSave \/ BlockCommit \/ BlockEnqueue \/ scheduler_block_current
    \/ WakeSave \/ WakeCommit \/ WakeReady
    \/ ExitSave \/ task_exit \/ lifecycle_publish_terminated_task
    \/ scheduler_exit_current
    \/ ReapSave \/ ReapDetach \/ ReapDestroy
    \/ StopKernel

\* What the entry functions of the tasks choose to do.
TaskCall ==
    \/ Hlt \/ YieldEnter \/ ExitEnter \/ ReapEnter
    \/ \E queue \in Queue : BlockEnter(queue)
    \/ \E task \in Task : WakeEnter(task)

\* cli; hlt loops, and executions the model no longer follows.
Stay == pc \in Stopped /\ UNCHANGED vars

Next == KernelStep \/ TaskCall \/ LapicTimer \/ Stay

Spec == Init /\ [][Next]_vars

\* The CPU never stops inside a kernel operation, and a periodic LAPIC
\* timer interrupt stays latched in the IRR until interrupts are enabled.
Fairness == WF_vars(KernelStep) /\ SF_vars(LapicTimer)

FairSpec == Spec /\ Fairness

-----------------------------------------------------------------------------
(* Properties.                                                              *)

LocalsType ==
    [current : Task \cup {NULL}, arg : Task \cup Queue \cup {NULL},
     irq_flags : BOOLEAN,
     target : [kind : {"NONE", "CONTEXT", "INTERRUPT"}, task : Task \cup {NULL}]]

FrameType ==
    [on : Task \cup {NULL}, at : Label \cup {"none", "first_run", "dead"},
     local : LocalsType]

\* Every variable of the scheduling core keeps the type its C declaration
\* and its users assume (struct task in task.h, the rings, the CPU state).
TypeOK ==
    /\ state \in [Task -> {"NEW", "READY", "RUNNING", "BLOCKED", "TERMINATED"}]
    /\ resume_authority \in [Task -> {"NONE", "CONTEXT", "INTERRUPT"}]
    /\ wait_queue \in [Task -> Queue \cup {NULL}]
    /\ context \in [Task -> {"bootstrap", "scheduler_resume",
                             "interrupt_resume", "dead"}]
    /\ preempt_frame \in [Task -> FrameType]
    /\ stacks \in SUBSET Task
    /\ members \in SUBSET Task
    /\ registered \in SUBSET Task
    /\ runqueue \in Seq(Task)
    /\ waiters \in [Queue -> SUBSET Task]
    /\ pending \in Seq(Task)
    /\ scheduler_current \in Task \cup {NULL}
    /\ preempt_enabled \in BOOLEAN
    /\ cpu \in Task \cup {NULL}
    /\ pc \in Label
    /\ local \in LocalsType
    /\ irq_enabled \in BOOLEAN

\* The run queue holds exactly the READY tasks, each once; a task is BLOCKED
\* exactly when it has a wait queue, and is in that queue and no other.
QueuesMatchStates ==
    /\ NoDuplicates(runqueue)
    /\ Elems(runqueue) = {t \in Task : state[t] = "READY"}
    /\ \A t \in Task : state[t] = "BLOCKED" <=> wait_queue[t] # NULL
    /\ \A t \in Task, q \in Queue : t \in waiters[q] <=> wait_queue[t] = q

\* task.c:635 "No maskable interrupt can observe an intermediate state":
\* whenever interrupts are enabled the scheduler's record of who runs is the
\* stack the CPU is really on, that task alone is RUNNING, and the queues
\* agree with the task states.
NoIntermediateStateVisible ==
    irq_enabled =>
        /\ scheduler_current = cpu
        /\ {t \in Task : state[t] = "RUNNING"} = {cpu}
        /\ QueuesMatchStates

\* A continuation of t that has been saved and not yet resumed, on t's own
\* stack, under the authority recorded for t.
LiveContinuation(t) ==
    \/ /\ resume_authority[t] = "CONTEXT"
       /\ context[t] # "dead"
    \/ /\ resume_authority[t] = "INTERRUPT"
       /\ preempt_frame[t].on = t
       /\ preempt_frame[t].at \in Open \ {"hlt"}

\* task.h:30 resume_authority "identifies the authoritative execution
\* continuation": no popped, foreign or synthetic first-run continuation is
\* ever resumed, and every task waiting for the CPU or for a wake-up has a
\* live one, however yields, blocks and timer preemptions alternate.
AuthorityNamesLiveContinuation ==
    /\ pc # "corrupt"
    /\ irq_enabled => \A t \in Task :
           state[t] \in {"READY", "BLOCKED"} => LiveContinuation(t)

\* task.c:831 and lifecycle.c:81: the reaper never takes the stack the CPU
\* stands on, nor that of a task that may still be resumed.
StacksOutliveExecution ==
    /\ cpu # NULL => cpu \in stacks
    /\ \A t \in Task :
           state[t] \in {"READY", "RUNNING", "BLOCKED"} => t \in stacks

\* Task code always runs with interrupts enabled: every yield, block, wake,
\* reap and dispatch hands the interrupt flag back set, so that a running
\* task can always be preempted.
TaskContextIsInterruptible == pc \in Open => irq_enabled

\* The code's internal-invariant failures (errors after a preflight, a
\* rejected publication, a refused dispatch) never happen: the kernel halts
\* only when the last runnable task exits. A reap fails only where there are
\* several reapers, since lifecycle_reap_one tests the count before it masks
\* interrupts (lifecycle.c:117), and then the reaper itself stops the kernel.
HaltsOnlyWhenNothingIsRunnable ==
    pc = "halted" =>
        \/ state[cpu] = "TERMINATED" /\ runqueue = <<>>
        \/ cpu \in Reaper /\ state[cpu] = "RUNNING" /\ Reaper # {cpu}

\* The pending ring holds each managed task that has terminated and whose
\* stack has not been reclaimed, once: none is leaked, none reaped twice,
\* and each is registered and attached until it is reaped (lifecycle.h:27).
PendingIsWhatIsLeftToReap ==
    irq_enabled =>
        /\ NoDuplicates(pending)
        /\ Elems(pending) =
              {t \in Managed : state[t] = "TERMINATED" /\ t \in stacks}
        /\ registered = stacks
        /\ members = stacks

\* The tasks before t in the run queue.
Ahead(t) == {runqueue[i] : i \in {j \in 1..Len(runqueue) :
                                    \A k \in 1..j : runqueue[k] # t}}

\* runqueue.c:137 FIFO order: while a task stays in the run queue, nobody
\* is put in front of it and nobody behind it leaves before it, whatever
\* mix of yields, wake-ups, exits and preemptions moves the queue.
NoOvertaking ==
    [][\A t \in Elems(runqueue) \cap Elems(runqueue') :
          /\ Ahead(t)' \subseteq Ahead(t)
          /\ Elems(runqueue) \ Ahead(t) \subseteq Elems(runqueue')]_vars

\* task_bootstrap_entry: "A terminated task must never return through its
\* bootstrap stack": control never comes back to a task that terminated.
TerminatedNeverRuns ==
    [][\A t \in Task : state[t] = "TERMINATED" =>
          /\ state'[t] = "TERMINATED"
          /\ cpu' = t => cpu = t /\ pc' \notin Open]_vars

\* dispatch.c:75 "iretq transfers execution to the authoritative interrupt
\* continuation. This execution path does not return here.": no task is ever
\* resumed behind the call of x86_64_context_switch_to_interrupt, which is
\* declared noreturn.
InterruptDispatchDoesNotReturn == pc # "past_noreturn"

\* Every READY task is eventually given the CPU, whatever the running tasks
\* do, because the timer rotates the FIFO queue (scheduler_preempt_current).
NoStarvation ==
    \A t \in Task : state[t] = "READY" ~>
        (state[t] = "RUNNING" \/ pc \in Stopped)
=============================================================================
