------------------------ MODULE SchedulerStepProofs -------------------------
(***************************************************************************)
(* IInv holds initially and is preserved by every step: the entry of an    *)
(* operation, the boot path, scheduler_yield, task_block and task_wake;    *)
(* then the terminal exit path, lifecycle_reap_one, the dispatcher and the *)
(* timer interrupt.  The facts about queues and about handing the CPU over *)
(* that these proofs share come first.                                     *)
(***************************************************************************)
EXTENDS SchedulerInvariant, TLAPS

\* Enqueueing: Append adds one new element to the set a queue holds.
LEMMA AppendElems ==
    ASSUME NEW S, NEW seq \in Seq(S), NEW x \in S
    PROVE  /\ Append(seq, x) \in Seq(S)
           /\ Append(seq, x) # <<>>
           /\ Len(Append(seq, x)) = Len(seq) + 1
           /\ \A y : y \in Elems(Append(seq, x)) <=> y \in Elems(seq) \/ y = x
           /\ seq # <<>> => Head(Append(seq, x)) = Head(seq)
           /\ NoDuplicates(seq) /\ x \notin Elems(seq) =>
                 NoDuplicates(Append(seq, x))
<1>1. Append(seq, x) \in Seq(S) /\ Len(Append(seq, x)) = Len(seq) + 1
  OBVIOUS
<1>2. \A i \in 1..Len(seq) : Append(seq, x)[i] = seq[i]
  OBVIOUS
<1>3. Append(seq, x)[Len(seq) + 1] = x
  OBVIOUS
<1>4. Append(seq, x) # <<>>
  <2>1. Len(<<>>) = 0 /\ Len(seq) \in Nat
    OBVIOUS
  <2> QED
    BY <1>1, <2>1
<1>5. \A y : y \in Elems(Append(seq, x)) <=> y \in Elems(seq) \/ y = x
  BY <1>1, <1>2, <1>3 DEF Elems
<1>6. seq # <<>> => Head(Append(seq, x)) = Head(seq)
  OBVIOUS
<1>7. ASSUME NoDuplicates(seq), x \notin Elems(seq)
      PROVE  NoDuplicates(Append(seq, x))
  BY <1>1, <1>2, <1>3, <1>7 DEF Elems, NoDuplicates
<1> QED
  BY Zenon, <1>1, <1>4, <1>5, <1>6, <1>7

\* Dequeueing: Tail takes exactly the head out of a queue without duplicates.
LEMMA TailElems ==
    ASSUME NEW S, NEW seq \in Seq(S), seq # <<>>, NoDuplicates(seq)
    PROVE  /\ Tail(seq) \in Seq(S)
           /\ Head(seq) \in S
           /\ Head(seq) \in Elems(seq)
           /\ Len(Tail(seq)) = Len(seq) - 1
           /\ \A y : y \in Elems(Tail(seq)) <=> y \in Elems(seq) /\ y # Head(seq)
           /\ NoDuplicates(Tail(seq))
<1>1. /\ Tail(seq) \in Seq(S)
      /\ Len(Tail(seq)) = Len(seq) - 1
      /\ Len(seq) \in Nat \ {0}
      /\ Head(seq) = seq[1]
      /\ Head(seq) \in S
  OBVIOUS
<1>2. \A i \in 1..Len(Tail(seq)) : Tail(seq)[i] = seq[i + 1]
  OBVIOUS
<1>3. Head(seq) \in Elems(seq)
  BY <1>1 DEF Elems
<1>4. NoDuplicates(Tail(seq))
  BY <1>1, <1>2 DEF NoDuplicates
<1>5. ASSUME NEW y, y \in Elems(Tail(seq))
      PROVE  y \in Elems(seq) /\ y # Head(seq)
  <2>1. PICK i \in 1..Len(Tail(seq)) : y = Tail(seq)[i]
    BY Zenon, <1>5 DEF Elems
  <2>2. y = seq[i + 1] /\ i + 1 \in 1..Len(seq) /\ i + 1 # 1
    BY <1>1, <1>2, <2>1
  <2> QED
    BY <1>1, <2>2 DEF Elems, NoDuplicates
<1>6. ASSUME NEW y, y \in Elems(seq), y # Head(seq)
      PROVE  y \in Elems(Tail(seq))
  <2>1. PICK i \in 1..Len(seq) : y = seq[i]
    BY Zenon, <1>6 DEF Elems
  <2>2. i - 1 \in 1..Len(Tail(seq))
    BY <1>1, <1>6, <2>1
  <2>3. Tail(seq)[i - 1] = y
    BY <1>1, <1>2, <2>1, <2>2
  <2> QED
    BY Zenon, <2>2, <2>3 DEF Elems
<1> QED
  BY Zenon, <1>1, <1>3, <1>4, <1>5, <1>6

-----------------------------------------------------------------------------
(* Types of the constant records.                                           *)

\* The types of the records that the steps build.
LEMMA RecordTypes ==
    /\ NoLocals \in LocalsType
    /\ NoFrame \in FrameType
    /\ DeadFrame \in FrameType
    /\ \A t \in Task : FirstRunFrame(t) \in FrameType
<1>1. NoLocals \in LocalsType
  BY Zenon DEF NoLocals, NoTarget, LocalsType
<1> QED
  BY Zenon, <1>1 DEF NoFrame, DeadFrame, FirstRunFrame, FrameType

-----------------------------------------------------------------------------
(* Initial states.                                                          *)

\* The invariant holds when the kernel starts.
LEMMA InitIInv == Init => IInv
<1> SUFFICES ASSUME Init PROVE IInv
  OBVIOUS
<1> USE ConstantsAssumption
<1>1. runqueue \in Seq(Task) /\ NoDuplicates(runqueue)
  BY DEF Init, BootOrders
<1>2. Elems(runqueue) \subseteq Task
  BY <1>1 DEF Elems
<1>3. TypeOK
  <2>1. preempt_frame \in [Task -> FrameType] /\ local \in LocalsType
    BY Zenon, RecordTypes DEF Init
  <2>2. pending \in Seq(Task) /\ waiters \in [Queue -> SUBSET Task]
    BY DEF Init
  <2>3. pc \in Label
    BY Zenon DEF Init, Label, Boot
  <2> QED
    BY Zenon, <1>1, <1>2, <2>1, <2>2, <2>3 DEF Init, TypeOK
<1>4. InvControl
  BY Zenon DEF Init, InvControl, Boot, Open
<1>5. InvRunning
  BY Zenon DEF Init, InvRunning, NobodyRuns
<1>6. InvQueues
  BY Zenon, <1>1, <1>2 DEF Init, InvQueues, BlockedUnqueued
<1>7. InvLocals
  BY Zenon DEF Init, InvLocals, LocalsFit, UsesCurrent, UsesQueue, UsesTask, Critical
<1>8. InvContinuations
  BY Zenon DEF Init, InvContinuations, Resumable, LiveContinuation
<1>9. InvOwners
  <2>1. /\ pending = <<>> /\ cpu = NULL /\ pc = "boot"
        /\ members = registered /\ registered = stacks
        /\ stacks = Elems(runqueue)
    BY Zenon DEF Init
  <2>2. \A t \in Task : state[t] = IF t \in stacks THEN "READY" ELSE "NEW"
    BY Zenon, <2>1 DEF Init
  <2>3. NoDuplicates(pending) /\ Elems(pending) = {}
    <3>1. \A i : i \notin 1..Len(pending)
      BY <2>1
    <3> QED
      BY Zenon, <3>1 DEF NoDuplicates, Elems
  <2> QED
    BY Zenon, <2>1, <2>2, <2>3 DEF InvOwners
<1> QED
  BY Zenon, <1>3, <1>4, <1>5, <1>6, <1>7, <1>8, <1>9 DEF IInv

-----------------------------------------------------------------------------
(* Steps that move the control point and change nothing that is shared.     *)

\* Locations at which the running operation has not changed anything yet.
Settled == Open \cup {"yield_commit", "block_commit", "wake_commit",
                      "exit_commit", "reap_detach"}

\* Entering an operation, masking interrupts, and returning with an error
\* before the first assignment all preserve the invariant.
LEMMA ControlMove ==
    ASSUME IInv,
           UNCHANGED <<taskVars, ownerVars, runqueue, scheduler_current,
                       preempt_enabled, cpu>>,
           pc \in Settled,
           pc' \in Settled \cup {"undefined"},
           irq_enabled' \in BOOLEAN,
           irq_enabled' <=> pc' \in Open \cup {"undefined"},
           local' \in LocalsType,
           LocalsFit(pc', cpu, local'),
           pc' \in Critical => local'.irq_flags
    PROVE  IInv'
<1> USE ConstantsAssumption DEF IInv, taskVars, ownerVars, Settled
<1>1. TypeOK'
  BY Zenon DEF TypeOK, Label, Open, Critical, Stopped
<1>2. InvControl'
  BY Zenon DEF InvControl, Open, Boot
<1>3. InvRunning'
  BY Zenon DEF InvRunning, NobodyRuns, Open
<1>4. InvQueues'
  BY DEF InvQueues, BlockedUnqueued, Elems, NoDuplicates, Open
<1>5. InvLocals'
  BY Zenon DEF InvLocals, LocalsFit, Open
<1>6. InvContinuations'
  BY Zenon DEF InvContinuations, Resumable, LiveContinuation, LocalsFit, Open
<1>7. InvOwners'
  BY DEF InvOwners, NoDuplicates, Elems, Open
<1> QED
  BY Zenon, <1>1, <1>2, <1>3, <1>4, <1>5, <1>6, <1>7

\* Ending in a cli; hlt loop.
LEMMA HaltMove ==
    ASSUME IInv, Halt,
           UNCHANGED <<taskVars, ownerVars, runqueue, scheduler_current,
                       preempt_enabled, cpu>>,
           pc \in {"exit_publish", "exit_take", "failed"}
    PROVE  IInv'
<1> USE ConstantsAssumption DEF IInv, taskVars, ownerVars, Halt
<1>1. TypeOK'
  BY Zenon, RecordTypes DEF TypeOK, Label, Stopped
<1>2. InvControl'
  BY Zenon DEF InvControl, Open, Boot
<1>3. InvRunning'
  BY Zenon DEF InvRunning, NobodyRuns
<1>4. InvQueues'
  BY DEF InvQueues, BlockedUnqueued, Elems, NoDuplicates
<1>5. InvLocals'
  BY Zenon DEF InvLocals, LocalsFit, UsesCurrent, UsesQueue, UsesTask, Critical
<1>6. InvContinuations'
  BY Zenon DEF InvContinuations, Resumable, LiveContinuation, LocalsFit
<1>7. InvOwners'
  BY Zenon DEF InvOwners, NoDuplicates, Elems
<1> QED
  BY Zenon, <1>1, <1>2, <1>3, <1>4, <1>5, <1>6, <1>7

\* The entry of every operation, and its irq_save.
LEMMA EnterOrMask ==
    ASSUME IInv,
           \/ Hlt \/ YieldEnter \/ ExitEnter \/ ReapEnter
           \/ \E queue \in Queue : BlockEnter(queue)
           \/ \E task \in Task : WakeEnter(task)
           \/ YieldSave \/ BlockSave \/ WakeSave \/ ExitSave \/ ReapSave
           \/ PastNoreturn
    PROVE  IInv'
<1> USE ConstantsAssumption DEF IInv
<1>1. TypeOK /\ InvControl /\ InvLocals /\ InvRunning
  OBVIOUS
<1>2. CASE Hlt
  BY Zenon, <1>1, <1>2, ControlMove DEF Hlt, Settled, Open, Boot, Critical, TypeOK, InvControl,
     LocalsFit, UsesCurrent, UsesQueue, UsesTask
<1>3. CASE YieldEnter \/ ExitEnter
  BY ZenonT(60), <1>1, <1>3, ControlMove DEF YieldEnter, ExitEnter, Settled, Open, Boot, Critical,
     TypeOK, LocalsType, InvControl, LocalsFit, UsesCurrent, UsesQueue, UsesTask
<1>4. CASE ReapEnter
  BY Zenon, <1>1, <1>4, ControlMove DEF ReapEnter, Settled, Open, Boot, Critical, TypeOK,
     InvControl, LocalsFit, UsesCurrent, UsesQueue, UsesTask
<1>5. ASSUME NEW queue \in Queue, BlockEnter(queue) PROVE IInv'
  BY Zenon, <1>1, <1>5, ControlMove DEF BlockEnter, Settled, Open, Boot, Critical, TypeOK,
     LocalsType, InvControl, LocalsFit, UsesCurrent, UsesQueue, UsesTask
<1>6. ASSUME NEW task \in Task, WakeEnter(task) PROVE IInv'
  BY Zenon, <1>1, <1>6, ControlMove DEF WakeEnter, Settled, Open, Boot, Critical, TypeOK,
     LocalsType, InvControl, LocalsFit, UsesCurrent, UsesQueue, UsesTask
<1>7. CASE YieldSave \/ BlockSave \/ WakeSave \/ ExitSave \/ ReapSave
  <2>1. /\ pc \in Settled
        /\ pc' \in {"yield_commit", "block_commit", "wake_commit",
                    "exit_commit", "reap_detach"}
        /\ irq_enabled' = FALSE
        /\ local' = [local EXCEPT !.irq_flags = TRUE]
        /\ UNCHANGED <<taskVars, ownerVars, runqueue, scheduler_current,
                       preempt_enabled, cpu>>
    BY Zenon, <1>1, <1>7 DEF YieldSave, BlockSave, WakeSave, ExitSave, ReapSave,
       x86_64_irq_save, Settled, Open, TypeOK, InvControl
  <2>2. local' \in LocalsType /\ local'.irq_flags
    BY Zenon, <1>1, <2>1 DEF TypeOK, LocalsType
  <2>3. LocalsFit(pc', cpu, local')
    BY Zenon, <1>1, <1>7, <2>1 DEF YieldSave, BlockSave, WakeSave, ExitSave, ReapSave,
       x86_64_irq_save, TypeOK, LocalsType, InvLocals, LocalsFit,
       UsesCurrent, UsesQueue, UsesTask
  <2> QED
    BY Zenon, <2>1, <2>2, <2>3, ControlMove DEF Settled, Open
<1>8. CASE PastNoreturn
  BY Zenon, <1>1, <1>8, ControlMove DEF PastNoreturn, Settled, Open, Boot, Critical, TypeOK,
     InvControl, LocalsFit, UsesCurrent, UsesQueue, UsesTask
<1> QED
  BY Zenon, <1>2, <1>3, <1>4, <1>5, <1>6, <1>7, <1>8

\* An operation that gives up before its first assignment.
LEMMA GiveUp ==
    ASSUME IInv, RestoreAndReturn \/ RestoreAndFail,
           UNCHANGED <<taskVars, ownerVars, runqueue, scheduler_current,
                       preempt_enabled, cpu>>,
           pc \in {"yield_commit", "block_commit", "wake_commit", "reap_detach"}
    PROVE  IInv'
<1>1. InvLocals /\ TypeOK
  BY Zenon DEF IInv
<1> QED
  BY Zenon, <1>1, ControlMove, RecordTypes DEF RestoreAndReturn, RestoreAndFail, Settled, Open,
     Critical, InvLocals, LocalsFit, UsesCurrent, UsesQueue, UsesTask

-----------------------------------------------------------------------------
(* Boot.                                                                    *)

\* scheduler_start takes the first task off the run queue.
LEMMA StartStep == ASSUME IInv, scheduler_start PROVE IInv'
<1> USE ConstantsAssumption DEF IInv, scheduler_start, runqueue_peek, ownerVars
<1>1. /\ Head(runqueue) \in Task
      /\ Tail(runqueue) \in Seq(Task)
      /\ NoDuplicates(Tail(runqueue))
      /\ \A t : t \in Elems(Tail(runqueue)) <=>
               t \in Elems(runqueue) /\ t # Head(runqueue)
  BY Zenon, TailElems DEF TypeOK, InvQueues
<1>2. TypeOK'
  BY Zenon, <1>1 DEF TypeOK, Label, Boot
<1>3. InvControl'
  BY Zenon, <1>1 DEF InvControl, Open, Boot
<1>4. InvRunning'
  BY Zenon, <1>1 DEF TypeOK, InvControl, InvRunning, NobodyRuns
<1>5. InvQueues'
  BY <1>1 DEF TypeOK, InvQueues, BlockedUnqueued
<1>6. InvLocals'
  BY Zenon DEF InvLocals, LocalsFit, UsesCurrent, UsesQueue, UsesTask, Critical
<1>7. InvContinuations'
  BY <1>1 DEF TypeOK, InvContinuations, Resumable, LiveContinuation
<1>8. InvOwners'
  BY <1>1 DEF TypeOK, InvOwners, Elems, NoDuplicates
<1> QED
  BY Zenon, <1>2, <1>3, <1>4, <1>5, <1>6, <1>7, <1>8

\* The boot path leaves its stack for the first task's.
LEMMA FirstDispatchStep == ASSUME IInv, FirstDispatch PROVE IInv'
<1> USE ConstantsAssumption DEF IInv, FirstDispatch, ResumeContext, ResumesAt, ownerVars
<1>1. scheduler_current \in Task /\ pc' = "bootstrap"
  BY Zenon DEF TypeOK, InvControl, InvContinuations
<1>2. TypeOK'
  BY Zenon, <1>1, RecordTypes DEF TypeOK, Label, Open
<1>3. InvControl'
  BY Zenon, <1>1 DEF InvControl, Open, Boot
<1>4. InvRunning'
  BY Zenon, <1>1 DEF TypeOK, InvControl, InvRunning, NobodyRuns
<1>5. InvQueues'
  BY Zenon, <1>1 DEF TypeOK, InvQueues, BlockedUnqueued
<1>6. InvLocals'
  BY Zenon, <1>1 DEF InvLocals, LocalsFit, UsesCurrent, UsesQueue, UsesTask, Critical
<1>7. InvContinuations'
  BY <1>1 DEF TypeOK, InvControl, Boot, InvContinuations, Resumable, LiveContinuation
<1>8. InvOwners'
  BY <1>1 DEF TypeOK, InvRunning, NobodyRuns, InvOwners, Elems, NoDuplicates
<1> QED
  BY Zenon, <1>2, <1>3, <1>4, <1>5, <1>6, <1>7, <1>8

\* A new task enables interrupts and runs.
LEMMA BootstrapStep == ASSUME IInv, task_bootstrap_entry PROVE IInv'
<1> USE ConstantsAssumption
<1>1. state[cpu] = "RUNNING" /\ irq_enabled
  BY Zenon DEF IInv, TypeOK, task_bootstrap_entry, InvControl, InvRunning, NobodyRuns, Boot, Open
<1> QED
  BY Zenon, <1>1, ControlMove DEF IInv, task_bootstrap_entry, Settled, Open, Critical,
     TypeOK, InvControl, LocalsFit, UsesCurrent, UsesQueue, UsesTask

-----------------------------------------------------------------------------
(* scheduler_yield.                                                         *)

\* scheduler_yield puts the running task at the tail as READY,
LEMMA YieldCommitStep == ASSUME IInv, YieldCommit PROVE IInv'
<1> USE ConstantsAssumption DEF YieldCommit, ownerVars
<1>1. CASE ~(SuccessorReady /\ CanEnqueue(local.current))
  BY Zenon, <1>1, GiveUp DEF taskVars
<1>2. CASE SuccessorReady /\ CanEnqueue(local.current)
  <2> USE <1>2 DEF IInv, SuccessorReady, CanEnqueue, runqueue_peek,
                   x86_64_scheduler_resolve_target
  <2>1. /\ local.current = cpu
        /\ cpu \in Task
        /\ scheduler_current = cpu
        /\ local.irq_flags
    BY Zenon DEF TypeOK, InvControl, InvLocals, LocalsFit, UsesCurrent, Boot, Critical
  <2>2. /\ Head(runqueue) \in Task
        /\ Head(runqueue) \in Elems(runqueue)
        /\ Head(runqueue) # cpu
    BY <2>1, TailElems DEF TypeOK, InvQueues
  <2>3. /\ runqueue' \in Seq(Task)
        /\ runqueue' # <<>>
        /\ Head(runqueue') = Head(runqueue)
        /\ NoDuplicates(runqueue')
        /\ \A t : t \in Elems(runqueue') <=> t \in Elems(runqueue) \/ t = cpu
    <3>1. runqueue \in Seq(Task) /\ runqueue # <<>> /\ NoDuplicates(runqueue)
      BY Zenon DEF TypeOK, InvQueues
    <3>2. runqueue' = Append(runqueue, cpu) /\ cpu \notin Elems(runqueue)
      BY Zenon, <2>1
    <3> HIDE <1>2 DEF IInv, YieldCommit
    <3> QED
      BY <2>1, <3>1, <3>2, AppendElems
  <2>4. local' \in LocalsType
    BY <2>2 DEF TypeOK, LocalsType
  <2>5. TypeOK'
    BY Zenon, <2>1, <2>3, <2>4 DEF TypeOK, Label, Critical
  <2>6. InvControl'
    BY Zenon DEF InvControl, Open, Boot
  <2>7. InvRunning'
    BY <2>1 DEF TypeOK, InvRunning, NobodyRuns
  <2>8. InvQueues'
    <3>1. /\ pc' = "yield_take"
          /\ state[cpu] = "RUNNING"
          /\ \A t \in Task : state'[t] = IF t = cpu THEN "READY" ELSE state[t]
          /\ UNCHANGED <<waiters, wait_queue>>
      BY Zenon, <2>1 DEF TypeOK, InvRunning, NobodyRuns
    <3>2. pc = "yield_commit" /\ InvQueues
      OBVIOUS
    <3> HIDE <1>2 DEF IInv, YieldCommit
    <3> QED
      BY <2>1, <2>3, <3>1, <3>2 DEF InvQueues, BlockedUnqueued
  <2>9. InvLocals'
    <3>1. /\ local'.current = cpu
          /\ local'.irq_flags
          /\ local'.target = [kind |-> resume_authority[Head(runqueue)],
                              task |-> Head(runqueue)]
      BY ZenonT(60), <2>1 DEF TypeOK, LocalsType
    <3> QED
      BY Zenon, <2>2, <2>3, <3>1 DEF InvLocals, LocalsFit, UsesCurrent, UsesQueue,
         UsesTask
  <2>10. InvContinuations'
    BY <2>1 DEF TypeOK, InvContinuations, Resumable, LiveContinuation
  <2>11. InvOwners'
    BY <2>1 DEF TypeOK, InvOwners, Elems, NoDuplicates, InvRunning, NobodyRuns
  <2> QED
    BY Zenon, <2>5, <2>6, <2>7, <2>8, <2>9, <2>10, <2>11
<1> QED
  BY Zenon, <1>1, <1>2

-----------------------------------------------------------------------------
(* Handing the CPU over: the common end of yield, block and exit.           *)

\* Handing the CPU to the head of the run queue.
LEMMA HandOver ==
    ASSUME IInv,
           pc \in {"yield_take", "block_take", "exit_take"},
           runqueue # <<>>,
           CommitSuccessor(runqueue, state),
           resume_authority' =
               IF pc = "yield_take"
                 THEN [resume_authority EXCEPT ![cpu] = "CONTEXT"]
                 ELSE resume_authority,
           local' \in LocalsType,
           local'.current = cpu,
           local'.irq_flags,
           local'.target = [kind |-> resume_authority[Head(runqueue)],
                            task |-> Head(runqueue)],
           UNCHANGED <<irq_enabled, wait_queue, context, preempt_frame,
                       ownerVars, preempt_enabled, cpu>>
    PROVE  IInv'
<1> USE ConstantsAssumption DEF IInv, CommitSuccessor, ownerVars
<1>1. cpu \in Task /\ scheduler_current = cpu /\ ~irq_enabled
  BY Zenon DEF TypeOK, InvControl, Boot, Open
<1>2. /\ Head(runqueue) \in Task
      /\ Head(runqueue) \in Elems(runqueue)
      /\ Tail(runqueue) \in Seq(Task)
      /\ NoDuplicates(Tail(runqueue))
      /\ \A t : t \in Elems(Tail(runqueue)) <=>
               t \in Elems(runqueue) /\ t # Head(runqueue)
  BY Zenon, TailElems DEF TypeOK, InvQueues
<1>3. state[Head(runqueue)] = "READY" /\ Head(runqueue) # cpu
  BY Zenon, <1>2 DEF InvQueues, InvLocals, InvRunning
<1>4. TypeOK'
  BY Zenon, <1>1, <1>2 DEF TypeOK, Label, Critical
<1>5. InvControl'
  BY Zenon, <1>1, <1>2 DEF InvControl, Open, Boot
<1>6. InvRunning'
  BY Zenon, <1>1, <1>2, <1>3 DEF TypeOK, InvRunning, NobodyRuns
<1>7. InvQueues'
  BY <1>2, <1>3 DEF TypeOK, InvQueues, BlockedUnqueued
<1>8. InvLocals'
  BY Zenon, <1>1, <1>2, <1>3 DEF TypeOK, InvLocals, LocalsFit, UsesCurrent, UsesQueue,
     UsesTask, x86_64_scheduler_resolve_target
<1>9. InvContinuations'
  BY SMTT(30), <1>1, <1>2, <1>3 DEF TypeOK, InvContinuations, InvRunning, Resumable,
     LiveContinuation, LocalsFit
<1>10. InvOwners'
  BY <1>1, <1>2, <1>3 DEF TypeOK, InvOwners, Elems, NoDuplicates
<1> QED
  BY Zenon, <1>4, <1>5, <1>6, <1>7, <1>8, <1>9, <1>10

\* and hands the CPU to the head.
LEMMA YieldTakeStep == ASSUME IInv, YieldTake PROVE IInv'
<1>1. TypeOK /\ InvControl /\ InvQueues /\ InvLocals
  BY Zenon DEF IInv
<1>2. /\ pc = "yield_take"
      /\ runqueue # <<>>
      /\ local.current = cpu
      /\ local.irq_flags
      /\ local.target = [kind |-> resume_authority[Head(runqueue)],
                         task |-> Head(runqueue)]
  BY Zenon, <1>1 DEF YieldTake, InvLocals, LocalsFit, UsesCurrent, Critical,
     x86_64_scheduler_resolve_target
<1>3. state[Head(runqueue)] = "READY"
  BY Zenon, <1>1, <1>2, TailElems DEF TypeOK, InvQueues
<1> QED
  BY Zenon, <1>1, <1>2, <1>3, HandOver DEF YieldTake, runqueue_peek, TypeOK

-----------------------------------------------------------------------------
(* task_block and scheduler_block_current.                                  *)

\* task_block marks the task BLOCKED,
LEMMA BlockCommitStep == ASSUME IInv, BlockCommit PROVE IInv'
<1> USE ConstantsAssumption DEF BlockCommit, ownerVars
<1>1. CASE UNCHANGED state
  <2>1. RestoreAndReturn
    BY SMTT(30), <1>1 DEF IInv, TypeOK, InvControl, InvRunning, InvLocals, LocalsFit,
       UsesCurrent, NobodyRuns, Boot
  <2> QED
    BY Zenon, <1>1, <2>1, GiveUp DEF taskVars
<1>2. CASE state' # state
  <2> USE <1>2 DEF IInv
  <2>1. /\ pc = "block_commit"
        /\ pc' = "block_enqueue"
        /\ local.current = cpu
        /\ cpu \in Task
        /\ scheduler_current = cpu
        /\ state[cpu] = "RUNNING"
        /\ wait_queue[cpu] = NULL
        /\ state' = [state EXCEPT ![cpu] = "BLOCKED"]
        /\ UNCHANGED <<local, irq_enabled>>
    BY Zenon DEF TypeOK, InvControl, InvRunning, InvLocals, LocalsFit, InvQueues,
       UsesCurrent, NobodyRuns, Boot
  <2>2. TypeOK'
    BY Zenon, <2>1 DEF TypeOK, Label, Critical
  <2>3. InvControl'
    BY Zenon, <2>1 DEF InvControl, Open, Boot
  <2>4. InvRunning'
    BY Zenon, <2>1 DEF TypeOK, InvRunning, NobodyRuns
  <2>5. InvQueues'
    BY <2>1 DEF TypeOK, InvQueues, BlockedUnqueued, NoDuplicates, Elems
  <2>6. InvLocals'
    BY Zenon, <2>1 DEF InvLocals, LocalsFit, UsesCurrent, UsesQueue, UsesTask, Critical
  <2>7. InvContinuations'
    BY <2>1 DEF TypeOK, InvContinuations, Resumable, LiveContinuation, LocalsFit
  <2>8. InvOwners'
    BY <2>1 DEF TypeOK, InvOwners, Elems, NoDuplicates
  <2> QED
    BY Zenon, <2>2, <2>3, <2>4, <2>5, <2>6, <2>7, <2>8
<1> QED
  BY Zenon, <1>1, <1>2

\* enters it into the wait queue,
LEMMA BlockEnqueueStep == ASSUME IInv, BlockEnqueue PROVE IInv'
<1> USE ConstantsAssumption DEF IInv
<1>1. /\ pc = "block_enqueue"
      /\ local.current = cpu
      /\ cpu \in Task
      /\ local.arg \in Queue
      /\ local.arg # NULL
      /\ state[cpu] = "BLOCKED"
      /\ wait_queue[cpu] = NULL
      /\ cpu \notin waiters[local.arg]
      /\ Cardinality(waiters[local.arg]) < WAIT_QUEUE_MAX_TASKS
  BY SMTT(30) DEF BlockEnqueue, TypeOK, InvControl, InvRunning, InvLocals, LocalsFit,
     InvQueues, UsesCurrent, UsesQueue, Boot
<1>2. /\ pc' = "block_take"
      /\ waiters' = [waiters EXCEPT ![local.arg] = @ \cup {cpu}]
      /\ wait_queue' = [wait_queue EXCEPT ![cpu] = local.arg]
      /\ resume_authority' = [resume_authority EXCEPT ![cpu] = "CONTEXT"]
      /\ UNCHANGED <<local, irq_enabled, state, context, preempt_frame, stacks,
                     members, registered, pending, runqueue, scheduler_current,
                     preempt_enabled, cpu>>
  BY Zenon, <1>1 DEF BlockEnqueue
<1>3. TypeOK'
  BY <1>1, <1>2 DEF TypeOK, Label, Critical
<1>4. InvControl'
  BY Zenon, <1>1, <1>2 DEF InvControl, Open, Boot
<1>5. InvRunning'
  BY Zenon, <1>1, <1>2 DEF InvRunning, NobodyRuns
<1>6. InvQueues'
  BY SMTT(30), <1>1, <1>2 DEF TypeOK, InvQueues, BlockedUnqueued, NoDuplicates, Elems
<1>7. InvLocals'
  BY Zenon, <1>1, <1>2 DEF InvLocals, LocalsFit, UsesCurrent, UsesQueue, UsesTask, Critical
<1>8. InvContinuations'
  BY SMTT(30), <1>1, <1>2 DEF TypeOK, InvContinuations, Resumable, LiveContinuation, LocalsFit
<1>9. InvOwners'
  <2>1. /\ pc = "block_enqueue" /\ pc' = "block_take"
        /\ UNCHANGED <<state, stacks, members, registered, pending, cpu>>
    BY Zenon, <1>1, <1>2
  <2> QED
    BY Zenon, <2>1 DEF InvOwners
<1> QED
  BY Zenon, <1>3, <1>4, <1>5, <1>6, <1>7, <1>8, <1>9

\* A non-empty run queue has a successor that can be handed the CPU.
LEMMA HeadIsReady ==
    ASSUME IInv, runqueue # <<>>, cpu \in Task, state[cpu] # "READY"
    PROVE  SuccessorReady
<1>1. Head(runqueue) \in Task /\ state[Head(runqueue)] = "READY"
  BY Zenon, TailElems DEF IInv, TypeOK, InvQueues
<1>2. LiveContinuation(Head(runqueue))
  BY Zenon, <1>1 DEF IInv, InvContinuations, Resumable
<1> QED
  BY Zenon, <1>1, <1>2 DEF SuccessorReady, Resolvable, runqueue_peek, LiveContinuation,
     x86_64_preempt_state_is_valid, Open

\* and hands the CPU to the head of the run queue.
LEMMA BlockTakeStep == ASSUME IInv, scheduler_block_current PROVE IInv'
<1>1. TypeOK /\ InvControl /\ InvQueues /\ InvLocals /\ InvRunning
  BY Zenon DEF IInv
<1>2. /\ pc = "block_take"
      /\ cpu \in Task
      /\ scheduler_current = cpu
      /\ local.current = cpu
      /\ local.irq_flags
      /\ ~irq_enabled
      /\ state[cpu] = "BLOCKED"
      /\ runqueue # <<>>
  BY Zenon, <1>1 DEF scheduler_block_current, TypeOK, InvControl, InvQueues, InvLocals,
     InvRunning, LocalsFit, UsesCurrent, Critical, Boot, Open
<1>3. SuccessorReady
  BY Zenon, <1>2, HeadIsReady
<1>4. Head(runqueue) \in Task
  BY Zenon, <1>1, <1>2, TailElems DEF TypeOK, InvQueues
<1>5. /\ local' = [local EXCEPT !.target = [kind |-> resume_authority[Head(runqueue)],
                                            task |-> Head(runqueue)]]
      /\ CommitSuccessor(runqueue, state)
      /\ UNCHANGED <<irq_enabled, resume_authority, wait_queue, context,
                     preempt_frame, ownerVars, preempt_enabled, cpu>>
  BY Zenon, <1>2, <1>3 DEF scheduler_block_current, x86_64_scheduler_resolve_target,
     runqueue_peek
<1>6. /\ local' \in LocalsType
      /\ local'.current = cpu
      /\ local'.irq_flags
      /\ local'.target = [kind |-> resume_authority[Head(runqueue)],
                          task |-> Head(runqueue)]
  BY Zenon, <1>1, <1>2, <1>4, <1>5 DEF TypeOK, LocalsType
<1> QED
  BY Zenon, <1>2, <1>5, <1>6, HandOver

-----------------------------------------------------------------------------
(* task_wake.                                                               *)

\* task_wake takes the task off its wait queue,
LEMMA WakeCommitStep == ASSUME IInv, WakeCommit PROVE IInv'
<1> USE ConstantsAssumption DEF WakeCommit
<1>1. CASE ~(/\ state[local.arg] = "BLOCKED"
             /\ wait_queue[local.arg] # NULL
             /\ local.arg \in waiters[wait_queue[local.arg]]
             /\ CanEnqueue(local.arg))
  BY Zenon, <1>1, GiveUp DEF taskVars, ownerVars
<1>2. CASE /\ state[local.arg] = "BLOCKED"
           /\ wait_queue[local.arg] # NULL
           /\ local.arg \in waiters[wait_queue[local.arg]]
           /\ CanEnqueue(local.arg)
  <2> USE <1>2 DEF IInv
  <2>1. /\ pc = "wake_commit"
        /\ local.arg \in Task
        /\ wait_queue[local.arg] \in Queue
        /\ cpu \in Task
        /\ state[cpu] = "RUNNING"
        /\ local.arg # cpu
    BY Zenon DEF TypeOK, InvControl, InvRunning, InvLocals, LocalsFit, UsesTask,
       NobodyRuns, Boot
  <2>2. /\ waiters' = [waiters EXCEPT ![wait_queue[local.arg]] = @ \ {local.arg}]
        /\ wait_queue' = [wait_queue EXCEPT ![local.arg] = NULL]
        /\ pc' = "wake_ready"
        /\ UNCHANGED <<local, irq_enabled, state, resume_authority, context,
                       preempt_frame, stacks, members, registered, pending,
                       runqueue, scheduler_current, preempt_enabled, cpu>>
    OBVIOUS
  <2>3. Len(runqueue) < TASK_MAX_TASKS
    BY Zenon DEF CanEnqueue
  <2> HIDE DEF WakeCommit
  <2>4. TypeOK'
    BY Zenon, <2>1, <2>2 DEF TypeOK, Label, Critical
  <2>5. InvControl'
    BY Zenon, <2>1, <2>2 DEF InvControl, Open, Boot
  <2>6. InvRunning'
    BY Zenon, <2>1, <2>2 DEF InvRunning, NobodyRuns
  <2>7. InvQueues'
    BY <2>1, <2>2, <2>3 DEF TypeOK, InvQueues, BlockedUnqueued, NoDuplicates, Elems
  <2>8. InvLocals'
    BY Zenon, <2>1, <2>2 DEF InvLocals, LocalsFit, UsesCurrent, UsesQueue, UsesTask, Critical
  <2>9. InvContinuations'
    BY Zenon, <2>1, <2>2 DEF InvContinuations, Resumable, LiveContinuation, LocalsFit
  <2>10. InvOwners'
    BY SMTT(30), <2>1, <2>2 DEF InvOwners, Elems, NoDuplicates
  <2> QED
    BY Zenon, <2>4, <2>5, <2>6, <2>7, <2>8, <2>9, <2>10
<1> QED
  BY Zenon, <1>1, <1>2

\* and makes it READY at the tail of the run queue.
LEMMA WakeReadyStep == ASSUME IInv, WakeReady PROVE IInv'
<1> USE ConstantsAssumption DEF IInv
<1>1. /\ pc = "wake_ready"
      /\ local.arg \in Task
      /\ local.irq_flags
      /\ state[local.arg] = "BLOCKED"
      /\ wait_queue[local.arg] = NULL
      /\ local.arg \notin Elems(runqueue)
      /\ Len(runqueue) < TASK_MAX_TASKS
      /\ cpu \in Task
      /\ scheduler_current = cpu
      /\ state[cpu] = "RUNNING"
  BY Zenon DEF WakeReady, TypeOK, InvControl, InvRunning, InvLocals, InvQueues,
     LocalsFit, UsesTask, Critical, NobodyRuns, Boot
<1>2. /\ state' = [state EXCEPT ![local.arg] = "READY"]
      /\ runqueue' = Append(runqueue, local.arg)
      /\ irq_enabled' = TRUE
      /\ local' = NoLocals
      /\ pc' = "run"
      /\ UNCHANGED <<resume_authority, wait_queue, context, preempt_frame,
                     ownerVars, scheduler_current, preempt_enabled, cpu>>
  BY Zenon, <1>1 DEF WakeReady, CanEnqueue, RestoreAndReturn, TypeOK, LocalsType
<1>3. /\ runqueue' \in Seq(Task)
      /\ NoDuplicates(runqueue')
      /\ \A t : t \in Elems(runqueue') <=> t \in Elems(runqueue) \/ t = local.arg
  <2>1. runqueue \in Seq(Task) /\ NoDuplicates(runqueue)
    BY Zenon DEF TypeOK, InvQueues
  <2> HIDE DEF IInv
  <2>2. local.arg \in Task /\ local.arg \notin Elems(runqueue)
    BY Zenon, <1>1
  <2>3. runqueue' = Append(runqueue, local.arg)
    BY Zenon, <1>2
  <2> QED
    BY <2>1, <2>2, <2>3, AppendElems
<1>4. TypeOK'
  BY Zenon, <1>1, <1>2, <1>3, RecordTypes DEF TypeOK, Label, Open, ownerVars
<1>5. InvControl'
  BY Zenon, <1>1, <1>2 DEF InvControl, Open, Boot
<1>6. InvRunning'
  BY Zenon, <1>1, <1>2 DEF TypeOK, InvRunning, NobodyRuns
<1>7. InvQueues'
  BY <1>1, <1>2, <1>3 DEF TypeOK, InvQueues, BlockedUnqueued, ownerVars
<1>8. InvLocals'
  BY Zenon, <1>1, <1>2 DEF InvLocals, LocalsFit, UsesCurrent, UsesQueue, UsesTask, Critical
<1>9. InvContinuations'
  BY SMTT(30), <1>1, <1>2 DEF TypeOK, InvContinuations, Resumable, LiveContinuation, LocalsFit
<1>10. InvOwners'
  BY SMTT(30), <1>1, <1>2 DEF TypeOK, InvOwners, Elems, NoDuplicates, ownerVars
<1> QED
  BY Zenon, <1>4, <1>5, <1>6, <1>7, <1>8, <1>9, <1>10

-----------------------------------------------------------------------------

(* task_exit, lifecycle_publish_terminated_task, scheduler_exit_current.    *)

\* task_exit marks the task TERMINATED,
LEMMA ExitCommitStep == ASSUME IInv, task_exit PROVE IInv'
<1> USE ConstantsAssumption DEF IInv
<1>1. /\ pc = "exit_commit"
      /\ local.current = cpu
      /\ cpu \in Task
      /\ scheduler_current = cpu
      /\ state[cpu] = "RUNNING"
      /\ wait_queue[cpu] = NULL
  BY Zenon DEF task_exit, TypeOK, InvControl, InvRunning, InvLocals, InvQueues,
     LocalsFit, UsesCurrent, NobodyRuns, Boot
<1>2. /\ state' = [state EXCEPT ![cpu] = "TERMINATED"]
      /\ resume_authority' = [resume_authority EXCEPT ![cpu] = "NONE"]
      /\ pc' \in {"exit_publish", "exit_take"}
      /\ pc' = "exit_publish" <=> cpu \in Managed
      /\ UNCHANGED <<local, irq_enabled, wait_queue, context, preempt_frame,
                     ownerVars, runqueue, scheduler_current, preempt_enabled, cpu>>
  BY Zenon, <1>1 DEF task_exit
<1>3. TypeOK'
  BY Zenon, <1>1, <1>2 DEF TypeOK, Label, Critical, ownerVars
<1>4. InvControl'
  BY Zenon, <1>1, <1>2 DEF InvControl, Open, Boot
<1>5. InvRunning'
  BY Zenon, <1>1, <1>2 DEF TypeOK, InvRunning, NobodyRuns
<1>6. InvQueues'
  BY <1>1, <1>2 DEF TypeOK, InvQueues, BlockedUnqueued, NoDuplicates, Elems, ownerVars
<1>7. InvLocals'
  BY Zenon, <1>1, <1>2 DEF InvLocals, LocalsFit, UsesCurrent, UsesQueue, UsesTask, Critical
<1>8. InvContinuations'
  BY <1>1, <1>2 DEF TypeOK, InvContinuations, Resumable, LiveContinuation, LocalsFit
<1>9. InvOwners'
  BY <1>1, <1>2 DEF TypeOK, InvOwners, Elems, NoDuplicates, ownerVars
<1> QED
  BY Zenon, <1>3, <1>4, <1>5, <1>6, <1>7, <1>8, <1>9

\* publishes it to the reaper,
LEMMA PublishStep == ASSUME IInv, lifecycle_publish_terminated_task PROVE IInv'
<1> USE ConstantsAssumption
<1>1. CASE Halt /\ UNCHANGED pending
  BY Zenon, <1>1, HaltMove DEF lifecycle_publish_terminated_task, ownerVars
<1>2. CASE ~(Halt /\ UNCHANGED pending)
  <2> USE DEF IInv
  <2>1. /\ pc = "exit_publish"
        /\ local.current = cpu
        /\ cpu \in Task
        /\ state[cpu] = "TERMINATED"
    BY Zenon DEF lifecycle_publish_terminated_task, TypeOK, InvControl, InvRunning,
       InvLocals, LocalsFit, UsesCurrent, Boot
  <2>2. /\ cpu \notin Elems(pending)
        /\ pending' = Append(pending, cpu)
        /\ pc' = "exit_take"
        /\ UNCHANGED <<local, irq_enabled, taskVars, stacks, members, registered,
                       waiters, runqueue, scheduler_current, preempt_enabled, cpu>>
    BY Zenon, <1>2, <2>1 DEF lifecycle_publish_terminated_task
  <2>3. /\ pending' \in Seq(Task)
        /\ NoDuplicates(pending')
        /\ \A t : t \in Elems(pending') <=> t \in Elems(pending) \/ t = cpu
    <3>1. pending \in Seq(Task) /\ NoDuplicates(pending)
      BY Zenon DEF TypeOK, InvOwners
    <3> HIDE DEF IInv
    <3> QED
      BY <2>1, <2>2, <3>1, AppendElems
  <2>4. cpu \in Managed
    BY Zenon, <2>1 DEF InvOwners
  <2>5. TypeOK'
    BY Zenon, <2>1, <2>2, <2>3 DEF TypeOK, Label, Critical, taskVars
  <2>6. InvControl'
    BY Zenon, <2>1, <2>2 DEF InvControl, Open, Boot
  <2>7. InvRunning'
    BY Zenon, <2>1, <2>2 DEF InvRunning, NobodyRuns, taskVars
  <2>8. InvQueues'
    BY <2>1, <2>2 DEF InvQueues, BlockedUnqueued, NoDuplicates, Elems, taskVars
  <2>9. InvLocals'
    BY Zenon, <2>1, <2>2 DEF InvLocals, LocalsFit, UsesCurrent, UsesQueue, UsesTask, Critical
  <2>10. InvContinuations'
    BY Zenon, <2>1, <2>2 DEF InvContinuations, Resumable, LiveContinuation, LocalsFit, taskVars
  <2>11. InvOwners'
    BY Zenon, <2>1, <2>2, <2>3, <2>4 DEF InvOwners, taskVars
  <2> QED
    BY Zenon, <2>5, <2>6, <2>7, <2>8, <2>9, <2>10, <2>11
<1> QED
  BY Zenon, <1>1, <1>2

\* and leaves its stack for good, or halts when nothing is runnable.
LEMMA ExitTakeStep == ASSUME IInv, scheduler_exit_current PROVE IInv'
<1>1. TypeOK /\ InvControl /\ InvQueues /\ InvLocals /\ InvRunning
  BY Zenon DEF IInv
<1>2. /\ pc = "exit_take"
      /\ cpu \in Task
      /\ scheduler_current = cpu
      /\ local.current = cpu
      /\ local.irq_flags
      /\ ~irq_enabled
      /\ state[cpu] = "TERMINATED"
  BY Zenon, <1>1, ConstantsAssumption DEF scheduler_exit_current, TypeOK, InvControl,
     InvLocals, InvRunning, LocalsFit, UsesCurrent, Critical, Boot, Open
<1>3. CASE runqueue = <<>>
  <2>1. /\ Halt
        /\ UNCHANGED <<taskVars, ownerVars, runqueue, scheduler_current,
                       preempt_enabled, cpu>>
    BY Zenon, <1>2, <1>3 DEF scheduler_exit_current, SuccessorReady, taskVars
  <2> QED
    BY Zenon, <1>2, <2>1, HaltMove
<1>4. CASE runqueue # <<>>
  <2>1. SuccessorReady
    BY Zenon, <1>2, <1>4, HeadIsReady
  <2>2. /\ local' = [local EXCEPT !.target = [kind |-> resume_authority[Head(runqueue)],
                                              task |-> Head(runqueue)]]
        /\ CommitSuccessor(runqueue, state)
        /\ UNCHANGED <<irq_enabled, resume_authority, wait_queue, context,
                       preempt_frame, ownerVars, preempt_enabled, cpu>>
    BY Zenon, <1>2, <1>4, <2>1 DEF scheduler_exit_current,
       x86_64_scheduler_resolve_target, runqueue_peek
  <2>3. Head(runqueue) \in Task
    BY Zenon, <1>1, <1>4, TailElems DEF TypeOK, InvQueues
  <2>4. /\ local' \in LocalsType
        /\ local'.current = cpu
        /\ local'.irq_flags
        /\ local'.target = [kind |-> resume_authority[Head(runqueue)],
                            task |-> Head(runqueue)]
    BY Zenon, <1>1, <1>2, <2>2, <2>3 DEF TypeOK, LocalsType
  <2> QED
    BY Zenon, <1>2, <1>4, <2>2, <2>4, HandOver
<1> QED
  BY Zenon, <1>3, <1>4

-----------------------------------------------------------------------------
(* lifecycle_reap_one.                                                      *)

\* lifecycle_reap_one detaches and unregisters the head of the ring,
LEMMA ReapDetachStep == ASSUME IInv, ReapDetach PROVE IInv'
<1> USE ConstantsAssumption
<1>1. CASE RestoreAndFail /\ UNCHANGED <<members, registered>>
  BY Zenon, <1>1, GiveUp DEF ReapDetach, ownerVars
<1>2. CASE ~(RestoreAndFail /\ UNCHANGED <<members, registered>>)
  <2> USE DEF IInv
  <2>1. /\ pc = "reap_detach"
        /\ pending # <<>>
        /\ resume_authority[Head(pending)] = "NONE"
        /\ members' = members \ {Head(pending)}
        /\ registered' = registered \ {Head(pending)}
        /\ pc' = "reap_destroy"
        /\ UNCHANGED <<local, irq_enabled, taskVars, stacks, waiters, pending,
                       runqueue, scheduler_current, preempt_enabled, cpu>>
    BY Zenon, <1>2 DEF ReapDetach
  <2>2. TypeOK'
    BY Zenon, <2>1 DEF TypeOK, Label, Critical, taskVars
  <2>3. InvControl'
    BY Zenon, <2>1 DEF InvControl, Open, Boot
  <2>4. InvRunning'
    BY Zenon, <2>1 DEF InvRunning, NobodyRuns, taskVars
  <2>5. InvQueues'
    BY <2>1 DEF InvQueues, BlockedUnqueued, NoDuplicates, Elems, taskVars
  <2>6. InvLocals'
    BY Zenon, <2>1 DEF InvLocals, LocalsFit, UsesCurrent, UsesQueue, UsesTask, Critical
  <2>7. InvContinuations'
    BY Zenon, <2>1 DEF InvContinuations, Resumable, LiveContinuation, LocalsFit, taskVars
  <2>8. InvOwners'
    BY <2>1 DEF InvOwners, NoDuplicates, Elems, taskVars
  <2> QED
    BY Zenon, <2>2, <2>3, <2>4, <2>5, <2>6, <2>7, <2>8
<1> QED
  BY Zenon, <1>1, <1>2

\* and destroys it, stack included.
LEMMA ReapDestroyStep == ASSUME IInv, ReapDestroy PROVE IInv'
<1> USE ConstantsAssumption DEF IInv
<1> DEFINE task == Head(pending)
<1>1. /\ pc = "reap_destroy"
      /\ pending # <<>>
      /\ local.irq_flags
      /\ cpu \in Task
      /\ scheduler_current = cpu
      /\ state[cpu] = "RUNNING"
  BY Zenon DEF ReapDestroy, InvOwners, InvLocals, Critical, TypeOK, InvControl, Boot,
     InvRunning, NobodyRuns
<1>2. /\ task \in Task
      /\ task \in Elems(pending)
      /\ Tail(pending) \in Seq(Task)
      /\ NoDuplicates(Tail(pending))
      /\ \A t : t \in Elems(Tail(pending)) <=> t \in Elems(pending) /\ t # task
  <2>1. pending \in Seq(Task) /\ NoDuplicates(pending)
    BY Zenon DEF TypeOK, InvOwners
  <2> HIDE DEF IInv
  <2> QED
    BY Zenon, <1>1, <2>1, TailElems
<1>3. /\ state[task] = "TERMINATED"
      /\ task # cpu
      /\ wait_queue[task] = NULL
      /\ resume_authority[task] # "INTERRUPT"
      /\ task \notin members \cup registered \cup Elems(runqueue)
      /\ task \in stacks
  BY Zenon, <1>1, <1>2 DEF InvOwners, InvQueues
<1>4. /\ stacks' = stacks \ {task}
      /\ state' = [state EXCEPT ![task] = "TERMINATED"]
      /\ resume_authority' = [resume_authority EXCEPT ![task] = "NONE"]
      /\ preempt_frame' = [preempt_frame EXCEPT ![task] = NoFrame]
      /\ pending' = Tail(pending)
      /\ irq_enabled' = TRUE
      /\ local' = NoLocals
      /\ pc' = "run"
      /\ UNCHANGED <<wait_queue, context, members, registered, waiters, runqueue,
                     scheduler_current, preempt_enabled, cpu>>
  BY Zenon, <1>1, <1>3 DEF ReapDestroy, RestoreAndReturn, TypeOK, LocalsType
<1>5. state' = state
  BY Zenon, <1>2, <1>3, <1>4 DEF TypeOK
<1> HIDE DEF task
<1>6. TypeOK'
  BY Zenon, <1>2, <1>4, RecordTypes DEF TypeOK, Label, Open
<1>7. InvControl'
  BY Zenon, <1>1, <1>4 DEF InvControl, Open, Boot
<1>8. InvRunning'
  BY Zenon, <1>1, <1>4, <1>5 DEF InvRunning, NobodyRuns
<1>9. InvQueues'
  BY <1>1, <1>4, <1>5 DEF InvQueues, BlockedUnqueued, NoDuplicates, Elems
<1>10. InvLocals'
  BY Zenon, <1>4 DEF InvLocals, LocalsFit, UsesCurrent, UsesQueue, UsesTask, Critical
<1>11. InvContinuations'
  BY SMTT(30), <1>1, <1>2, <1>3, <1>4, <1>5 DEF TypeOK, InvContinuations, Resumable,
     LiveContinuation, LocalsFit
<1>12. InvOwners'
  BY Zenon, <1>1, <1>2, <1>3, <1>4, <1>5 DEF InvOwners, task
<1> QED
  BY Zenon, <1>6, <1>7, <1>8, <1>9, <1>10, <1>11, <1>12

\* A failed check stops the kernel.
LEMMA StopStep == ASSUME IInv, StopKernel PROVE IInv'
BY Zenon, HaltMove DEF StopKernel

-----------------------------------------------------------------------------
(* Resuming a continuation, from a dispatch or from the timer.              *)

\* Locations a resumed task can be at.
Resumed == Open \ {"hlt"}

\* A resumable task t, READY or already RUNNING, resumes on its own stack at
\* a location of task context, with the locals that location needs.
LEMMA ResumePoint ==
    ASSUME NEW t \in Task, IInv, Resumable(t),
           NEW saved, saved[t] = context[t],
           NEW frames, frames[t] = preempt_frame[t],
           \/ resume_authority[t] = "CONTEXT" /\ ResumeContext(t, saved)
           \/ resume_authority[t] = "INTERRUPT" /\ ResumeFrame(t, frames)
    PROVE  /\ cpu' = t
           /\ pc' \in Resumed
           /\ irq_enabled' = TRUE
           /\ local' \in LocalsType
           /\ LocalsFit(pc', t, local')
<1>1. TypeOK
  BY Zenon DEF IInv
<1>2. CASE resume_authority[t] = "CONTEXT" /\ ResumeContext(t, saved)
  <2>1. context[t] \in {"bootstrap", "scheduler_resume", "interrupt_resume"}
    BY Zenon, <1>1, <1>2 DEF TypeOK, Resumable, LiveContinuation
  <2>2. pc' \in {"bootstrap", "run", "past_noreturn"}
    BY Zenon, <1>2, <2>1 DEF ResumeContext, ResumesAt
  <2> QED
    BY Zenon, <1>2, <2>2, RecordTypes DEF ResumeContext, Resumed, Open, LocalsFit,
       UsesCurrent, UsesQueue, UsesTask
<1>3. CASE resume_authority[t] = "INTERRUPT" /\ ResumeFrame(t, frames)
  <2>1. /\ preempt_frame[t].on = t
        /\ preempt_frame[t].at \in Resumed
        /\ LocalsFit(preempt_frame[t].at, t, preempt_frame[t].local)
        /\ preempt_frame[t].local \in LocalsType
    BY Zenon, <1>1, <1>3 DEF TypeOK, FrameType, Resumable, LiveContinuation, Resumed
  <2>2. preempt_frame[t].at \in Label
    BY Zenon, <2>1 DEF Resumed, Label
  <2> QED
    BY Zenon, <1>3, <2>1, <2>2 DEF ResumeFrame
<1> QED
  BY ZenonT(60), <1>2, <1>3

\* The dispatcher saves the running task and resumes its successor.
LEMMA DispatchStep == ASSUME IInv, x86_64_scheduler_dispatch PROVE IInv'
<1> USE ConstantsAssumption DEF IInv, ownerVars
<1> DEFINE next == scheduler_current
           kind == resume_authority[next]
<1>1. /\ pc = "dispatch"
      /\ cpu \in Task
      /\ next \in Task
      /\ next # cpu
      /\ state[next] = "RUNNING"
      /\ local.current = cpu
      /\ local.target.kind = kind
      /\ local.target.task = next
      /\ Resumable(next)
  BY SMTT(30) DEF x86_64_scheduler_dispatch, TypeOK, InvControl, InvRunning, InvLocals,
     LocalsFit, UsesCurrent, NobodyRuns, Boot, InvContinuations,
     x86_64_scheduler_resolve_target
<1>2. kind \in {"CONTEXT", "INTERRUPT"}
  BY Zenon, <1>1 DEF Resumable, LiveContinuation
<1>3. \/ /\ kind = "CONTEXT"
         /\ ResumeContext(next, [context EXCEPT ![cpu] = "scheduler_resume"])
         /\ UNCHANGED preempt_frame
      \/ /\ kind = "INTERRUPT"
         /\ context' = [context EXCEPT ![cpu] = "interrupt_resume"]
         /\ ResumeFrame(next, preempt_frame)
  BY Zenon, <1>1, <1>2 DEF x86_64_scheduler_dispatch
<1>4. UNCHANGED <<state, resume_authority, wait_queue, stacks, members,
                  registered, waiters, pending, runqueue, scheduler_current,
                  preempt_enabled>>
  BY Zenon DEF x86_64_scheduler_dispatch
<1>5. /\ context' \in [Task -> {"bootstrap", "scheduler_resume",
                                "interrupt_resume", "dead"}]
      /\ context'[cpu] # "dead"
      /\ preempt_frame' \in [Task -> FrameType]
      /\ \A t \in Task \ {cpu, next} : /\ context'[t] = context[t]
                                       /\ preempt_frame'[t] = preempt_frame[t]
  <2>1. /\ context \in [Task -> {"bootstrap", "scheduler_resume",
                                 "interrupt_resume", "dead"}]
        /\ preempt_frame \in [Task -> FrameType]
    BY Zenon DEF TypeOK
  <2> HIDE DEF IInv, next
  <2>2. CASE kind = "CONTEXT"
    <3>1. /\ context' = [[context EXCEPT ![cpu] = "scheduler_resume"]
                            EXCEPT ![next] = "dead"]
          /\ preempt_frame' = preempt_frame
      BY Zenon, <1>3, <2>2 DEF ResumeContext
    <3> QED
      BY Zenon, <1>1, <2>1, <3>1
  <2>3. CASE kind = "INTERRUPT"
    <3>1. /\ context' = [context EXCEPT ![cpu] = "interrupt_resume"]
          /\ preempt_frame' = [preempt_frame EXCEPT ![next] = DeadFrame]
      BY Zenon, <1>3, <2>3 DEF ResumeFrame
    <3> QED
      BY Zenon, <1>1, <2>1, <3>1, RecordTypes
  <2> QED
    BY Zenon, <1>2, <2>2, <2>3
<1>6. /\ cpu' = next
      /\ pc' \in Resumed
      /\ irq_enabled' = TRUE
      /\ local' \in LocalsType
      /\ LocalsFit(pc', next, local')
  <2>1. [context EXCEPT ![cpu] = "scheduler_resume"][next] = context[next]
    BY Zenon, <1>1 DEF TypeOK
  <2> HIDE DEF IInv
  <2> QED
    BY ZenonT(60), <1>1, <1>3, <2>1, ResumePoint
<1> HIDE DEF next
<1>7. TypeOK'
  BY Zenon, <1>1, <1>4, <1>5, <1>6 DEF TypeOK, Resumed, Label
<1>8. InvControl'
  BY Zenon, <1>1, <1>4, <1>6 DEF InvControl, Resumed, Open, Boot, next
<1>9. InvRunning'
  BY Zenon, <1>1, <1>4, <1>6 DEF InvRunning, NobodyRuns, Resumed, Open, next
<1>10. InvQueues'
  BY <1>1, <1>4, <1>6 DEF InvQueues, BlockedUnqueued, NoDuplicates, Elems, Resumed, Open
<1>11. InvLocals'
  BY Zenon, <1>6 DEF InvLocals, Resumed, Open, Critical
<1>12. InvContinuations'
  BY SMTT(30), <1>1, <1>4, <1>5, <1>6 DEF TypeOK, InvContinuations, Resumable,
     LiveContinuation, LocalsFit, Resumed, Open, next
<1>13. InvOwners'
  BY SMTT(30), <1>1, <1>4, <1>6 DEF InvOwners, NoDuplicates, Elems, Resumed, Open
<1> QED
  BY Zenon, <1>7, <1>8, <1>9, <1>10, <1>11, <1>12, <1>13

-----------------------------------------------------------------------------
(* The timer.                                                               *)

\* The timer interrupt, from the stub's entry to its iretq.
LEMMA TimerStep == ASSUME IInv, LapicTimer PROVE IInv'
<1> USE ConstantsAssumption
<1> DEFINE next == Head(runqueue)
           frames == [preempt_frame EXCEPT ![cpu] = LiveFrame]
<1>1. /\ pc \in Open
      /\ irq_enabled
      /\ cpu \in Task
      /\ scheduler_current = cpu
      /\ state[cpu] = "RUNNING"
      /\ local \in LocalsType
      /\ LocalsFit(pc, cpu, local)
  BY Zenon DEF IInv, LapicTimer, TypeOK, InvControl, InvRunning, InvLocals, NobodyRuns,
     Boot, Stopped, Open
<1>2. /\ LiveFrame \in FrameType
      /\ LiveFrame.on = cpu
      /\ LiveFrame.at \in Resumed
      /\ LiveFrame.local = local
      /\ LocalsFit(LiveFrame.at, cpu, local)
  BY Zenon, <1>1 DEF LiveFrame, FrameType, Label, Resumed, Open, LocalsFit,
     UsesCurrent, UsesQueue, UsesTask
<1>3. /\ frames \in [Task -> FrameType]
      /\ frames[cpu] = LiveFrame
      /\ \A t \in Task \ {cpu} : frames[t] = preempt_frame[t]
  BY Zenon, <1>1, <1>2 DEF IInv, TypeOK
<1>4. /\ x86_64_preempt_handle_timer(cpu, frames)
      /\ UNCHANGED <<wait_queue, ownerVars, preempt_enabled>>
  BY Zenon, <1>1 DEF IInv, LapicTimer, InvControl, Open
<1>5. /\ resume_authority' = [resume_authority EXCEPT ![cpu] = "INTERRUPT"]
      /\ resume_authority' \in [Task -> {"NONE", "CONTEXT", "INTERRUPT"}]
  BY Zenon, <1>1, <1>4 DEF x86_64_preempt_handle_timer, IInv, TypeOK
<1>6. CASE ~(SuccessorReady /\ CanEnqueue(cpu))
  <2> USE DEF IInv, ownerVars
  <2>1. /\ ResumeFrame(cpu, frames)
        /\ UNCHANGED <<runqueue, state, scheduler_current, context>>
    BY Zenon, <1>1, <1>4, <1>6 DEF x86_64_preempt_handle_timer
  <2>2. /\ cpu' = cpu
        /\ pc' \in Resumed
        /\ irq_enabled' = TRUE
        /\ local' = local
        /\ LocalsFit(pc', cpu, local)
        /\ preempt_frame' \in [Task -> FrameType]
        /\ \A t \in Task \ {cpu} : preempt_frame'[t] = preempt_frame[t]
    BY Zenon, <1>1, <1>2, <1>3, <2>1, RecordTypes DEF ResumeFrame, Resumed, Label
  <2>3. TypeOK'
    BY Zenon, <1>1, <1>4, <1>5, <2>1, <2>2 DEF TypeOK, Resumed, Label
  <2>4. InvControl'
    BY Zenon, <1>1, <1>4, <2>1, <2>2 DEF InvControl, Resumed, Open, Boot
  <2>5. InvRunning'
    BY Zenon, <1>1, <2>1, <2>2 DEF InvRunning, NobodyRuns, Resumed, Open
  <2>6. InvQueues'
    BY <1>1, <1>4, <2>1, <2>2 DEF InvQueues, BlockedUnqueued, NoDuplicates, Elems,
       Resumed, Open
  <2>7. InvLocals'
    BY Zenon, <2>2 DEF InvLocals, Resumed, Open, Critical
  <2>8. InvContinuations'
    BY SMTT(90), <1>1, <1>5, <2>1, <2>2 DEF TypeOK, InvContinuations, Resumable,
       LiveContinuation, LocalsFit, Resumed, Open
  <2>9. InvOwners'
    BY SMTT(30), <1>1, <1>4, <2>1, <2>2 DEF InvOwners, NoDuplicates, Elems, Resumed, Open
  <2> QED
    BY Zenon, <2>3, <2>4, <2>5, <2>6, <2>7, <2>8, <2>9
<1>7. CASE SuccessorReady /\ CanEnqueue(cpu)
  <2>1. /\ runqueue \in Seq(Task)
        /\ runqueue # <<>>
        /\ NoDuplicates(runqueue)
        /\ cpu \notin Elems(runqueue)
    BY Zenon, <1>7 DEF SuccessorReady, CanEnqueue, IInv, TypeOK, InvQueues
  <2>2. /\ next \in Task
        /\ next \in Elems(runqueue)
        /\ Tail(runqueue) \in Seq(Task)
        /\ NoDuplicates(Tail(runqueue))
        /\ \A t : t \in Elems(Tail(runqueue)) <=> t \in Elems(runqueue) /\ t # next
    BY Zenon, <2>1, TailElems
  <2>3. next # cpu /\ state[next] = "READY" /\ Resumable(next)
    BY Zenon, <2>1, <2>2 DEF IInv, InvQueues, InvContinuations
  <2>4. /\ runqueue' = Tail(Append(runqueue, cpu))
        /\ state' = [state EXCEPT ![cpu] = "READY", ![next] = "RUNNING"]
        /\ scheduler_current' = next
        /\ \/ /\ resume_authority[next] = "CONTEXT"
              /\ ResumeContext(next, context)
              /\ preempt_frame' = frames
           \/ /\ resume_authority[next] = "INTERRUPT"
              /\ ResumeFrame(next, frames)
              /\ UNCHANGED context
    BY Zenon, <1>1, <1>4, <1>7, <2>3 DEF x86_64_preempt_handle_timer,
       scheduler_preempt_current, runqueue_peek, Resumable, LiveContinuation
  <2>5. /\ runqueue' \in Seq(Task)
        /\ NoDuplicates(runqueue')
        /\ \A t : t \in Elems(runqueue') <=>
                 (t \in Elems(runqueue) /\ t # next) \/ t = cpu
    <3> DEFINE longer == Append(runqueue, cpu)
    <3>1. /\ longer \in Seq(Task)
          /\ longer # <<>>
          /\ NoDuplicates(longer)
          /\ Head(longer) = next
          /\ \A t : t \in Elems(longer) <=> t \in Elems(runqueue) \/ t = cpu
      BY Zenon, <1>1, <2>1, AppendElems
    <3>2. runqueue' = Tail(longer)
      BY Zenon, <2>4
    <3> HIDE DEF longer, next
    <3>3. /\ Tail(longer) \in Seq(Task)
          /\ NoDuplicates(Tail(longer))
          /\ \A t : t \in Elems(Tail(longer)) <=> t \in Elems(longer) /\ t # Head(longer)
      BY Zenon, <3>1, TailElems
    <3> QED
      BY Zenon, <2>3, <3>1, <3>2, <3>3
  <2>6. /\ cpu' = next
        /\ pc' \in Resumed
        /\ irq_enabled' = TRUE
        /\ local' \in LocalsType
        /\ LocalsFit(pc', next, local')
    BY Zenon, <1>3, <2>2, <2>3, <2>4, ResumePoint
  <2>7. /\ context' \in [Task -> {"bootstrap", "scheduler_resume",
                                  "interrupt_resume", "dead"}]
        /\ preempt_frame' \in [Task -> FrameType]
        /\ preempt_frame'[cpu] = LiveFrame
        /\ \A t \in Task \ {cpu, next} : /\ context'[t] = context[t]
                                         /\ preempt_frame'[t] = preempt_frame[t]
    <3>1. context \in [Task -> {"bootstrap", "scheduler_resume",
                                "interrupt_resume", "dead"}]
      BY Zenon DEF IInv, TypeOK
    <3> HIDE DEF next, frames
    <3>2. CASE ResumeContext(next, context) /\ preempt_frame' = frames
      <4>1. context' = [context EXCEPT ![next] = "dead"]
        BY Zenon, <3>2 DEF ResumeContext
      <4> QED
        BY Zenon, <1>1, <1>3, <2>2, <3>1, <3>2, <4>1
    <3>3. CASE ResumeFrame(next, frames) /\ UNCHANGED context
      <4>1. preempt_frame' = [frames EXCEPT ![next] = DeadFrame]
        BY Zenon, <3>3 DEF ResumeFrame
      <4> QED
        BY Zenon, <1>1, <1>3, <2>2, <2>3, <3>1, <3>3, <4>1, RecordTypes
    <3> QED
      BY Zenon, <2>4, <3>2, <3>3
  <2> HIDE DEF next, frames
  <2> USE DEF IInv, ownerVars
  <2>8. TypeOK'
    BY Zenon, <1>1, <1>4, <1>5, <2>2, <2>4, <2>5, <2>6, <2>7 DEF TypeOK, Resumed, Label
  <2>9. InvControl'
    BY Zenon, <1>1, <1>4, <2>2, <2>4, <2>6 DEF InvControl, Resumed, Open, Boot
  <2>10. InvRunning'
    BY Zenon, <1>1, <2>2, <2>3, <2>4, <2>6 DEF TypeOK, InvRunning, NobodyRuns, Resumed, Open
  <2>11. InvQueues'
    <3>1. /\ \A t \in Task : t \in Elems(runqueue') <=> state'[t] = "READY"
          /\ \A t \in Task : state'[t] = "BLOCKED" <=> state[t] = "BLOCKED"
      BY SMTT(30), <1>1, <2>2, <2>3, <2>4, <2>5 DEF TypeOK, InvQueues
    <3>2. /\ UNCHANGED <<waiters, wait_queue>>
          /\ NoDuplicates(runqueue')
      BY Zenon, <1>4, <2>5
    <3>3. /\ pc \notin {"wake_ready", "block_enqueue", "block_take"}
          /\ pc' \notin {"wake_ready", "block_enqueue", "block_take"}
      BY Zenon, <1>1, <2>6 DEF Resumed, Open
    <3>4. InvQueues
      OBVIOUS
    <3>5. \A t \in Task : state[t] = "BLOCKED" => wait_queue[t] # NULL
      BY Zenon, <3>3, <3>4 DEF InvQueues, BlockedUnqueued
    <3> QED
      BY Zenon, <3>1, <3>2, <3>3, <3>4, <3>5 DEF InvQueues
  <2>12. InvLocals'
    BY Zenon, <2>6 DEF InvLocals, Resumed, Open, Critical
  <2>13. InvContinuations'
    <3>1. pc' \notin {"boot", "boot_switch", "dispatch", "block_take"}
      BY Zenon, <2>6 DEF Resumed, Open
    <3>2. SUFFICES ASSUME NEW t \in Task, t # cpu', state'[t] \in {"READY", "BLOCKED"}
                   PROVE  Resumable(t)'
      BY Zenon, <3>1 DEF InvContinuations
    <3>3. CASE t = cpu
      <4>1. /\ resume_authority'[t] = "INTERRUPT"
            /\ preempt_frame'[t] = LiveFrame
        BY <1>1, <1>5, <2>7, <3>3 DEF TypeOK
      <4> QED
        BY Zenon, <1>2, <3>3, <4>1 DEF Resumable, LiveContinuation, Resumed
    <3>4. CASE t # cpu
      <4>1. /\ t # next
            /\ state'[t] = state[t]
        BY Zenon, <1>1, <2>2, <2>4, <2>6, <3>2, <3>4 DEF TypeOK
      <4>2. Resumable(t)
        BY Zenon, <3>2, <3>4, <4>1 DEF InvContinuations
      <4>3. /\ resume_authority'[t] = resume_authority[t]
            /\ context'[t] = context[t]
            /\ preempt_frame'[t] = preempt_frame[t]
        BY SMTT(30), <1>1, <1>5, <2>7, <3>4, <4>1 DEF TypeOK
      <4> QED
        BY Zenon, <4>2, <4>3 DEF Resumable, LiveContinuation
    <3> QED
      BY Zenon, <3>3, <3>4
  <2>14. InvOwners'
    <3>1. /\ \A t \in Task : state'[t] = "TERMINATED" <=> state[t] = "TERMINATED"
          /\ \A t \in Task : state'[t] \in {"READY", "RUNNING", "BLOCKED"} <=>
                             state[t] \in {"READY", "RUNNING", "BLOCKED"}
      BY Zenon, <1>1, <2>2, <2>3, <2>4 DEF TypeOK
    <3>2. /\ pc \notin {"halted", "exit_publish", "reap_destroy"}
          /\ pc' \notin {"halted", "exit_publish", "reap_destroy"}
      BY Zenon, <1>1, <2>6 DEF Resumed, Open
    <3>3. UNCHANGED <<pending, stacks, registered, members>>
      BY Zenon, <1>4
    <3>4. /\ Elems(pending') = Elems(pending)
          /\ NoDuplicates(pending') <=> NoDuplicates(pending)
      BY Zenon, <3>3 DEF Elems, NoDuplicates
    <3>5. next \in stacks
      BY Zenon, <2>2, <2>3 DEF InvOwners
    <3>6. InvOwners
      OBVIOUS
    <3> QED
      BY Zenon, <2>2, <2>6, <3>1, <3>2, <3>3, <3>4, <3>5, <3>6 DEF InvOwners
  <2> QED
    BY Zenon, <2>8, <2>9, <2>10, <2>11, <2>12, <2>13, <2>14
<1> QED
  BY Zenon, <1>6, <1>7
=============================================================================
