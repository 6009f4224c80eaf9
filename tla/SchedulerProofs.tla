-------------------------- MODULE SchedulerProofs ---------------------------
(***************************************************************************)
(* IInv is inductive, and with it the safety properties of the scheduling  *)
(* core hold for every set of tasks and wait queues and every capacity.    *)
(***************************************************************************)
EXTENDS SchedulerStepProofs, FiniteSetTheorems

(* The theorems.                                                            *)

\* Every step preserves the invariant.
LEMMA NextIInv == IInv /\ [Next]_vars => IInv'
<1> SUFFICES ASSUME IInv, [Next]_vars PROVE IInv'
  OBVIOUS
<1>1. CASE KernelStep
  BY SMTT(30), <1>1, StartStep, FirstDispatchStep, BootstrapStep, DispatchStep, EnterOrMask,
     YieldCommitStep, YieldTakeStep, BlockCommitStep, BlockEnqueueStep, BlockTakeStep,
     WakeCommitStep, WakeReadyStep, ExitCommitStep, PublishStep, ExitTakeStep,
     ReapDetachStep, ReapDestroyStep, StopStep DEF KernelStep
<1>2. CASE TaskCall
  BY Zenon, <1>2, EnterOrMask DEF TaskCall
<1>3. CASE LapicTimer
  BY Zenon, <1>3, TimerStep
<1>4. CASE Stay \/ UNCHANGED vars
  <2>1. UNCHANGED vars
    BY Zenon, <1>4 DEF Stay
  <2> USE <2>1 DEF IInv, vars, taskVars, ownerVars, cpuVars
  <2>2. TypeOK' /\ InvControl' /\ InvRunning'
    BY Zenon DEF TypeOK, InvControl, InvRunning
  <2>3. InvQueues'
    BY DEF InvQueues, BlockedUnqueued, NoDuplicates, Elems
  <2>4. InvLocals'
    BY Zenon DEF InvLocals, LocalsFit, x86_64_scheduler_resolve_target
  <2>5. InvContinuations'
    BY Zenon DEF InvContinuations, Resumable, LiveContinuation, LocalsFit
  <2>6. InvOwners'
    BY Zenon DEF InvOwners, NoDuplicates, Elems
  <2> QED
    BY Zenon, <2>2, <2>3, <2>4, <2>5, <2>6
<1> QED
  BY Zenon, <1>1, <1>2, <1>3, <1>4 DEF Next

\* The location-by-location invariant of the critical sections of task.c,
\* scheduler.c, lifecycle.c and the timer path holds in every reachable state.
THEOREM InductiveInvariant == Spec => []IInv
<1>1. Init => IInv
  BY Zenon, InitIInv
<1>2. IInv /\ [Next]_vars => IInv'
  BY Zenon, NextIInv
<1> QED
  BY <1>1, <1>2, PTL DEF Spec

\* Every variable of the scheduling core keeps its type.
THEOREM TypeCorrectness == Spec => []TypeOK
<1>1. IInv => TypeOK
  BY Zenon DEF IInv
<1> QED
  BY <1>1, InductiveInvariant, PTL

\* task.c:635: no interrupt observes an intermediate state of a yield, block,
\* wake, exit, reap or preemption, for any number of tasks and wait queues.
THEOREM Atomicity == Spec => []NoIntermediateStateVisible
<1>1. IInv => NoIntermediateStateVisible
  <2> SUFFICES ASSUME IInv, irq_enabled
               PROVE  /\ scheduler_current = cpu
                      /\ {t \in Task : state[t] = "RUNNING"} = {cpu}
                      /\ QueuesMatchStates
    BY Zenon DEF NoIntermediateStateVisible
  <2> USE ConstantsAssumption DEF IInv
  <2>1. pc \in Open \cup {"undefined"} /\ cpu \in Task /\ scheduler_current = cpu
    BY Zenon DEF TypeOK, InvControl, Open, Boot
  <2>2. {t \in Task : state[t] = "RUNNING"} = {cpu}
    BY Zenon, <2>1 DEF InvRunning, NobodyRuns, Open
  <2>3. Elems(runqueue) = {t \in Task : state[t] = "READY"}
    BY DEF TypeOK, InvQueues, Elems
  <2>4. \A t \in Task : state[t] = "BLOCKED" <=> wait_queue[t] # NULL
    BY Zenon, <2>1 DEF InvQueues, BlockedUnqueued, Open
  <2> QED
    BY Zenon, <2>1, <2>2, <2>3, <2>4 DEF QueuesMatchStates, InvQueues
<1> QED
  BY <1>1, InductiveInvariant, PTL

\* task.h:30: the authority of every waiting task names a live continuation,
\* and no dead or synthetic one is ever resumed.
THEOREM ContinuationSafety == Spec => []AuthorityNamesLiveContinuation
<1>1. IInv => AuthorityNamesLiveContinuation
  <2> SUFFICES ASSUME IInv PROVE AuthorityNamesLiveContinuation
    OBVIOUS
  <2>1. pc # "corrupt"
    BY Zenon DEF IInv, InvControl
  <2>2. ASSUME irq_enabled, NEW t \in Task, state[t] \in {"READY", "BLOCKED"}
        PROVE  LiveContinuation(t)
    <3>1. t # cpu
      BY <2>2, ConstantsAssumption DEF IInv, TypeOK, InvControl, InvRunning,
         NobodyRuns, Open, Boot
    <3> QED
      BY Zenon, <2>2, <3>1 DEF IInv, InvContinuations, Resumable
  <2> QED
    BY Zenon, <2>1, <2>2 DEF AuthorityNamesLiveContinuation
<1> QED
  BY <1>1, InductiveInvariant, PTL

\* The reaper never frees a stack that is in use or may be resumed.
THEOREM StackSafety == Spec => []StacksOutliveExecution
<1>1. IInv => StacksOutliveExecution
  BY Zenon DEF IInv, InvOwners, StacksOutliveExecution
<1> QED
  BY <1>1, InductiveInvariant, PTL

\* Every operation hands the interrupt flag back set to task code.
THEOREM Interruptibility == Spec => []TaskContextIsInterruptible
<1>1. IInv => TaskContextIsInterruptible
  BY Zenon DEF IInv, InvControl, TaskContextIsInterruptible
<1> QED
  BY <1>1, InductiveInvariant, PTL

\* No terminated managed task is leaked by, or published twice to, the ring
\* of lifecycle.c, and each stays registered and attached until it is reaped.
THEOREM ReclamationAccounting == Spec => []PendingIsWhatIsLeftToReap
<1>1. IInv => PendingIsWhatIsLeftToReap
  <2> SUFFICES ASSUME IInv, irq_enabled
               PROVE  /\ NoDuplicates(pending)
                      /\ Elems(pending) = {t \in Managed :
                             state[t] = "TERMINATED" /\ t \in stacks}
                      /\ registered = stacks
                      /\ members = stacks
    BY Zenon DEF PendingIsWhatIsLeftToReap
  <2>1. pc \in Open \cup {"undefined"}
    BY Zenon DEF IInv, InvControl
  <2>2. Elems(pending) \subseteq Task
    BY DEF IInv, TypeOK, Elems
  <2> QED
    BY Zenon, <2>1, <2>2, ConstantsAssumption DEF IInv, InvOwners, Open
<1> QED
  BY <1>1, InductiveInvariant, PTL

-----------------------------------------------------------------------------
(* Termination is final.                                                    *)

\* No step takes a task out of TERMINATED: every task that a step makes READY,
\* RUNNING or BLOCKED was in another live state before.
LEMMA TerminatedStays ==
    ASSUME IInv, Next, NEW t \in Task, state[t] = "TERMINATED"
    PROVE  state'[t] = "TERMINATED"
<1> USE DEF IInv, taskVars
<1>1. \/ state' = state
      \/ \E u \in Task : /\ state[u] # "TERMINATED"
                         /\ \E s : state' = [state EXCEPT ![u] = s]
      \/ \E u, v \in Task :
            /\ state[u] # "TERMINATED"
            /\ state[v] # "TERMINATED"
            /\ \E r, s : state' = [state EXCEPT ![u] = r, ![v] = s]
      \/ \E u \in Task : state' = [state EXCEPT ![u] = "TERMINATED"]
  <2> USE ConstantsAssumption
  <2>1. runqueue # <<>> => /\ Head(runqueue) \in Task
                           /\ state[Head(runqueue)] = "READY"
    BY Zenon, TailElems DEF TypeOK, InvQueues
  <2>2. pc \in Critical /\ pc \in UsesCurrent =>
           local.current = cpu /\ cpu \in Task
    BY Zenon DEF InvLocals, LocalsFit, TypeOK, InvControl, Boot, Critical
  <2>3. pc \in {"yield_commit", "block_commit", "exit_commit"} =>
           state[cpu] = "RUNNING"
    BY Zenon DEF InvRunning, NobodyRuns, InvControl, Boot
  <2>4. CASE scheduler_start
    BY Zenon, <2>1, <2>4 DEF scheduler_start, runqueue_peek
  <2>5. CASE YieldCommit
    BY Zenon, <2>2, <2>3, <2>5 DEF YieldCommit, Critical, UsesCurrent
  <2>6. CASE YieldTake
    BY Zenon, <2>1, <2>2, <2>6 DEF YieldTake, CommitSuccessor, runqueue_peek, InvLocals,
       Critical, UsesCurrent
  <2>7. CASE BlockCommit
    BY Zenon, <2>2, <2>3, <2>7 DEF BlockCommit, Critical, UsesCurrent
  <2>8. CASE scheduler_block_current \/ scheduler_exit_current
    BY Zenon, <2>1, <2>8 DEF scheduler_block_current, scheduler_exit_current,
       CommitSuccessor, SuccessorReady
  <2>9. CASE WakeReady
    BY Zenon, <2>9 DEF WakeReady, InvQueues, InvLocals, LocalsFit, UsesTask
  <2>10. CASE task_exit
    BY Zenon, <2>2, <2>10 DEF task_exit, Critical, UsesCurrent
  <2>11. CASE ReapDestroy
    <3>1. pending # <<>> /\ Head(pending) \in Task
      BY <2>11, TailElems DEF ReapDestroy, InvOwners, TypeOK
    <3> QED
      BY Zenon, <2>11, <3>1 DEF ReapDestroy
  <2>12. CASE LapicTimer
    <3>1. scheduler_current \in Task => state[scheduler_current] # "TERMINATED"
      BY Zenon, <2>12 DEF LapicTimer, InvControl, InvRunning, NobodyRuns, Open, Boot, Stopped
    <3>2. \/ state' = state
          \/ /\ scheduler_current \in Task
             /\ runqueue # <<>>
             /\ state' = [state EXCEPT ![scheduler_current] = "READY",
                                       ![Head(runqueue)] = "RUNNING"]
      BY Zenon, <2>12 DEF LapicTimer, x86_64_preempt_handle_timer, SuccessorReady,
         scheduler_preempt_current, runqueue_peek, TypeOK
    <3> HIDE DEF IInv
    <3> QED
      BY Zenon, <2>1, <3>1, <3>2
  <2>13. CASE state' = state
    BY Zenon, <2>13
  <2> QED
    BY ZenonT(60), <2>4, <2>5, <2>6, <2>7, <2>8, <2>9, <2>10, <2>11, <2>12, <2>13
       DEF Next, KernelStep, TaskCall, Stay, vars, FirstDispatch,
       task_bootstrap_entry, x86_64_scheduler_dispatch, PastNoreturn, YieldSave,
       BlockSave, BlockEnqueue, WakeSave, WakeCommit, ExitSave, ReapSave,
       lifecycle_publish_terminated_task, ReapDetach, StopKernel, Hlt, YieldEnter, ExitEnter,
       ReapEnter, BlockEnter, WakeEnter
<1>2. state \in [Task -> {"NEW", "READY", "RUNNING", "BLOCKED", "TERMINATED"}]
  BY Zenon DEF TypeOK
<1> HIDE DEF IInv
<1> QED
  BY Zenon, <1>1, <1>2

\* The CPU only changes stacks by resuming a task with interrupts enabled.
LEMMA StackChanges == Next => cpu' = cpu \/ irq_enabled' = TRUE
BY Zenon DEF Next, KernelStep, TaskCall, LapicTimer, Stay, vars, cpuVars, scheduler_start,
   FirstDispatch, task_bootstrap_entry, x86_64_scheduler_dispatch, PastNoreturn,
   YieldSave, YieldCommit, YieldTake, BlockSave, BlockCommit, BlockEnqueue,
   scheduler_block_current, WakeSave, WakeCommit, WakeReady, ExitSave, task_exit,
   lifecycle_publish_terminated_task, scheduler_exit_current, ReapSave, ReapDetach,
   ReapDestroy, StopKernel, Hlt, YieldEnter, ExitEnter, ReapEnter, BlockEnter, WakeEnter,
   x86_64_preempt_handle_timer, ResumeContext, ResumeFrame

\* task_bootstrap_entry: a terminated task never runs again.
THEOREM TerminationIsFinal == Spec => TerminatedNeverRuns
<1> DEFINE Final == \A t \in Task : state[t] = "TERMINATED" =>
                       /\ state'[t] = "TERMINATED"
                       /\ cpu' = t => cpu = t /\ pc' \notin Open
<1>1. IInv /\ [Next]_vars => [Final]_vars
  <2> SUFFICES ASSUME IInv, Next PROVE Final
    OBVIOUS
  <2> SUFFICES ASSUME NEW t \in Task, state[t] = "TERMINATED"
               PROVE  /\ state'[t] = "TERMINATED"
                      /\ cpu' = t => cpu = t /\ pc' \notin Open
    OBVIOUS
  <2>1. state'[t] = "TERMINATED"
    BY Zenon, TerminatedStays
  <2>2. IInv'
    BY Zenon, NextIInv
  <2>3. ASSUME irq_enabled', cpu' = t PROVE FALSE
    <3>1. pc' \in Open \cup {"undefined"} /\ scheduler_current' = t
      BY Zenon, <2>2, <2>3 DEF IInv, InvControl, Open, Boot
    <3> QED
      BY Zenon, <2>1, <2>2, <3>1 DEF IInv, InvRunning, NobodyRuns, Open
  <2>4. cpu' = t => pc' \notin Open
    BY Zenon, <2>2, <2>3 DEF IInv, InvControl
  <2> QED
    BY Zenon, <2>1, <2>3, <2>4, StackChanges
<1> QED
  BY <1>1, InductiveInvariant, PTL DEF Spec, TerminatedNeverRuns

-----------------------------------------------------------------------------
(* Why the kernel stops.                                                    *)

\* A queue without duplicates is as long as the set it holds is large, and
\* in general no shorter.
LEMMA ElemsCardinality ==
    ASSUME NEW S, NEW seq \in Seq(S)
    PROVE  /\ IsFiniteSet(Elems(seq))
           /\ Cardinality(Elems(seq)) <= Len(seq)
           /\ NoDuplicates(seq) => Cardinality(Elems(seq)) = Len(seq)
<1>1. /\ Len(seq) \in Nat
      /\ seq \in [1..Len(seq) -> S]
  OBVIOUS
<1>2. /\ IsFiniteSet(1..Len(seq))
      /\ Cardinality(1..Len(seq)) = Len(seq)
  <2>1. IsFiniteSet(1..Len(seq)) /\ Cardinality(1..Len(seq)) =
            IF 1 > Len(seq) THEN 0 ELSE Len(seq) - 1 + 1
    BY SMTT(30), <1>1, FS_Interval
  <2> QED
    BY <1>1, <2>1
<1>3. seq \in Surjection(1..Len(seq), Elems(seq))
  BY Zenon, <1>1 DEF Surjection, Elems
<1>4. NoDuplicates(seq) => seq \in Injection(1..Len(seq), Elems(seq))
  BY Zenon, <1>1 DEF Injection, IsInjective, NoDuplicates, Elems
<1> HIDE DEF Elems, NoDuplicates
<1> QED
  BY <1>2, <1>3, <1>4, FS_Surjection

\* Most steps leave the frames, the ring and the stacks alone, stay off the
\* reap path and change at most the authority of the running task.
Quiet ==
    /\ UNCHANGED <<preempt_frame, pending, stacks, cpu>>
    /\ pc' \notin Reaping \cup {"halted"}
    /\ pc' \in Boot => pc \in Boot
    /\ \A t \in Task \ {cpu} : resume_authority'[t] = resume_authority[t]
    /\ \A t \in Task : state'[t] = "TERMINATED" =>
          \/ resume_authority'[t] = "NONE"
          \/ state[t] = "TERMINATED" /\ resume_authority'[t] = resume_authority[t]

\* A step that disturbs nothing InvStops speaks of.
LEMMA QuietStops == ASSUME InvStops, Quiet PROVE InvStops'
<1> USE DEF InvStops, Quiet
<1>1. IsFiniteSet(stacks') /\ Cardinality(stacks') <= TASK_MAX_TASKS
  OBVIOUS
<1>2. ReapsAt(pc, cpu)'
  BY Zenon DEF ReapsAt, Reaping
<1>3. \A t \in Task : ReapsAt(preempt_frame[t].at, t)'
  BY Zenon DEF ReapsAt, Reaping
<1>4. \A t \in Task : preempt_frame'[t].at \in Reaping =>
          t # cpu' /\ resume_authority'[t] = "INTERRUPT" /\ pc' \notin Boot
  BY Zenon
<1>5. \A t \in Task : state'[t] = "TERMINATED" => resume_authority'[t] = "NONE"
  BY Zenon
<1>6. HaltsOnlyWhenNothingIsRunnable'
  BY Zenon DEF HaltsOnlyWhenNothingIsRunnable
<1> QED
  BY Zenon, <1>1, <1>2, <1>3, <1>4, <1>5, <1>6

\* InvStops holds when the kernel starts.
LEMMA InitStops == Init => InvStops
<1> SUFFICES ASSUME Init PROVE InvStops
  OBVIOUS
<1> USE ConstantsAssumption DEF Init
<1>1. /\ runqueue \in Seq(Task)
      /\ Len(runqueue) <= TASK_MAX_TASKS
      /\ TASK_MAX_TASKS \in Nat
  BY DEF BootOrders
<1>2. IsFiniteSet(stacks) /\ Cardinality(stacks) <= TASK_MAX_TASKS
  <2>1. /\ IsFiniteSet(Elems(runqueue))
        /\ Cardinality(Elems(runqueue)) <= Len(runqueue)
    BY Zenon, <1>1, ElemsCardinality
  <2>2. Cardinality(Elems(runqueue)) \in Nat
    BY Zenon, <2>1, FS_CardinalityType
  <2>3. stacks = Elems(runqueue)
    OBVIOUS
  <2> HIDE DEF Init
  <2> QED
    BY <1>1, <2>1, <2>2, <2>3
<1>3. \A t \in Task : preempt_frame[t].at \notin Reaping
  BY Zenon DEF Reaping, FirstRunFrame, NoFrame
<1>4. \A t \in Task : state[t] # "TERMINATED"
  OBVIOUS
<1>5. pc = "boot"
  OBVIOUS
<1> HIDE DEF Init
<1> QED
  BY Zenon, <1>2, <1>3, <1>4, <1>5 DEF InvStops, ReapsAt, Reaping, HaltsOnlyWhenNothingIsRunnable

\* Where the running task stands in a critical section.
LEMMA Located ==
    ASSUME IInv, pc \in Critical
    PROVE  /\ cpu \in Task
           /\ local.irq_flags
           /\ ~irq_enabled
           /\ pc # "dispatch" => scheduler_current = cpu
           /\ pc \in UsesCurrent => local.current = cpu
<1>1. TypeOK /\ InvControl /\ InvLocals
  BY Zenon DEF IInv
<1>2. pc \notin Boot \cup Open \cup {"halted", "undefined"}
  BY Zenon DEF Critical, Boot, Open
<1> QED
  BY Zenon, <1>1, <1>2 DEF TypeOK, InvControl, InvLocals, LocalsFit

\* The entries and the moves of control are such steps,
LEMMA QuietMoves ==
    ASSUME IInv, InvStops,
           \/ scheduler_start \/ task_bootstrap_entry \/ PastNoreturn
           \/ YieldSave \/ BlockSave \/ WakeSave \/ ExitSave
           \/ Hlt \/ YieldEnter \/ ExitEnter
           \/ \E queue \in Queue : BlockEnter(queue)
           \/ \E task \in Task : WakeEnter(task)
    PROVE  InvStops'
<1> USE DEF taskVars, ownerVars
<1>1. CASE scheduler_start
  <2>1. Head(runqueue) \in Task /\ state \in [Task -> {"NEW", "READY", "RUNNING", "BLOCKED", "TERMINATED"}]
    BY Zenon, <1>1, TailElems DEF IInv, TypeOK, InvQueues, scheduler_start
  <2>2. Quiet
    BY Zenon, <1>1, <2>1 DEF scheduler_start, runqueue_peek, Quiet, Reaping, Boot
  <2> QED
    BY Zenon, <2>2, QuietStops
<1>2. CASE task_bootstrap_entry
  <2>1. state[cpu] = "RUNNING"
    BY Zenon, <1>2 DEF task_bootstrap_entry, IInv, InvControl, InvRunning, NobodyRuns, Boot
  <2>2. Quiet
    BY Zenon, <1>2, <2>1 DEF task_bootstrap_entry, Quiet, Reaping, Boot
  <2> QED
    BY Zenon, <2>2, QuietStops
<1>3. CASE \/ PastNoreturn \/ YieldSave \/ BlockSave \/ WakeSave \/ ExitSave
           \/ Hlt \/ YieldEnter \/ ExitEnter
           \/ \E queue \in Queue : BlockEnter(queue)
           \/ \E task \in Task : WakeEnter(task)
  <2>1. /\ UNCHANGED <<taskVars, ownerVars, cpu>>
        /\ pc' \in {"run", "undefined", "yield_commit", "block_commit", "wake_commit",
                    "exit_commit", "hlt", "yield_save", "exit_save", "block_save",
                    "wake_save"}
    BY Zenon, <1>3 DEF PastNoreturn, YieldSave, BlockSave, WakeSave, ExitSave, Hlt,
       YieldEnter, ExitEnter, BlockEnter, WakeEnter, x86_64_irq_save
  <2>2. Quiet
    BY Zenon, <2>1 DEF Quiet, Reaping, Boot
  <2> QED
    BY Zenon, <2>2, QuietStops
<1> QED
  BY Zenon, <1>1, <1>2, <1>3

\* and so are the critical sections that neither exit nor reap.
LEMMA QuietSections ==
    ASSUME IInv, InvStops,
           \/ YieldCommit \/ YieldTake
           \/ BlockCommit \/ BlockEnqueue \/ scheduler_block_current
           \/ WakeCommit \/ WakeReady \/ task_exit
    PROVE  InvStops'
<1> SUFFICES Quiet
  BY Zenon, QuietStops
<1>1. /\ pc \in Critical
      /\ pc \notin {"wake_commit", "wake_ready"} => pc \in UsesCurrent
  BY Zenon DEF YieldCommit, YieldTake, BlockCommit, BlockEnqueue, scheduler_block_current,
     WakeCommit, WakeReady, task_exit, Critical, UsesCurrent
<1>2. /\ cpu \in Task
      /\ pc \notin {"wake_commit", "wake_ready"} => local.current = cpu
      /\ scheduler_current = cpu
  BY Zenon, <1>1, Located DEF YieldCommit, YieldTake, BlockCommit, BlockEnqueue, scheduler_block_current,
     WakeCommit, WakeReady, task_exit
<1>3. /\ state \in [Task -> {"NEW", "READY", "RUNNING", "BLOCKED", "TERMINATED"}]
      /\ resume_authority \in [Task -> {"NONE", "CONTEXT", "INTERRUPT"}]
      /\ runqueue # <<>> => Head(runqueue) \in Task
  BY Zenon, TailElems DEF IInv, TypeOK, InvQueues
<1>4. /\ pc = "exit_commit" => state[cpu] = "RUNNING"
      /\ pc = "yield_take" => state[cpu] = "READY" /\ runqueue # <<>>
      /\ pc = "block_enqueue" => state[cpu] = "BLOCKED"
  BY Zenon, <1>2 DEF IInv, InvRunning, NobodyRuns, InvLocals
<1> USE <1>2, <1>3 DEF Quiet, Reaping, Boot, ownerVars, RestoreAndReturn
<1>5. CASE YieldCommit
  BY Zenon, <1>5 DEF YieldCommit
<1>6. CASE YieldTake
  BY Zenon, <1>4, <1>6 DEF YieldTake, CommitSuccessor, runqueue_peek
<1>7. CASE BlockCommit
  BY Zenon, <1>7 DEF BlockCommit
<1>8. CASE BlockEnqueue
  BY Zenon, <1>4, <1>8 DEF BlockEnqueue
<1>9. CASE scheduler_block_current
  BY Zenon, <1>9 DEF scheduler_block_current, CommitSuccessor, SuccessorReady, runqueue_peek
<1>10. CASE WakeCommit
  BY Zenon, <1>10 DEF WakeCommit
<1>11. CASE WakeReady
  BY Zenon, <1>11 DEF WakeReady
<1>12. CASE task_exit
  BY Zenon, <1>4, <1>12 DEF task_exit
<1> QED
  BY Zenon, <1>5, <1>6, <1>7, <1>8, <1>9, <1>10, <1>11, <1>12

\* Resuming t with the frames bound so far: the task resumed takes its place
\* on the reap path from its frame, which is popped.
LEMMA ResumeStops ==
    ASSUME InvStops, NEW t \in Task, NEW frames \in [Task -> FrameType],
           UNCHANGED <<pending, stacks>>,
           \A u \in Task : ReapsAt(frames[u].at, u),
           \A u \in Task : frames[u].at \in Reaping =>
              resume_authority'[u] = "INTERRUPT",
           \A u \in Task : state'[u] = "TERMINATED" => resume_authority'[u] = "NONE",
           \/ /\ frames[t].at \notin Reaping
              /\ cpu' = t
              /\ pc' \in {"bootstrap", "run", "past_noreturn"}
              /\ preempt_frame' = frames
           \/ /\ frames[t].on = t
              /\ frames[t].at \in Open
              /\ ResumeFrame(t, frames)
    PROVE  InvStops'
<1>1. IsFiniteSet(stacks') /\ Cardinality(stacks') <= TASK_MAX_TASKS
  BY Zenon DEF InvStops
<1>2. /\ cpu' = t
      /\ ReapsAt(pc, cpu)'
      /\ pc' \in Open
  BY Zenon DEF ResumeFrame, ReapsAt, Reaping, Open, Label
<1>3. \A u \in Task : \/ preempt_frame'[u] = frames[u]
                      \/ preempt_frame'[u].at = "dead"
  BY Zenon DEF ResumeFrame, DeadFrame, NoFrame
<1>4. preempt_frame'[t].at \notin Reaping
  BY Zenon DEF ResumeFrame, DeadFrame, NoFrame, Reaping
<1>5. \A u \in Task : ReapsAt(preempt_frame[u].at, u)'
  BY Zenon, <1>3 DEF ReapsAt, Reaping
<1>6. \A u \in Task : preempt_frame'[u].at \in Reaping =>
          u # cpu' /\ resume_authority'[u] = "INTERRUPT" /\ pc' \notin Boot
  BY Zenon, <1>2, <1>3, <1>4 DEF Open, Boot, Reaping
<1>7. HaltsOnlyWhenNothingIsRunnable'
  BY Zenon, <1>2 DEF HaltsOnlyWhenNothingIsRunnable, Open
<1> QED
  BY Zenon, <1>1, <1>2, <1>5, <1>6, <1>7 DEF InvStops

\* The dispatcher never finds a successor without a continuation.
LEMMA DispatchStops ==
    ASSUME IInv, InvStops, FirstDispatch \/ x86_64_scheduler_dispatch
    PROVE  InvStops'
<1> DEFINE next == scheduler_current
<1> USE ConstantsAssumption DEF ownerVars
<1>1. /\ next \in Task
      /\ preempt_frame \in [Task -> FrameType]
      /\ UNCHANGED <<pending, stacks, resume_authority, state>>
  BY Zenon DEF FirstDispatch, x86_64_scheduler_dispatch, IInv, TypeOK, InvControl
<1>2. /\ \A u \in Task : ReapsAt(preempt_frame[u].at, u)
      /\ \A u \in Task : preempt_frame[u].at \in Reaping =>
            resume_authority[u] = "INTERRUPT" /\ pc \notin Boot
      /\ \A u \in Task : state[u] = "TERMINATED" => resume_authority[u] = "NONE"
  BY Zenon DEF InvStops
<1>3. \/ /\ preempt_frame[next].at \notin Reaping
         /\ cpu' = next
         /\ pc' \in {"bootstrap", "run", "past_noreturn"}
         /\ preempt_frame' = preempt_frame
      \/ /\ preempt_frame[next].on = next
         /\ preempt_frame[next].at \in Open
         /\ ResumeFrame(next, preempt_frame)
  <2>1. CASE FirstDispatch
    <3>1. context[next] = "bootstrap" /\ pc = "boot_switch"
      BY Zenon, <2>1 DEF FirstDispatch, IInv, InvContinuations
    <3> QED
      BY Zenon, <1>1, <1>2, <2>1, <3>1 DEF FirstDispatch, ResumeContext, ResumesAt, Boot
  <2>2. CASE x86_64_scheduler_dispatch
    <3>1. /\ cpu \in Task
          /\ local.current = cpu
          /\ next # cpu
          /\ local.target.kind = resume_authority[next]
          /\ local.target.task = next
      <4>1. pc = "dispatch" /\ pc \in Critical /\ pc \in UsesCurrent
        BY Zenon, <2>2 DEF x86_64_scheduler_dispatch, Critical, UsesCurrent
      <4>2. local.target = x86_64_scheduler_resolve_target(next) /\ next # cpu
        BY Zenon, <4>1 DEF IInv, InvLocals, InvRunning
      <4> QED
        BY <4>1, <4>2, Located DEF x86_64_scheduler_resolve_target
    <3>2. Resumable(next)
      BY Zenon, <2>2 DEF x86_64_scheduler_dispatch, IInv, InvContinuations
    <3>3. CASE resume_authority[next] = "CONTEXT"
      <4>1. context \in [Task -> {"bootstrap", "scheduler_resume", "interrupt_resume", "dead"}]
            /\ context[next] # "dead"
        BY Zenon, <3>2, <3>3 DEF Resumable, LiveContinuation, IInv, TypeOK
      <4>2. /\ ResumeContext(next, [context EXCEPT ![cpu] = "scheduler_resume"])
            /\ UNCHANGED preempt_frame
        BY Zenon, <2>2, <3>1, <3>3 DEF x86_64_scheduler_dispatch
      <4> HIDE DEF next
      <4> QED
        BY Zenon, <1>1, <1>2, <3>1, <3>3, <4>1, <4>2 DEF ResumeContext, ResumesAt
    <3>4. CASE resume_authority[next] = "INTERRUPT"
      <4>1. preempt_frame[next].on = next /\ preempt_frame[next].at \in Open
        BY Zenon, <3>2, <3>4 DEF Resumable, LiveContinuation
      <4> QED
        BY Zenon, <2>2, <3>1, <3>4, <4>1 DEF x86_64_scheduler_dispatch
    <3> QED
      BY Zenon, <3>2, <3>3, <3>4 DEF Resumable, LiveContinuation
  <2> QED
    BY Zenon, <2>1, <2>2
<1> HIDE DEF next
<1> QED
  BY Zenon, <1>1, <1>2, <1>3, ResumeStops

\* The timer path never fails a check of the preemption.
LEMMA TimerStops == ASSUME IInv, InvStops, LapicTimer PROVE InvStops'
<1> USE ConstantsAssumption
<1> DEFINE next == Head(runqueue)
           frames == [preempt_frame EXCEPT ![cpu] = LiveFrame]
<1>1. /\ pc \in Open
      /\ cpu \in Task
      /\ scheduler_current = cpu
      /\ state[cpu] = "RUNNING"
      /\ local \in LocalsType
      /\ preempt_frame \in [Task -> FrameType]
      /\ resume_authority \in [Task -> {"NONE", "CONTEXT", "INTERRUPT"}]
      /\ state \in [Task -> {"NEW", "READY", "RUNNING", "BLOCKED", "TERMINATED"}]
  BY Zenon DEF IInv, LapicTimer, TypeOK, InvControl, InvRunning, NobodyRuns, Boot, Stopped, Open
<1>2. /\ LiveFrame \in FrameType
      /\ LiveFrame.on = cpu
      /\ LiveFrame.at \in Open
      /\ ReapsAt(LiveFrame.at, cpu)
  BY Zenon, <1>1 DEF LiveFrame, FrameType, Label, Open, InvStops, ReapsAt, Reaping
<1>3. /\ frames \in [Task -> FrameType]
      /\ frames[cpu] = LiveFrame
      /\ \A u \in Task \ {cpu} : frames[u] = preempt_frame[u]
  BY Zenon, <1>1, <1>2
<1>4. /\ x86_64_preempt_handle_timer(cpu, frames)
      /\ UNCHANGED <<wait_queue, ownerVars, preempt_enabled>>
  BY Zenon, <1>1 DEF IInv, LapicTimer, InvControl, Open
<1> HIDE DEF frames
<1>5. /\ UNCHANGED <<pending, stacks>>
      /\ resume_authority' = [resume_authority EXCEPT ![cpu] = "INTERRUPT"]
  BY Zenon, <1>4 DEF x86_64_preempt_handle_timer, ownerVars
<1>6. /\ \A u \in Task : ReapsAt(frames[u].at, u)
      /\ \A u \in Task : frames[u].at \in Reaping =>
            resume_authority'[u] = "INTERRUPT"
  <2>1. /\ \A u \in Task : ReapsAt(preempt_frame[u].at, u)
        /\ \A u \in Task : preempt_frame[u].at \in Reaping =>
              resume_authority[u] = "INTERRUPT"
    BY Zenon DEF InvStops
  <2> QED
    BY Zenon, <1>1, <1>2, <1>3, <1>5, <2>1
<1>7. /\ \A u \in Task : state[u] = "TERMINATED" => resume_authority[u] = "NONE"
      /\ \A u \in Task : u # cpu => (preempt_frame[u].at \in Reaping =>
            resume_authority[u] = "INTERRUPT")
  BY Zenon DEF InvStops
<1>8. CASE ~(SuccessorReady /\ CanEnqueue(cpu))
  <2>1. ResumeFrame(cpu, frames) /\ UNCHANGED state
    BY Zenon, <1>1, <1>4, <1>8 DEF x86_64_preempt_handle_timer
  <2>2. \A u \in Task : state'[u] = "TERMINATED" => resume_authority'[u] = "NONE"
    BY Zenon, <1>1, <1>5, <1>7, <2>1
  <2> QED
    BY Zenon, <1>1, <1>2, <1>3, <1>5, <1>6, <2>1, <2>2, ResumeStops
<1>9. CASE SuccessorReady /\ CanEnqueue(cpu)
  <2>1. /\ next \in Task
        /\ next # cpu
        /\ Resumable(next)
    <3>1. next \in Elems(runqueue) /\ next \in Task /\ cpu \notin Elems(runqueue)
      BY Zenon, <1>9, TailElems DEF SuccessorReady, CanEnqueue, IInv, TypeOK, InvQueues
    <3> QED
      BY Zenon, <3>1 DEF IInv, InvQueues, InvContinuations
  <2>2. /\ state' = [state EXCEPT ![cpu] = "READY", ![next] = "RUNNING"]
        /\ \/ /\ resume_authority[next] = "CONTEXT"
              /\ ResumeContext(next, context)
              /\ preempt_frame' = frames
           \/ /\ resume_authority[next] # "CONTEXT"
              /\ ResumeFrame(next, frames)
    BY Zenon, <1>1, <1>4, <1>9 DEF x86_64_preempt_handle_timer, scheduler_preempt_current, runqueue_peek
  <2>3. \A u \in Task : state'[u] = "TERMINATED" => resume_authority'[u] = "NONE"
    BY Zenon, <1>1, <1>5, <1>7, <2>1, <2>2
  <2>4. frames[next] = preempt_frame[next]
    BY Zenon, <1>3, <2>1
  <2>5. \/ /\ frames[next].at \notin Reaping
           /\ cpu' = next
           /\ pc' \in {"bootstrap", "run", "past_noreturn"}
           /\ preempt_frame' = frames
        \/ /\ frames[next].on = next
           /\ frames[next].at \in Open
           /\ ResumeFrame(next, frames)
    <3>1. CASE resume_authority[next] = "CONTEXT"
      <4>1. context[next] \in {"bootstrap", "scheduler_resume", "interrupt_resume"}
        BY Zenon, <2>1, <3>1 DEF Resumable, LiveContinuation, IInv, TypeOK
      <4> QED
        BY Zenon, <1>7, <2>1, <2>2, <2>4, <3>1, <4>1 DEF ResumeContext, ResumesAt
    <3>2. CASE resume_authority[next] # "CONTEXT"
      BY Zenon, <2>1, <2>2, <2>4, <3>2 DEF Resumable, LiveContinuation
    <3> QED
      BY Zenon, <3>1, <3>2
  <2> HIDE DEF next
  <2> QED
    BY SMTT(30), <1>3, <1>5, <1>6, <2>1, <2>3, <2>5, ResumeStops
<1> QED
  BY Zenon, <1>8, <1>9

\* The pending ring has a slot for every task that can terminate: the tasks
\* in it and the one being published still have their stacks.
LEMMA PublishStops ==
    ASSUME IInv, InvStops, lifecycle_publish_terminated_task
    PROVE  InvStops'
<1>1. /\ pc = "exit_publish"
      /\ pc \in Critical
      /\ pc \in UsesCurrent
  BY Zenon DEF lifecycle_publish_terminated_task, Critical, UsesCurrent
<1>2. /\ cpu \in Task
      /\ local.current = cpu
      /\ cpu \in stacks
      /\ pending \in Seq(Task)
      /\ NoDuplicates(pending)
      /\ Elems(pending) \subseteq stacks \ {cpu}
      /\ registered = stacks
  <2>1. cpu \in Task /\ local.current = cpu
    BY Zenon, <1>1, Located
  <2>2. TypeOK /\ InvOwners
    BY Zenon DEF IInv
  <2>3. Elems(pending) \subseteq Task
    BY <2>2 DEF TypeOK, Elems
  <2> QED
    BY Zenon, <1>1, <2>1, <2>2, <2>3, ConstantsAssumption DEF TypeOK, InvOwners
<1>3. Len(pending) < TASK_MAX_TASKS
  <2>1. /\ IsFiniteSet(stacks)
        /\ Cardinality(stacks) <= TASK_MAX_TASKS
        /\ TASK_MAX_TASKS \in Nat
    BY Zenon, ConstantsAssumption DEF InvStops
  <2>2. /\ IsFiniteSet(stacks \ {cpu})
        /\ Cardinality(stacks \ {cpu}) = Cardinality(stacks) - 1
    BY Zenon, <1>2, <2>1, FS_RemoveElement
  <2>3. /\ Cardinality(Elems(pending)) <= Cardinality(stacks \ {cpu})
        /\ Cardinality(Elems(pending)) = Len(pending)
    BY Zenon, <1>2, <2>2, FS_Subset, ElemsCardinality
  <2>4. Cardinality(stacks) \in Nat /\ Len(pending) \in Nat
    BY <1>2, <2>1, FS_CardinalityType
  <2> QED
    BY <2>1, <2>2, <2>3, <2>4
<1>4. /\ pending' = Append(pending, cpu)
      /\ pc' = "exit_take"
      /\ UNCHANGED <<taskVars, stacks, cpu>>
  BY Zenon, <1>2, <1>3 DEF lifecycle_publish_terminated_task
<1>5. pending' # <<>>
  BY <1>2, <1>4
<1>6. \A at, t : ReapsAt(at, t) => ReapsAt(at, t)'
  BY Zenon, <1>5 DEF ReapsAt, Reaping
<1>7. \A t \in Task : ReapsAt(preempt_frame[t].at, t)'
  BY Zenon, <1>4, <1>6 DEF InvStops, taskVars
<1>8. ReapsAt(pc, cpu)' /\ HaltsOnlyWhenNothingIsRunnable'
  BY Zenon, <1>4 DEF ReapsAt, Reaping, HaltsOnlyWhenNothingIsRunnable
<1> QED
  BY Zenon, <1>1, <1>4, <1>7, <1>8 DEF InvStops, taskVars, Boot

\* With nothing runnable the exit halts; otherwise the hand-over succeeds.
LEMMA ExitStops == ASSUME IInv, InvStops, scheduler_exit_current PROVE InvStops'
<1>1. /\ pc = "exit_take"
      /\ pc \in Critical
      /\ pc \in UsesCurrent
  BY Zenon DEF scheduler_exit_current, Critical, UsesCurrent
<1>2. /\ cpu \in Task
      /\ local.current = cpu
      /\ scheduler_current = cpu
      /\ ~irq_enabled
      /\ state[cpu] = "TERMINATED"
  BY Zenon, <1>1, Located DEF IInv, InvRunning
<1>3. UNCHANGED <<resume_authority, preempt_frame, pending, stacks, cpu>>
  BY Zenon DEF scheduler_exit_current, ownerVars
<1>4. CASE runqueue = <<>>
  <2>1. pc' = "halted" /\ UNCHANGED <<state, runqueue>>
    BY Zenon, <1>2, <1>4 DEF scheduler_exit_current, Halt, SuccessorReady
  <2> QED
    BY <1>1, <1>2, <1>3, <1>4, <2>1 DEF InvStops, ReapsAt, Reaping, HaltsOnlyWhenNothingIsRunnable, Boot
<1>5. CASE runqueue # <<>>
  <2>1. SuccessorReady
    BY Zenon, <1>2, <1>5, HeadIsReady
  <2>2. Head(runqueue) \in Task /\ state \in [Task -> {"NEW", "READY", "RUNNING", "BLOCKED", "TERMINATED"}]
    BY Zenon, <1>5, TailElems DEF IInv, TypeOK, InvQueues
  <2>3. pc' = "dispatch" /\ state' = [state EXCEPT ![Head(runqueue)] = "RUNNING"]
    BY Zenon, <1>2, <1>5, <2>1 DEF scheduler_exit_current, CommitSuccessor
  <2> QED
    BY Zenon, <1>3, <2>2, <2>3, QuietStops DEF Quiet, Reaping, Boot
<1> QED
  BY Zenon, <1>4, <1>5

\* The head of the pending ring passes every check of lifecycle_reap_one and
\* task_destroy.
LEMMA HeadIsReclaimable ==
    ASSUME IInv, InvStops, pc \in {"reap_detach", "reap_destroy"}, pending # <<>>
    PROVE  LET task == Head(pending) IN
           /\ task \in Task
           /\ task \in stacks
           /\ task # cpu
           /\ state[task] = "TERMINATED"
           /\ resume_authority[task] = "NONE"
           /\ wait_queue[task] = NULL
           /\ task \notin Elems(runqueue)
<1> DEFINE task == Head(pending)
<1>1. TypeOK /\ InvControl /\ InvRunning /\ InvQueues /\ InvOwners
  BY Zenon DEF IInv
<1>2. task \in Elems(pending) /\ task \in Task
  BY Zenon, <1>1, TailElems DEF TypeOK, InvOwners
<1>3. task \in stacks /\ state[task] = "TERMINATED"
  BY Zenon, <1>1, <1>2 DEF InvOwners
<1>4. state[cpu] = "RUNNING"
  BY Zenon, <1>1 DEF InvControl, InvRunning, NobodyRuns, Boot
<1> HIDE DEF task
<1>5. /\ resume_authority[task] = "NONE"
      /\ wait_queue[task] = NULL
      /\ task \notin Elems(runqueue)
  BY Zenon, <1>1, <1>2, <1>3 DEF InvStops, InvQueues
<1> QED
  BY Zenon, <1>2, <1>3, <1>4, <1>5 DEF task

\* A reap fails only when another reaper has emptied the ring meanwhile.
LEMMA ReapStops ==
    ASSUME IInv, InvStops, ReapEnter \/ ReapSave \/ ReapDetach \/ ReapDestroy \/ StopKernel
    PROVE  InvStops'
<1> USE DEF taskVars, ownerVars
<1>1. CASE ReapEnter \/ ReapSave
  <2>1. /\ UNCHANGED <<taskVars, ownerVars, cpu>>
        /\ pc' \in {"reap_save", "reap_detach"}
        /\ cpu \in Reaper
        /\ Reaper = {cpu} => pending # <<>>
    BY Zenon, <1>1 DEF ReapEnter, ReapSave, x86_64_irq_save, InvStops, ReapsAt, Reaping
  <2>2. /\ ReapsAt(pc, cpu)'
        /\ HaltsOnlyWhenNothingIsRunnable'
        /\ pc' \notin Boot
    BY Zenon, <2>1 DEF ReapsAt, Reaping, HaltsOnlyWhenNothingIsRunnable, Boot
  <2>3. \A t \in Task : ReapsAt(preempt_frame[t].at, t)'
    BY Zenon, <2>1 DEF InvStops, ReapsAt, Reaping
  <2> QED
    BY Zenon, <2>1, <2>2, <2>3 DEF InvStops
<1>2. CASE ReapDetach
  <2>1. /\ pc = "reap_detach"
        /\ pc \in Critical
        /\ UNCHANGED <<taskVars, stacks, pending, cpu>>
    BY Zenon, <1>2 DEF ReapDetach, Critical
  <2>2. cpu \in Reaper /\ (Reaper = {cpu} => pending # <<>>)
    BY Zenon, <2>1 DEF InvStops, ReapsAt, Reaping
  <2>3. scheduler_current = cpu
    BY Zenon, <2>1, Located
  <2>4. registered = stacks
    BY Zenon, <2>1 DEF IInv, InvOwners
  <2>5. pc' = "reap_destroy" \/ (pc' = "failed" /\ pending = <<>>)
    <3>1. CASE pending = <<>>
      BY Zenon, <1>2, <3>1 DEF ReapDetach, RestoreAndFail
    <3>2. CASE pending # <<>>
      <4> DEFINE task == Head(pending)
      <4>1. /\ task \in stacks
            /\ task # cpu
            /\ state[task] = "TERMINATED"
            /\ resume_authority[task] = "NONE"
            /\ wait_queue[task] = NULL
            /\ task \notin Elems(runqueue)
        BY Zenon, <2>1, <3>2, HeadIsReclaimable
      <4> QED
        BY Zenon, <1>2, <2>3, <2>4, <3>2, <4>1 DEF ReapDetach
    <3> QED
      BY Zenon, <3>1, <3>2
  <2>6. /\ ReapsAt(pc, cpu)'
        /\ HaltsOnlyWhenNothingIsRunnable'
        /\ pc' \notin Boot
    BY Zenon, <2>1, <2>2, <2>5 DEF ReapsAt, Reaping, HaltsOnlyWhenNothingIsRunnable, Boot
  <2>7. \A t \in Task : ReapsAt(preempt_frame[t].at, t)'
    BY Zenon, <2>1 DEF InvStops, ReapsAt, Reaping
  <2> QED
    BY Zenon, <2>1, <2>6, <2>7 DEF InvStops
<1>3. CASE ReapDestroy
  <2> DEFINE task == Head(pending)
  <2>1. /\ pc = "reap_destroy"
        /\ pc \in Critical
        /\ pending # <<>>
        /\ cpu \in Reaper
    BY Zenon, <1>3 DEF ReapDestroy, Critical, IInv, InvOwners, InvStops, ReapsAt, Reaping
  <2>2. /\ task \in Task
        /\ task \in stacks
        /\ task # cpu
        /\ state[task] = "TERMINATED"
        /\ resume_authority[task] = "NONE"
        /\ wait_queue[task] = NULL
        /\ task \notin Elems(runqueue)
    BY Zenon, <2>1, HeadIsReclaimable
  <2>3. scheduler_current = cpu /\ task \notin members \cup registered
    BY Zenon, <2>1, Located DEF IInv, InvOwners
  <2>4. /\ stacks' = stacks \ {task}
        /\ state' = [state EXCEPT ![task] = "TERMINATED"]
        /\ resume_authority' = [resume_authority EXCEPT ![task] = "NONE"]
        /\ preempt_frame' = [preempt_frame EXCEPT ![task] = NoFrame]
        /\ pc' = "run"
        /\ cpu' = cpu
    BY Zenon, <1>3, <2>2, <2>3 DEF ReapDestroy, RestoreAndReturn
  <2> HIDE DEF task
  <2>5. /\ state \in [Task -> {"NEW", "READY", "RUNNING", "BLOCKED", "TERMINATED"}]
        /\ resume_authority \in [Task -> {"NONE", "CONTEXT", "INTERRUPT"}]
        /\ preempt_frame \in [Task -> FrameType]
    BY Zenon DEF IInv, TypeOK
  <2>6. IsFiniteSet(stacks') /\ Cardinality(stacks') <= TASK_MAX_TASKS
    <3>1. IsFiniteSet(stacks) /\ Cardinality(stacks) <= TASK_MAX_TASKS
      BY Zenon DEF InvStops
    <3>2. /\ IsFiniteSet(stacks \ {task})
          /\ Cardinality(stacks \ {task}) = Cardinality(stacks) - 1
      BY Zenon, <2>2, <3>1, FS_RemoveElement
    <3>3. Cardinality(stacks) \in Nat
      BY Zenon, <3>1, FS_CardinalityType
    <3> QED
      BY <2>4, <3>1, <3>2, <3>3, ConstantsAssumption
  <2>7. \A t \in Task :
           \/ preempt_frame'[t].at = "none"
           \/ preempt_frame'[t] = preempt_frame[t] /\ resume_authority'[t] = resume_authority[t]
    BY Zenon, <2>2, <2>4, <2>5 DEF NoFrame
  <2>8. \A t \in Task : /\ preempt_frame[t].at \in Reaping => t # cpu
                        /\ ReapsAt(preempt_frame[t].at, t)
    BY Zenon DEF InvStops
  <2>9. \A t \in Task : ReapsAt(preempt_frame[t].at, t)'
    BY Zenon, <2>1, <2>7, <2>8 DEF ReapsAt, Reaping
  <2>10. \A t \in Task : preempt_frame'[t].at \in Reaping =>
            t # cpu' /\ resume_authority'[t] = "INTERRUPT" /\ pc' \notin Boot
    BY Zenon, <2>4, <2>7 DEF InvStops, Boot, Reaping
  <2>11. \A t \in Task : state'[t] = "TERMINATED" => resume_authority'[t] = "NONE"
    BY Zenon, <2>2, <2>4, <2>5 DEF InvStops
  <2>12. ReapsAt(pc, cpu)' /\ HaltsOnlyWhenNothingIsRunnable'
    BY Zenon, <2>4 DEF ReapsAt, Reaping, HaltsOnlyWhenNothingIsRunnable
  <2> QED
    BY Zenon, <2>6, <2>9, <2>10, <2>11, <2>12 DEF InvStops
<1>4. CASE StopKernel
  <2>1. /\ pc = "failed"
        /\ pc' = "halted"
        /\ UNCHANGED <<taskVars, ownerVars, runqueue, cpu>>
    BY Zenon, <1>4 DEF StopKernel, Halt
  <2>2. cpu \in Reaper /\ Reaper # {cpu}
    BY Zenon, <2>1 DEF InvStops, ReapsAt, Reaping
  <2>3. state[cpu] = "RUNNING"
    BY Zenon, <2>1 DEF IInv, InvControl, InvRunning, NobodyRuns, Boot
  <2>4. ReapsAt(pc, cpu)' /\ HaltsOnlyWhenNothingIsRunnable' /\ pc' \notin Boot
    BY Zenon, <2>1, <2>2, <2>3 DEF ReapsAt, Reaping, HaltsOnlyWhenNothingIsRunnable, Boot
  <2>5. \A t \in Task : ReapsAt(preempt_frame[t].at, t)'
    BY Zenon, <2>1 DEF InvStops, ReapsAt, Reaping
  <2> QED
    BY Zenon, <2>1, <2>4, <2>5 DEF InvStops
<1> QED
  BY Zenon, <1>1, <1>2, <1>3, <1>4

\* Why the kernel stops: IInv and InvStops are inductive together.
LEMMA NextStops == IInv /\ InvStops /\ [Next]_vars => InvStops'
<1> SUFFICES ASSUME IInv, InvStops, [Next]_vars PROVE InvStops'
  OBVIOUS
<1>1. CASE KernelStep \/ TaskCall
  BY Zenon, <1>1, QuietMoves, QuietSections, DispatchStops, PublishStops, ExitStops,
     ReapStops DEF KernelStep, TaskCall
<1>2. CASE LapicTimer
  BY Zenon, <1>2, TimerStops
<1>3. CASE Stay \/ UNCHANGED vars
  <2>1. UNCHANGED vars
    BY Zenon, <1>3 DEF Stay
  <2> QED
    BY Zenon, <2>1 DEF InvStops, ReapsAt, HaltsOnlyWhenNothingIsRunnable, vars, taskVars,
       ownerVars, cpuVars
<1> QED
  BY Zenon, <1>1, <1>2, <1>3 DEF Next

\* lifecycle.c and scheduler.c: none of the internal-invariant failures can
\* happen.  The kernel halts when the last runnable task exits, or because a
\* second reaper emptied the ring between the check and the critical section.
THEOREM NoInternalFailure == Spec => []HaltsOnlyWhenNothingIsRunnable
<1>1. Init => IInv /\ InvStops
  BY Zenon, InitIInv, InitStops
<1>2. IInv /\ InvStops /\ [Next]_vars => (IInv /\ InvStops)'
  BY Zenon, NextIInv, NextStops
<1>3. InvStops => HaltsOnlyWhenNothingIsRunnable
  BY Zenon DEF InvStops
<1> QED
  BY <1>1, <1>2, <1>3, PTL DEF Spec

-----------------------------------------------------------------------------
(* FIFO order.                                                              *)

\* The entries of seq before t.
Before(seq, t) == {seq[i] : i \in {j \in 1..Len(seq) : \A k \in 1..j : seq[k] # t}}

KeepsOrder(old, new) ==
    \A t \in Elems(old) \cap Elems(new) :
        /\ Before(new, t) \subseteq Before(old, t)
        /\ Elems(old) \ Before(old, t) \subseteq Elems(new)

\* A new entry at the tail comes before nobody.
LEMMA AppendKeepsOrder ==
    ASSUME NEW S, NEW seq \in Seq(S), NEW x \in S
    PROVE  KeepsOrder(seq, Append(seq, x))
<1> DEFINE new == Append(seq, x)
<1>1. /\ Len(seq) \in Nat
      /\ Len(new) = Len(seq) + 1
      /\ \A i \in 1..Len(seq) : new[i] = seq[i]
  OBVIOUS
<1>2. Elems(seq) \subseteq Elems(new)
  BY Zenon, AppendElems
<1> HIDE DEF new
<1>3. ASSUME NEW t \in Elems(seq), NEW y \in Before(new, t) PROVE y \in Before(seq, t)
  <2>1. PICK i \in 1..Len(seq) : seq[i] = t
    BY Zenon DEF Elems
  <2>2. PICK j \in 1..Len(new) : y = new[j] /\ \A k \in 1..j : new[k] # t
    BY Zenon, <1>3 DEF Before
  <2>3. j < i
    BY SMTT(30), <1>1, <2>1, <2>2
  <2>4. j \in 1..Len(seq) /\ y = seq[j] /\ \A k \in 1..j : seq[k] # t
    BY <1>1, <2>2, <2>3
  <2> QED
    BY Zenon, <2>4 DEF Before
<1> QED
  BY Zenon, <1>2, <1>3 DEF KeepsOrder, new

\* Taking the head moves everybody else one place forward.
LEMMA TailKeepsOrder ==
    ASSUME NEW S, NEW seq \in Seq(S), seq # <<>>, NoDuplicates(seq)
    PROVE  KeepsOrder(seq, Tail(seq))
<1> DEFINE new == Tail(seq)
<1>1. /\ Len(seq) \in Nat
      /\ Len(seq) >= 1
      /\ Len(new) = Len(seq) - 1
      /\ \A i \in 1..Len(new) : new[i] = seq[i + 1]
      /\ seq[1] = Head(seq)
  OBVIOUS
<1>2. \A t : t \in Elems(new) <=> t \in Elems(seq) /\ t # Head(seq)
  BY Zenon, TailElems
<1> HIDE DEF new
<1>3. ASSUME NEW t \in Elems(new), NEW y \in Before(new, t) PROVE y \in Before(seq, t)
  <2>1. PICK j \in 1..Len(new) : y = new[j] /\ \A k \in 1..j : new[k] # t
    BY Zenon, <1>3 DEF Before
  <2>2. j + 1 \in 1..Len(seq) /\ y = seq[j + 1]
    BY <1>1, <2>1
  <2>3. ASSUME NEW k \in 1..(j + 1) PROVE seq[k] # t
    <3>1. CASE k = 1
      BY Zenon, <1>1, <1>2, <3>1
    <3>2. CASE k # 1
      <4>1. k - 1 \in 1..j /\ k - 1 \in 1..Len(new)
        BY <1>1, <2>1, <2>3, <3>2
      <4>2. new[k - 1] = seq[(k - 1) + 1] /\ new[k - 1] # t
        BY Zenon, <1>1, <2>1, <4>1
      <4>3. (k - 1) + 1 = k
        BY <2>3
      <4> QED
        BY Zenon, <4>2, <4>3
    <3> QED
      BY Zenon, <3>1, <3>2
  <2> QED
    BY Zenon, <2>2, <2>3 DEF Before
<1>4. ASSUME NEW t \in Elems(new), NEW y \in Elems(seq) \ Before(seq, t)
      PROVE  y \in Elems(new)
  <2>1. Head(seq) \in Before(seq, t)
    <3>1. 1 \in 1..Len(seq) /\ \A k \in 1..1 : seq[k] # t
      BY <1>1, <1>2, <1>4
    <3> QED
      BY Zenon, <1>1, <3>1 DEF Before
  <2> QED
    BY Zenon, <1>2, <2>1
<1> QED
  BY Zenon, <1>3, <1>4 DEF KeepsOrder, new

\* Every step appends a task that is not queued, takes the head, or both.
LEMMA QueueMoves ==
    ASSUME IInv, Next
    PROVE  \/ runqueue' = runqueue
           \/ runqueue # <<>> /\ runqueue' = Tail(runqueue)
           \/ \E t \in Task :
                 /\ t \notin Elems(runqueue)
                 /\ \/ runqueue' = Append(runqueue, t)
                    \/ runqueue # <<>> /\ runqueue' = Tail(Append(runqueue, t))
<1>1. CASE scheduler_start \/ scheduler_block_current \/ scheduler_exit_current
  BY Zenon, <1>1 DEF scheduler_start, scheduler_block_current, scheduler_exit_current,
     CommitSuccessor, SuccessorReady
<1>2. CASE YieldCommit
  <2>1. pc \in Critical /\ pc \in UsesCurrent
    BY Zenon, <1>2 DEF YieldCommit, Critical, UsesCurrent
  <2>2. local.current \in Task
    BY Zenon, <2>1, ConstantsAssumption DEF IInv, TypeOK, InvControl, InvLocals, LocalsFit, Boot, Critical
  <2> QED
    BY Zenon, <1>2, <2>2 DEF YieldCommit, CanEnqueue
<1>3. CASE YieldTake
  <2>1. runqueue # <<>> /\ state[Head(runqueue)] = "READY"
    BY Zenon, <1>3, TailElems DEF YieldTake, IInv, InvLocals, TypeOK, InvQueues
  <2> QED
    BY Zenon, <1>3, <2>1 DEF YieldTake, CommitSuccessor, runqueue_peek
<1>4. CASE WakeReady
  <2>1. local.arg \in Task
    BY Zenon, <1>4 DEF WakeReady, IInv, InvLocals, LocalsFit, UsesTask
  <2> QED
    BY Zenon, <1>4, <2>1 DEF WakeReady, CanEnqueue
<1>5. CASE LapicTimer
  <2>1. \/ runqueue' = runqueue
        \/ /\ scheduler_current # NULL
           /\ CanEnqueue(scheduler_current)
           /\ runqueue # <<>>
           /\ runqueue' = Tail(Append(runqueue, scheduler_current))
    BY Zenon, <1>5 DEF LapicTimer, x86_64_preempt_handle_timer, SuccessorReady,
       scheduler_preempt_current
  <2>2. scheduler_current # NULL => scheduler_current \in Task
    BY Zenon DEF IInv, TypeOK
  <2> QED
    BY Zenon, <2>1, <2>2 DEF CanEnqueue
<1>6. CASE runqueue' = runqueue
  BY Zenon, <1>6
<1> QED
  BY ZenonT(60), <1>1, <1>2, <1>3, <1>4, <1>5, <1>6
     DEF Next, KernelStep, TaskCall, Stay, vars, FirstDispatch,
     task_bootstrap_entry, x86_64_scheduler_dispatch, PastNoreturn, YieldSave,
     BlockSave, BlockCommit, BlockEnqueue, WakeSave, WakeCommit, ExitSave, task_exit, ReapSave,
     lifecycle_publish_terminated_task, ReapDetach, ReapDestroy, StopKernel, Hlt, YieldEnter, ExitEnter,
     ReapEnter, BlockEnter, WakeEnter

\* Every step keeps the order of the run queue.
LEMMA NextKeepsOrder == IInv /\ [Next]_vars => KeepsOrder(runqueue, runqueue')
<1> SUFFICES ASSUME IInv, [Next]_vars PROVE KeepsOrder(runqueue, runqueue')
  OBVIOUS
<1>1. runqueue \in Seq(Task) /\ NoDuplicates(runqueue)
  BY Zenon DEF IInv, TypeOK, InvQueues
<1>2. CASE runqueue' = runqueue
  BY Zenon, <1>2 DEF KeepsOrder
<1>3. CASE runqueue # <<>> /\ runqueue' = Tail(runqueue)
  BY Zenon, <1>1, <1>3, TailKeepsOrder
<1>4. ASSUME NEW t \in Task, t \notin Elems(runqueue), runqueue' = Append(runqueue, t)
      PROVE  KeepsOrder(runqueue, runqueue')
  BY Zenon, <1>1, <1>4, AppendKeepsOrder
<1>5. ASSUME NEW t \in Task, t \notin Elems(runqueue),
             runqueue' = Tail(Append(runqueue, t))
      PROVE  KeepsOrder(runqueue, runqueue')
  <2> DEFINE mid == Append(runqueue, t)
  <2>1. /\ mid \in Seq(Task)
        /\ NoDuplicates(mid)
        /\ \A u : u \in Elems(mid) <=> u \in Elems(runqueue) \/ u = t
        /\ mid # <<>>
    BY Zenon, <1>1, <1>5, AppendElems
  <2>2. KeepsOrder(runqueue, mid)
    BY Zenon, <1>1, AppendKeepsOrder
  <2>3. runqueue' = Tail(mid)
    BY Zenon, <1>5
  <2> HIDE DEF mid
  <2>4. KeepsOrder(mid, Tail(mid))
    BY Zenon, <2>1, TailKeepsOrder
  <2> QED
    BY Zenon, <2>1, <2>2, <2>3, <2>4 DEF KeepsOrder
<1>6. CASE Next
  BY Zenon, <1>2, <1>3, <1>4, <1>5, <1>6, QueueMoves
<1> QED
  BY Zenon, <1>2, <1>6 DEF vars

\* runqueue.c: in a queue of any length, under any mix of yields, wake-ups,
\* exits and preemptions, no task is overtaken while it waits for the CPU.
THEOREM FifoOrder == Spec => NoOvertaking
<1>1. KeepsOrder(runqueue, runqueue') =>
         \A t \in Elems(runqueue) \cap Elems(runqueue') :
            /\ Ahead(t)' \subseteq Ahead(t)
            /\ Elems(runqueue) \ Ahead(t) \subseteq Elems(runqueue')
  BY Zenon DEF KeepsOrder, Before, Ahead
<1>2. IInv /\ [Next]_vars =>
         [\A t \in Elems(runqueue) \cap Elems(runqueue') :
            /\ Ahead(t)' \subseteq Ahead(t)
            /\ Elems(runqueue) \ Ahead(t) \subseteq Elems(runqueue')]_vars
  BY Zenon, <1>1, NextKeepsOrder
<1> QED
  BY <1>2, InductiveInvariant, PTL DEF Spec, NoOvertaking
=============================================================================
