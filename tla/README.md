# A TLA+ verification of the BatOS kernel

BatOS is a small x86_64 kernel: a boot path, physical and virtual memory, a
heap, APIC-based interrupts and timers, and a preemptive single-CPU scheduler
with deferred reclamation of finished tasks. This directory keeps TLA+ models
of the parts whose correctness depends on the *order* in which things happen,
TLC configurations that check them on small instances, and TLAPS proofs of the
most important results for every instance.

All paths below are relative to `src/kernel/`.

## 1. The system

| Part | Sources | What it does, and with whom it interacts |
|---|---|---|
| scheduler | `sched/scheduler.c`, `sched/task.c` | run queue, task states, yield / block / wake / exit; called by task code, and by the timer path through `scheduler_preempt_current` |
| dispatch and context switch | `arch/x86_64/sched/{dispatch.c,switch.asm,preempt.c,preempt.asm}` | saves the running task's registers, or takes the interrupt frame as its continuation, and resumes the successor |
| interrupt entry | `arch/x86_64/interrupt/{interrupts.asm,irq_state.c}` | pushes the frame, calls the timer handler, `iretq`; `cli`/`sti` sections |
| lifecycle | `lifecycle/lifecycle.c` | ring of terminated managed tasks; the reaper detaches and destroys them |
| runtime | `runtime/runtime.c` | creates the kernel process, the root task and the reaper, starts the scheduler |
| run queue, wait queue | `sched/runqueue.c`, `sched/wait_queue.c` | fixed rings of task pointers; a wait queue also owns the task's back pointer |
| execution, process, registries | `execution/execution.c`, `process/*.c`, `sched/task_registry.c` | creation and destruction of tasks and processes as transactions with rollback |
| physical memory | `mm/pmm/pmm.c` | bitmap frame allocator; used by VMM, heap and the stacks |
| virtual memory | `mm/vmm/vmm.c` | page tables and their ownership records, map / unmap / clone / destroy |
| heap | `mm/heap/heap.c` | block list in a static arena, and one dynamically acquired page that `kmalloc` does not use yet |
| timers and clocks | `arch/x86_64/time/*.c` | one-shot and periodic timers on a monotonic clock, clock events |
| interrupt routing | `arch/x86_64/interrupt/{irq,irq_routing,pic,idt}.c`, `arch/x86_64/apic/*.c` | PIC to APIC hand-over, GSI resolution, LAPIC timer |
| ACPI | `arch/x86_64/acpi/acpi.c` | finds the MADT and reads the interrupt controllers and overrides from it; used by the APIC drivers |
| CPU tables, boot, console | `arch/x86_64/cpu/*.c`, `boot/boot.c`, `console/console.c` | straight-line set-up and output |

The kernel runs on one CPU. Concurrency comes from the LAPIC timer, which can
preempt a task at any instruction at which `RFLAGS.IF` is set, and from the
tasks it interleaves.

## 2. Modules

### Scheduler.tla - the scheduling core

State. `state`, `resume_authority`, `wait_queue` are the fields of
`struct task`. `context[t]` is the label the task's saved `rip` denotes and
`preempt_frame[t]` is what its bound interrupt frame holds; both become
*dead* when they are resumed, because resuming pops them off the stack while
the structure keeps pointing at them. `cpu` is the owner of the stack `rsp`
points into, `pc` the location in the kernel code, `local` the live local
variables, `irq_enabled` the interrupt flag. `stacks`, `members` and
`registered` are the tasks with a mapped stack, attached to the kernel process
and present in the registry. The run queue and the pending ring are sequences
(their rings are the subject of Ring.tla).

Actions. Each operation is split where the code changes shared state:
`YieldEnter/Save/Commit/Take`, `BlockEnter/Save/Commit/Enqueue` and
`scheduler_block_current`, `WakeEnter/Save/Commit/Ready`, `ExitEnter/Save`,
`task_exit`, `lifecycle_publish_terminated_task`, `scheduler_exit_current`,
`ReapEnter/Save/Detach/Destroy`, `x86_64_scheduler_dispatch`, and
`LapicTimer`, the whole interrupt path from the stub's entry to its `iretq`.
`LapicTimer` is enabled wherever `irq_enabled` holds, so whether it can come
between two steps of an operation is decided by the modelled `cli`/`sti`, not
by the granularity of the actions. The steps *before* `irq_save`, in which
the code reads `scheduler_current`, a task's state or the pending count, are
actions of their own, so those values can be stale when they are used.

Task code is arbitrary: at `pc = "run"` a task may call any operation with any
argument, execute `hlt`, compute for ever, or return.

Error paths that stop the kernel end at `pc = "halted"`, through `"failed"`
when they restore the interrupt flag first. `"undefined"` is control falling
out of compiled code (see the finding) and `"corrupt"` the resumption of a dead
continuation, which the proofs exclude.

### SchedulerInvariant.tla and the proof modules

The inductive invariant `IInv`, and its proof (section 5) in two modules:
`SchedulerStepProofs` (one lemma per action) and `SchedulerProofs` (the
theorems).

### Startup.tla, Runtime.tla, KernelRuntime.tla - the production runtime

`Startup` is `kernel_runtime_init` and `kernel_runtime_rollback` on top of
`Execution`. `at` is the next statement of the runtime; the calls it makes are
`Execution`'s transactions, so each may fail at any of their steps. Callers
retry up to `MaxAttempts` times, with the injected reaper failure of the tests or
without. Left out: the refusal for want of an address space (-2) and the errors
of the registry initialisations (-4 to -7), which reset tables.

`Runtime` is `Scheduler` driven by the two tasks of `runtime.c`: the root task
executes `hlt` `ROOT_TICKS` times and returns, the reaper loops over
`lifecycle_reap_one`, the report of the root's reclamation and `hlt`.

`KernelRuntime` composes them into one life. `HandOver` is
`kernel_runtime_start`: it copies what the transactions left in the registries,
queues and stacks into the variables of the core (named `ready`, `terminated`
and `rip` where the two models share a name), after which only the core moves.
`ImplementsScheduler` therefore covers the hand-over: what a start finds after
failed attempts is an initial state of `Scheduler`, and each step of the
two tasks is one of its steps. `MCKernelRuntime` adds, for TLC, that the two
tasks and the process are the only objects (`StartupObjects`).

### Ring.tla, TaskQueues.tla, FifoQueue.tla

`Ring` holds the array, `head`, `tail` and `count` of the ring that
`runqueue.c` and `wait_queue.c` share, with the compaction that removal does.
`TaskQueues` has the operations of the two files on one run queue and several
wait queues, with the tasks' back pointers; the state in which a call finds a
task is an argument. Each ring is shown to implement `FifoQueue`, the
bounded FIFO without duplicates, under the mapping that reads it from `head`.

### Execution.tla, Ownership.tla, MCExecution.tla

`Execution` models the creation and destruction of execution units
(`execution.c`) over everything they own: the process object and its registry,
the task registry with its count, the member table, the run queue, the pending
ring of the reaper, and the frames and mappings of the kernel stack. `call`
holds the arguments and the `task_registered`/`task_attached` flags of the
transaction in progress, and `pc` names the next call it makes, so every call
into an owner is an action that may fail: `process_create`, `task_create`,
`MapStackPage`/`MapStackFails`/`MapStackRollback`/`MapStackDone`,
`task_registry_register`, `process_attach_task`, `scheduler_add`. A failure
enters the teardown `process_detach_task`, `task_registry_unregister`,
`task_destroy`, `process_terminate`, `process_destroy`, which
`execution_destroy_*` (starting at `runqueue_remove`) and `lifecycle_reap_one`
share, as they do in the code. `result = "broken"` is an error code returned
from the middle of a teardown, for which the code has no way back.

Mapping a page may fail at any page, because `vmm_map_page` may find no frame
for a page table; page-table frames themselves are not counted. Between
transactions tasks run and exit, and the rest of the kernel takes and returns
frames. Transactions are not interrupted by tasks: the production caller of
the creation and destruction functions is `kernel_runtime_init`, when no task is
current and the timer handler returns to the interrupted code
(`preempt.c`, `current == NULL`), although the clock source already runs; and
the reaper masks interrupts. Here a
running task is either running or done (`Scheduler` has the rest), and a task
object is reused only after nobody owns it. `UniqueTids` says whether callers
avoid the tid of a live task, as the runtime does.

`Ownership` is what this promises: a unit is published with all its owners in
one step, under an identity nobody else holds, and withdrawn in one step.
`MCExecution` adds a record of what the owners held when the call began. The
proofs (section 5) are in `ExecutionInvariants`, `ExecutionStepProofs` and
`ExecutionProofs`, which also treat the startup.

### Pmm.tla, FramePool.tla, MCPmm.tla

`Pmm` builds the frame bitmap from a memory map as `pmm_init` does: rounding of
both ends of an entry inwards, rounding of the total outwards, the first entry
that can hold the bitmap, its own frames and frame 0 taken out. `frame_bitmap`
is the set of frames whose bit is set. `held` is a history of what clients took.
Callers free what they hold, or pass an address `pmm_free_frame` must refuse;
none frees memory the boot loader reserved. `FramePool` is the promise: each
frame has one holder.

### Heap.tla, Allocator.tla

`Heap` is the block list in the static arena with `kmalloc` (first fit, split)
and `kfree` (validation, merge with the next and the previous block). Addresses
are offsets. `Allocator` is the promise: live ranges are aligned and disjoint.
`MCHeapAndQueues` puts the heap and the task queues into one run. They have no
variable in common and neither calls the other, so a step of one is the same in
every state of the other, and each is explored while the other is at rest.

### PageTables.tla, Vmm.tla, DynamicPage.tla, MCDynamicPage.tla

`PageTables` holds the tree operations as operators on a record of free frames,
table contents and ownership records: allocation, registration, map with
rollback, unmap, walk, validation by epochs, recursive copy, discard and the
verifications. Where the code tests a result and undoes what it did, an operator
takes the result so far and keeps it or undoes it (`KeepOrRollback`,
`KeepOrDiscard`, `KeepOrDestroy`). `Vmm` makes each exported call an action over these, with the
records of address spaces, the active root, CR3 and one translation the CPU may
keep. Between calls the CPU reads or writes any page that is mapped, those of a
large page included, and sets the Accessed bits on the way and the Dirty bit of
the leaf (`CpuTranslates`). A call is one step: the VMM has no
interrupt-time users. Addresses are page numbers, so the refusals of unaligned
addresses are left out. `DynamicPage` adds the page that `heap.c` acquires from
the PMM and maps through the VMM. `MCDynamicPage` gives the boot loader's tables
and the sections of the image.

### Timers.tla

Timers, their table, and the clock interrupt that walks it. A start stores its
four fields one by one in any order, with the clock interrupt between any two.
`plan` is a history of what the last start asked for. Every caller in the
repository starts a timer before it registers it; `MayBeStarted` states that,
and `RecordFollowsThePlan` fails without it.

### ClockSource.tla

`clock_source_calibrate_lapic`, statement by statement, against hardware that
advances between any two of them: the routing of IRQ 0 from PIC to IOAPIC, the
dispatch and acknowledgement of interrupts, the LAPIC timer's counter, mask and
mode, the `hlt` loop and the hand-over of the clock. `rate` is the number of
LAPIC ticks in a PIT period, unknown to the code.

### Acpi.tla

The RSDP, the walk of the root table and of the MADT. Table contents are chosen
where the code reads them, so they are arbitrary. `covered`, `touched`, `seen`
and `valid` are histories of what the walk consumed, the furthest byte it read,
the entries it passed and the MADTs that were valid.

### InterruptRoutes.tla

From the MADT to the redirection entry of IRQ 0: `lapic_init`, `ioapic_init`
with its probes and the overlap test, `gsi_init`, resolution of GSIs and ISA
interrupts with the overrides, and the programming of the timer's entry with its
read-back. The two dwords of an entry are written in one step. The mask of the
PIC and the choice of the controller, which `irq_routing_configure_timer` also
sets, are in `ClockSource`.

### Platform.tla

`platform_init`: `Acpi`, then `InterruptRoutes` if discovery succeeded.
`FromTheMadt` ties the second to the first: as many IOAPIC and override records
as the parse has taken, and no LAPIC without a MADT. The fields of the records
are arbitrary, as they are in the table.

## 3. Runs

| Run | Instance | Shows |
|---|---|---|
| `scheduler` | 3 tasks in every boot order and subset, 2 managed, 2 that reap, 1 wait queue of capacity 1; fair CPU and timer | the core's safety properties, FIFO order and absence of starvation |
| `noreturn` | as `scheduler` | **violated**: the first finding of section 6 |
| `runtime` | 3 attempts to initialize with stacks of 2 pages and 5 frames, then root and reaper under every timer placement | a failed attempt leaves nothing and disturbs no retry; the started runtime is a client of the core and reclaims its root task |
| `execution` | 2 tasks with stacks of 2 pages, 4 frames, 2 processes, 2 address spaces, a run queue with 1 slot | the transactions are atomic and leak nothing; refinement of `Ownership` |
| `duplicate_tid` | callers may reuse a live tid | **violated**: the second finding |
| `pmm` | maps of 2 entries of every type, size and alignment; frames of 2 bytes, 3 frames per bitmap byte | what is handed out, lost and counted; refinement of `FramePool` |
| `heap_and_queues` | an arena of 40 bytes, headers of 4, 7 request sizes, frees of every address in it; a run queue and 2 wait queues of capacity 3, 4 tasks | the list tiles the arena, counters, refinement of `Allocator`; FIFO through every wrap-around and removal, one owner per task |
| `vmm` | 3 levels of 2 entries, pools of 3 and 7 frames, 6 ownership records, 2 spaces, 2 epochs; boot tables with a large page; the CPU reads and writes each mapped page and sets Accessed and Dirty bits; the heap's page | ownership of tables, conservation of frames, no trace of failed calls, walks, clone, translations |
| `clone_verification` | as `vmm` | **violated**: the third finding |
| `timers` | 2 timers, 1 slot, ticks to 3, fair clock | records follow starts and expiries; armed timers fire |
| `clock_source` | 2 LAPIC ticks per PIT period, 2 calibrations of 2 reference ticks, a counter of 8; fair CPU and clocks | masks, hand-over, failure paths, end of the wait |
| `platform` | root tables of 2 entries, MADTs of up to 8 bytes, entries of up to 3; 2 IOAPICs of up to 2 entries, 4 GSIs, 2 overrides | bounded reads, complete parse, one owner per GSI, the timer's entry |

The scheduling core:

- `NoIntermediateStateVisible`: whenever an interrupt can come, the owner is
  the task on the CPU, it alone is RUNNING, and READY/BLOCKED agree with
  the queues.
- `AuthorityNamesLiveContinuation`: the continuation a waiting task's
  authority names was saved and has not been resumed since.
- `StacksOutliveExecution`: no stack in use or to be resumed is unmapped.
- `HaltsOnlyWhenNothingIsRunnable`: the kernel stops only when the last
  runnable task exits. The exception is a second reaper: `lifecycle_reap_one`
  tests the count before it masks interrupts (`lifecycle.c:117`), so of two
  reapers one can find the ring empty and stop the kernel. It reclaims
  nothing twice; the production runtime has one reaper.
- `PendingIsWhatIsLeftToReap`: the pending ring is exactly the terminated
  managed tasks that still own a stack.
- `NoOvertaking`: the set of tasks ahead of a READY task only shrinks.
- `NoStarvation`: every READY task gets the CPU.

The runtime and what it composes:

- `FailedInitLeavesNothing`, `FailsOnlyForCause`: after a failed attempt every
  domain is empty; an attempt fails only for a reason of its own.
- `ImplementsScheduler`, `ReportedOnlyAfterReclaim`, `RootIsReclaimed`.
- `OneOwner`, `QueuesAreFifo`.
- `FramesConserved`: free frames, frames of others and stack frames partition
  the memory at every step; none is lost or owned twice.
- `AllOrNothing`: between transactions a task has all its owners or none, the
  registry's count is right, and no teardown was refused half-way.
- `RefusalLeavesNoTrace`: a refused call leaves every owner as it found it.
- `ImplementsOwnership`.

Memory:

- `OnlyUsableMemoryIsHandedOut`, `NoFrameIsLost`, `ImplementsFramePool`, and
  `CounterDriftIsConstant`: the error of `free_frames` is the size of the bitmap,
  for ever.
- `ListFollowsTheArena`, `CountersAreTheSums`, `ImplementsAllocator`.
- `OwnershipIsTheTree`: the registered tables are those reachable from the
  registered roots, each along one path, at the recorded level and owner.
- `PageFramesAreAccountedFor`, `NothingLeadsToFreedFrames`: each frame is free, a
  table or the heap's page, and neither tables nor the CPU's translations lead
  to one that is free or a table.
- `InactiveSpacesCanBeDestroyed`: the epochs never deceive a validation, and the
  records know which space the CPU is on.
- `SoftwareSeesWhatTheCpuSees`: software walks, inspection and ownership checks
  agree with the hardware's walk, and the clone of the boot loader's tables
  maps what they map. `vmm_verify_clone` accepts it whatever Accessed and Dirty
  bits the CPU sets in *small* pages; the formula takes these bits off the
  entries of large pages, and off all leaves for `vmm_verify_recursive_clone`.
  Without that it fails: see `clone_verification` in section 6.
- `FailedCallsLeaveNoTrace`.

Time and interrupts:

- `RecordFollowsThePlan`: a timer's record is what its start and its expiries
  add up to. `ArmedTimersFire`.
- `TimeFollowsTheSource`: no tick is counted twice or for the wrong source across
  the hand-over. `CalibrationLeavesAClockOrSilence`, `CalibrationEnds`.
- `ReadsStayInTheTable`, `ParsedIsTheTable`.
- `GsiOwnershipIsUnambiguous`, `TimerEntryIsTheRoute`.

### Bounds

*Core.* Three tasks are needed for a task to be woken by one task while a third
is current, and for the preempt-then-yield pattern; two managed tasks let the
pending ring hold more than one entry. `TASK_MAX_TASKS` is the number of tasks, as
ids are unique and bounded by it. `ROOT_TICKS` replaces the loop bound of the
root entry; each iteration is the same `hlt`. Rings have a capacity at which a
removal in the middle with wrap-around exists.

*Execution.* Two tasks suffice for one to be created, destroyed or reaped while
another is published; four frames hold both stacks exactly, so any frame taken by
the rest of the kernel makes a creation fail at its first or its second page. The
source has equal capacities (256), and its tests make `scheduler_add` fail by
filling the queue with unmanaged tasks; `RUNQUEUE_MAX_TASKS` is the number of slots
left. With equal capacities the member table is never full, so this refusal of
`process_attach_task` is not met.

*Memory.* Two memory-map entries can be apart, adjacent, nested or overlapping,
and bases and lengths meet every alignment of a frame. The arena holds enough
blocks for a block to be freed between two free neighbours, and some
remainders are too small to split. Pools and record tables of the VMM are chosen
so that each table of a path can be the one that is missing, and the epoch wraps.
Three levels instead of four: the code treats the middle levels alike. `CpuPage`
has one page for each leaf: the callers' page, one of the two in the large page,
the image and the heap's page; the boot loader has read through the large page,
so what is left to set there is its Dirty bit. The page
that callers map is in a half of the tree that the boot loader left empty,
the heap's page shares its last table with the image.

*Time and interrupts.* Ticks end at `UINT64_MAX`, small enough for starts to be
refused and periodic timers to reach the end. The LAPIC counter can run out
during a calibration. MADTs have room for several entries, or for one that claims
more than is left; GSI ranges touch, overlap and run past the largest GSI.

`MaxAttempts`, `Calibrations`, `MaxIrq0`, `MaxTimer` and `MaxIsos` bound
repetition. Deadlock is not checked where a run may stop because a bring-up or
the calibrations are over or failed (`platform`, `clock_source`).

## 4. Fairness

`scheduler`: weak fairness of the kernel's own steps (`KernelStep`; a CPU executes
its next instruction) and strong fairness of `LapicTimer` (the timer is periodic
and a tick that arrives under `cli` stays latched in the LAPIC until `sti`). Task
code gets no fairness: a task may compute for ever. `runtime`: weak fairness of the
runtime's statements before the hand-over, as nothing else runs; after it as above,
and strong fairness of each task's own steps, since between two 100 Hz ticks a task
that holds the CPU executes instructions. `timers`: weak fairness of the clock
interrupt; no code masks it for ever. `clock_source`: weak fairness of the
calibration's next statement, of the hardware clock, and of taking an interrupt
that is pending and unmasked. Firmware, callers and kernel code that uses
timers get none. The other runs check safety only.

## 5. Proofs

Eight modules hold theorems: `SchedulerStepProofs`, `SchedulerProofs`,
`ExecutionInvariants`, `ExecutionStepProofs`, `ExecutionProofs`, `PmmProofs`,
`TimersProofs` and `PlatformProofs`. All constants are arbitrary, within the named
assumptions of the modules that declare them, which the runs evaluate.

### The scheduling core

`SchedulerProofs.tla` proves, for every set of tasks and queues, every choice
of managed tasks and reapers and every capacity:

| Theorem | States |
|---|---|
| `InductiveInvariant` | `Spec => []IInv` |
| `TypeCorrectness` | `Spec => []TypeOK` |
| `Atomicity` | `Spec => []NoIntermediateStateVisible` |
| `ContinuationSafety` | `Spec => []AuthorityNamesLiveContinuation` |
| `StackSafety` | `Spec => []StacksOutliveExecution` |
| `Interruptibility` | `Spec => []TaskContextIsInterruptible` |
| `ReclamationAccounting` | `Spec => []PendingIsWhatIsLeftToReap` |
| `TerminationIsFinal` | `Spec => TerminatedNeverRuns` |
| `NoInternalFailure` | `Spec => []HaltsOnlyWhenNothingIsRunnable` |
| `FifoOrder` | `Spec => NoOvertaking` |

The only assumption of these is `ConstantsAssumption` (tasks, queues and NULL are
distinct, capacities positive). None of the properties is inductive: each
speaks of the states in which interrupts are enabled, and must be carried
through critical sections in which it does not hold. `IInv` therefore says, for
every location, what has been changed and what is still owed:

- `InvControl` ties the interrupt flag, the boot phase and the owner to `pc`;
- `InvRunning` says who is RUNNING and what a section has made of the task it leaves;
- `InvQueues` relates states, run queue, wait queues and back pointers,
  except for the one task between two owners;
- `InvLocals` bounds what stale locals can be, also those stored in an
  interrupt frame (`LocalsFit`);
- `InvContinuations` says that whoever waits can be resumed;
- `InvOwners` relates stacks, registry, membership and the pending ring.

There is one lemma per action (`YieldCommitStep`, `BlockEnqueueStep`,
`ReapDestroyStep`, `TimerStep`, ...) with a step per conjunct, `HandOver` for
the dequeue that yield, block and exit share, and `ControlMove` for the actions
that only move `pc`. `AppendElems` and `TailElems` are the sequence facts they
need. `NextIInv` collects them. `NoInternalFailure` needs one more invariant,
`InvStops`: no more stacks than table entries, so the ring of terminated tasks
always has room, and only a reaper is ever inside `lifecycle_reap_one`, also in a
preempted frame. `FifoOrder` follows a task through the queue: each step keeps the
order of those that stay (`KeepsOrder`).

### The execution layer and the runtime

`ExecutionProofs.tla` proves, for every set of tasks, processes and frames and
every table size:

| Theorem | States |
|---|---|
| `OwnedByAllOrNone` | `UniqueTids => (Spec => []AllOrNothing)` |
| `NoWayBackIsNeeded` | under `UniqueTids`, no teardown is refused after its preflight and the pending ring always has room |
| `Destroyable` | `UniqueTids => (Spec => []OwnersStayDestroyable)` |
| `AtomicPublication` | `UniqueTids => (Spec => ImplementsOwnership)` |
| `FrameConservation` | `Spec => []FramesConserved` |
| `FailedStartLeavesNothing` | `StartupObjects => (StartupSpec => []FailedInitLeavesNothing)` |
| `StartFailsOnlyForCause` | `StartupObjects => (StartupSpec => []FailsOnlyForCause)` |
| `TheRootTaskRunsFirst` | under `StartupObjects`, a start finds the root task at the head of the queue, and no call of the rollback is refused |
| `RuntimeIsAClient` | `StartupObjects => (LifeSpec => ImplementsScheduler)` |

`UniqueTids` (no caller asks for the tid of a live task) is needed: the run
`duplicate_tid` shows that `OwnersStayDestroyable` fails without it. The
conservation of frames needs no such hypothesis. `StartupObjects` says that the
process and the two tasks of `runtime.c` are the only objects and that the
tables have room for two tasks. With `RuntimeIsAClient` every theorem about
`Scheduler` holds of the production runtime.

`AllOrNothing` speaks of the states between transactions, so it is not inductive.
`OwnInv` says at each statement of a creation or a teardown which owners the task
in hand already, or still, has (`Hand`, `Subject`), that every other task has all
or none (`Settled`), and that the tables, queues and stack slots refer to each
other in both directions. `Counts` says that the counters of the registries are
the numbers of their entries; from it comes the room in the pending ring.
`FrameInv` makes the partition of the frames inductive with the typing of
slots and stack records. `StartInv` lists the units that exist at each statement of
`kernel_runtime_init` and its rollback, with the flags the rollback reads, and on
failing paths the cause; `TidsApart` keeps the root task off the reaper's tid.
`CoreRests` says that the core has not moved before the hand-over.
`ExecutionInvariants` has these definitions, the lemmas about operators and calls,
and the steps of creation and startup; `ExecutionStepProofs` has publication,
withdrawal, the steps between transactions and what each step does to the
published units; `ExecutionProofs` counts and concludes.

### Physical memory (PmmProofs.tla)

`HandsOutUsableMemory`, `LosesNoFrame`, `CounterDrift`
(`Spec => []CounterDriftIsConstant`) and the refinement `ImplementsPool`
(`Spec => ImplementsFramePool`), for every page size and every memory map, of
any number of entries, whose addresses do not overflow (`PmmAssumption`).
They speak of different pairs of sets; the invariant that carries them all
is that, once the bitmap has a place, *held* and *free* are exactly the managed
frames (usable, not frame 0, not the bitmap's), that every held frame has
its bit set, which keeps the two apart, and that the counter is the number of free
frames and of the bitmap's. Two facts feed it. `UsableFrameInEntry`: a
frame whose bit is cleared lies whole in a usable entry, because both ends are
rounded inwards. `UsableFramesCounted`: every usable frame has a bit, because the
total is rounded outwards from the highest address (its maximum exists by
well-foundedness of the natural numbers, lemma `Greatest`). `FreeReturns` shows
that an accepted free is of a held frame.

### Timers (TimersProofs.tla)

`RecordsFollowPlans`, `ExpiriesAreNotEarly` and `RegisteredTimersKeepUp`
(`LagNeverGrows`), for any number of timers and slots and any tick range.
`RecordFollowsThePlan` says nothing of a timer that is being written, so it is
not inductive: `Starting` adds that such a timer is outside the table, and that
each field not still to be stored has its new value. So the clock interrupt
cannot touch it, and the last store completes the record. `Follows` adds the mode
of a one-shot timer, without which a rearm might not switch it off.

### Discovery and interrupt routes (PlatformProofs.tla)

`ReadsAreBounded`, `ParseIsComplete` and `LastMadtWins`, for all structure sizes
and table contents (`LayoutAssumption`: an entry's structure is at least a
header). `Walk` says that the entries taken so far fill the table from the end of
its header to `entry_physical`; `Root` that the MADT remembered is the
last one met and that those to come are later.

`OwnershipIsUnambiguous`, `ResolutionIsExact`, `FailureLeavesNoIoapic` and
`TimerRouting` (`Spec => []TimerEntryIsTheRoute`), for any number of IOAPICs, GSIs
and redirection entries. `Counted` relates the count to what was probed, `Accepted`
says that GSIs are resolved only after the overlap test has passed, `Programmed`
that nothing is written before the routing and one entry by it.

`PlatformIsBoth` shows that `platform_init` implements both parts, and
`PlatformBringUp` that all these properties hold of it.

### Proved and not also a run

`TypeOK`, `IInv`, `TaskContextIsInterruptible`, `TerminatedNeverRuns`,
`NeverEarly`, `LagNeverGrows`, `TheLastValidMadtIsParsed`, `ResolutionIsOwnership`
and `FailedBringUpHasNoIoapic` are stated for every instance by the theorems, and
no run repeats them.

### Only model-checked

- `NoStarvation`, `RootIsReclaimed`, `ArmedTimersFire`, `CalibrationEnds`:
  liveness under fairness is outside the prover.
- The six properties of the `vmm` run: the page-table operators are recursive,
  and the prover can neither use such operators nor do induction over trees.
- The five properties of `heap_and_queues`, `TimeFollowsTheSource` and
  `CalibrationLeavesAClockOrSilence`, `RefusalLeavesNoTrace` (it compares with a
  record that `MCExecution` adds) and `ReportedOnlyAfterReclaim`: no theorem has
  been written.

## 6. Findings

`noreturn` (`code_bug`): `x86_64_context_switch_to_interrupt` is declared
noreturn and `dispatch.c:84` is `__builtin_unreachable()`, but `switch.asm:210`
saves the outgoing task at `.interrupt_resume`, whose `ret` returns to that
very call when the task is dispatched again. A task that yields or blocks
while its successor was preempted by the timer reaches it. The production
runtime does not: neither of its tasks yields or blocks.

`duplicate_tid` (`code_bug`): `tests/execution_tests.c:304` says that a
duplicate tid "reaches Task Registry publication". It does not: the test's call
is refused because the address space has an owner, and through
`execution_create_task` `vmm_map_page` refuses the page that is already mapped.
The rollback of `task_map_stack` (`task.c:114`) then unmaps and frees every page
of the tid's slot, which belong to the live task. The production runtime uses
two distinct tids and does not meet this.

`clone_verification` (`code_bug`): `vmm.c:34` says of the Accessed and Dirty bits
that "Recursive-clone verification must not treat hardware updates to these bits as
a clone failure". `verify_clone_level` masks them for small pages only
(`vmm.c:3002`); an entry with the huge bit is compared with all its bits
(`vmm.c:2979`). The run shows the boot loader's tables cloned, the CPU writing
through their large page, as every access to a table through the direct map may
(`vmm.c:136`), and `vmm_verify_clone` then refusing the intact clone.
`vmm_verify_recursive_clone`, which nothing calls, masks no bits at all
(`vmm.c:2779`, `:2846`, `:2914`). The boot test (`tests/memory_tests.c:523`) passes
as long as the bits of the large pages were set before the clone was made.

A smaller disagreement has no run of its own.
`pmm_init` sets the bits of the bitmap's own frames (`pmm.c:246`) after they were
counted as free, and does not take them out of `free_frames`, as it does for frame
0. `pmm_get_free_frames`, reported as FREE FRAMES at `kernel.c:157`, is too large by
the size of the bitmap from then on, and by exactly that
(`CounterDriftIsConstant`). No allocation goes wrong.

## 7. Not modelled

- **GDT, TSS, IDT and exceptions** (`cpu/*.c`, `interrupt/idt.c`): constants
  written once at boot; exceptions print and halt.
- **Console** (`console/console.c`): pixels, on whose state nothing depends.
- **Boot protocol and `kernel.c`**: a linear sequence over the boot loader's data;
  of it, `platform_init` is in `Platform` and the memory map in `Pmm`.
- **PIT programming, PIC remapping, registration of other IRQ handlers**:
  register writes done once; the PIT appears as hardware in `ClockSource`.
- **Getters** of all modules, and `pmm_is_physical_range_valid`, a test without
  state.
- **`scheduler_remove` and the destruction of a READY task on the live
  scheduler**: `Execution` has them as transactions before the scheduler starts.
- **Virtual memory together with processes**: `Execution` takes its address
  spaces as registered for good. The VMM would destroy an inactive space a
  process refers to; no production code asks for it.
- **A lost wake-up**: `task_wake` before `task_block` is refused and forgotten. The
  kernel has no condition on which a task waits yet, so there is no promise to
  state.

What would come next: proofs of the rings' refinement of `FifoQueue` and of the
heap's of `Allocator`, and a composition of `Vmm` with `Execution`.
