------------------------------ MODULE Startup ------------------------------
(***************************************************************************)
(* kernel_runtime_init, its rollback and kernel_runtime_start              *)
(* (runtime/runtime.c), over the transactions of Execution.  The tests     *)
(* before the production start make an attempt that is told to fail before *)
(* the reaper is created; attempts may also fail for want of frames or of  *)
(* a working clock.  Interrupts are disabled while the domains are in use, *)
(* so an attempt runs alone.                                               *)
(***************************************************************************)
EXTENDS Execution, Integers

CONSTANTS kernel,              \* kernel_runtime_process
          root, reaper,        \* kernel_runtime_root_task, _reaper_task
          MaxAttempts          \* bound: calls of kernel_runtime_init

ASSUME StartupAssumption == MaxAttempts \in Nat

\* The objects of the runtime are the only ones, and the tables hold them.
StartupObjects ==
    /\ Process = {kernel} /\ Task = {root, reaper} /\ root # reaper
    /\ TASK_MAX_TASKS >= 2 /\ PROCESS_MAX_TASKS >= 2 /\ RUNQUEUE_MAX_TASKS >= 2

KERNEL_RUNTIME_PID == 1
KERNEL_RUNTIME_TASK_TID == 1
KERNEL_REAPER_TASK_TID == 2

VARIABLES
    at,                     \* next statement of the runtime
    root_published, reaper_published, initialized, fail_reaper_once,
    code,                   \* the last return value
    attempts,
    cause                   \* whether this attempt met a reason to fail

flags == <<root_published, reaper_published, initialized>>
startupVars == <<at, flags, fail_reaper_once, code, attempts, cause>>
allVars == <<vars, startupVars>>

StartupInit ==
    /\ Init
    /\ at = "off"
    /\ root_published = FALSE /\ reaper_published = FALSE
    /\ initialized = FALSE /\ fail_reaper_once = FALSE
    /\ code = 0
    /\ attempts = 0
    /\ cause = FALSE

Leave(c) == at' = "off" /\ code' = c

\* A call of the execution layer has returned.
Returned(stage) == at = stage /\ pc = "idle"

-----------------------------------------------------------------------------
(* kernel_runtime_init.                                                     *)

\* A caller arms the one-shot failure or not, and calls.  A second call after
\* a success is refused.
kernel_runtime_init(fail) ==
    /\ at \in {"off", "ready"}
    /\ attempts < MaxAttempts
    /\ attempts' = attempts + 1
    /\ fail_reaper_once' = (fail_reaper_once \/ fail)
    /\ cause' = FALSE
    /\ IF initialized THEN code' = -1 /\ UNCHANGED at
                      ELSE at' = "clock" /\ UNCHANGED code
    /\ UNCHANGED <<vars, flags>>

clock_source_init(works) ==
    /\ at = "clock"
    /\ IF works THEN at' = "domains" /\ UNCHANGED <<code, cause>>
                ELSE Leave(-3) /\ cause' = TRUE
    /\ UNCHANGED <<vars, flags, fail_reaper_once, attempts>>

\* process_registry_init, task_registry_init, scheduler_init, lifecycle_init.
InitDomains ==
    /\ at = "domains"
    /\ process_registry' = [i \in Pid |-> NULL] /\ process_registry_count' = 0
    /\ task_registry' = [i \in Tid |-> NULL] /\ task_registry_active_count' = 0
    /\ runqueue' = <<>>
    /\ pending' = <<>>
    /\ at' = "create_root"
    /\ UNCHANGED <<task, process, memory, call, pc, result, flags, fail_reaper_once,
                   code, attempts, cause>>

CreateRoot ==
    /\ Returned("create_root")
    /\ execution_create_kernel_task(kernel, root, KERNEL_RUNTIME_PID, KERNEL_RUNTIME_TASK_TID)
    /\ at' = "root_created"
    /\ UNCHANGED <<flags, fail_reaper_once, code, attempts, cause>>

\* Mutation: the flag is not set.
RootCreated_NoFlag ==
    /\ Returned("root_created")
    /\ IF result # "ok"
         THEN Leave(-8) /\ UNCHANGED <<fail_reaper_once, cause>>
         ELSE /\ IF fail_reaper_once THEN at' = "undo_reaper" /\ code' = -9
                                     ELSE at' = "create_reaper" /\ UNCHANGED code
              /\ cause' = (cause \/ fail_reaper_once)
              /\ fail_reaper_once' = FALSE
    /\ UNCHANGED <<vars, flags, attempts>>

\* The flag is set, and the injected failure consumed.
RootCreated ==
    /\ Returned("root_created")
    /\ IF result # "ok"
         THEN Leave(-8) /\ UNCHANGED <<root_published, fail_reaper_once, cause>>
         ELSE /\ root_published' = TRUE
              /\ IF fail_reaper_once THEN at' = "undo_reaper" /\ code' = -9
                                     ELSE at' = "create_reaper" /\ UNCHANGED code
              /\ cause' = (cause \/ fail_reaper_once)
              /\ fail_reaper_once' = FALSE
    /\ UNCHANGED <<vars, reaper_published, initialized, attempts>>

CreateReaper ==
    /\ Returned("create_reaper")
    /\ execution_create_task(kernel, reaper, KERNEL_REAPER_TASK_TID)
    /\ at' = "reaper_created"
    /\ UNCHANGED <<flags, fail_reaper_once, code, attempts, cause>>

\* What kernel_runtime_init verifies before it reports success.
Composed ==
    /\ process[kernel].state = "ACTIVE"
    /\ process[kernel].address_space = KERNEL_AS
    /\ Len(process[kernel].tasks) = 2
    /\ task[root].state = "READY" /\ task[reaper].state = "READY"

\* Mutation: the result of the call is ignored.
ReaperCreated_Unchecked ==
    /\ Returned("reaper_created")
    /\ reaper_published' = TRUE /\ initialized' = TRUE
    /\ at' = "ready" /\ code' = 0
    /\ UNCHANGED <<vars, root_published, fail_reaper_once, attempts, cause>>

ReaperCreated ==
    /\ Returned("reaper_created")
    /\ reaper_published' = (result = "ok")
    /\ IF result = "ok" /\ Composed
         THEN initialized' = TRUE /\ at' = "ready" /\ code' = 0
         ELSE /\ at' = "undo_reaper"
              /\ code' = IF result = "ok" THEN -10 ELSE -9
              /\ UNCHANGED initialized
    /\ UNCHANGED <<vars, root_published, fail_reaper_once, attempts, cause>>

-----------------------------------------------------------------------------
(* kernel_runtime_rollback: the reaper first, then the root task with the   *)
(* process.  A call that fails ends it.                                     *)

UndoReaper ==
    /\ Returned("undo_reaper")
    /\ IF reaper_published
         THEN execution_destroy_task(kernel, reaper) /\ at' = "reaper_undone"
         ELSE at' = "undo_root" /\ UNCHANGED vars
    /\ UNCHANGED <<flags, fail_reaper_once, code, attempts, cause>>

\* Mutation: only the task of the root unit is destroyed.
UndoRoot_KeepProcess ==
    /\ Returned("undo_root")
    /\ IF root_published
         THEN execution_destroy_task(kernel, root) /\ at' = "root_undone" /\ UNCHANGED code
         ELSE Leave(code) /\ UNCHANGED vars
    /\ UNCHANGED <<flags, fail_reaper_once, attempts, cause>>

UndoRoot ==
    /\ Returned("undo_root")
    /\ IF root_published
         THEN execution_destroy_kernel_task(kernel, root) /\ at' = "root_undone" /\ UNCHANGED code
         ELSE Leave(code) /\ UNCHANGED vars
    /\ UNCHANGED <<flags, fail_reaper_once, attempts, cause>>

Undone ==
    /\ pc = "idle" /\ at \in {"reaper_undone", "root_undone"}
    /\ IF at = "reaper_undone"
         THEN /\ reaper_published' = (result # "ok")
              /\ at' = IF result = "ok" THEN "undo_root" ELSE "off"
              /\ UNCHANGED <<root_published, code>>
         ELSE /\ root_published' = (result # "ok")
              /\ Leave(code)
              /\ UNCHANGED reaper_published
    /\ UNCHANGED <<vars, initialized, fail_reaper_once, attempts, cause>>

-----------------------------------------------------------------------------
(* kernel_runtime_start: scheduler_start takes the head of the run queue.   *)

kernel_runtime_start ==
    /\ at = "ready"
    /\ TaskRuns
    /\ IF Head(runqueue) = root THEN at' = "started" /\ UNCHANGED code
                                ELSE at' = "start_failed" /\ code' = -3
    /\ UNCHANGED <<flags, fail_reaper_once, attempts, cause>>

\* A step of the call in progress.  Running out of frames is a reason to
\* fail, a page of the stack area that is mapped already is not.
ExecutionStep ==
    /\ Transaction
    /\ cause' = (cause \/ (/\ pc = "map_stack" /\ pc' = "unmap_stack"
                           /\ mapped[call.tid][NextPage] = NULL))
    /\ UNCHANGED <<at, flags, fail_reaper_once, code, attempts>>

\* Between attempts the kernel allocates and frees.
Others ==
    /\ at = "off"
    /\ OthersAllocate \/ OthersFree
    /\ UNCHANGED startupVars

RuntimeStep ==
    \/ \E works \in BOOLEAN : clock_source_init(works)
    \/ InitDomains \/ CreateRoot \/ RootCreated \/ CreateReaper \/ ReaperCreated
    \/ UndoReaper \/ UndoRoot \/ Undone
    \/ ExecutionStep

StartupNext ==
    \/ \E fail \in BOOLEAN : kernel_runtime_init(fail)
    \/ RuntimeStep
    \/ Others

StartupSpec == StartupInit /\ [][StartupNext \/ kernel_runtime_start]_allVars

-----------------------------------------------------------------------------
(* Properties.                                                              *)

\* runtime_tests.c:63 "The failed initialization must leave every production
\* execution-ownership domain empty", whatever failed: no registration, no
\* queue entry, no stack mapping, no lost frame, no publication flag.
FailedInitLeavesNothing ==
    at = "off" =>
        /\ task_registry_active_count = 0 /\ process_registry_count = 0
        /\ runqueue = <<>> /\ pending = <<>>
        /\ mapped = [i \in Tid |-> NoPages]
        /\ free \cup others = Frame
        /\ ~root_published /\ ~reaper_published

\* An attempt fails only for a reason of its own (the clock, the injected
\* failure, no frame): nothing an earlier attempt left makes a later one
\* fail, although the domains are reset and the objects are reused.
FailsOnlyForCause == at = "off" /\ attempts > 0 => cause
=============================================================================
