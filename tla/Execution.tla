------------------------------ MODULE Execution ------------------------------
(***************************************************************************)
(* Creation, destruction and reclamation of execution units as             *)
(* transactions over the process registry, the task registry, the process  *)
(* membership tables, the run queue, and the frames and mappings of the    *)
(* kernel stacks.  Every call into one of these owners is an action; a     *)
(* call that fails sends the transaction through the teardown path.        *)
(*                                                                         *)
(* Processes may be created in any registered address space; the execution *)
(* layer admits only the kernel's.                                         *)
(***************************************************************************)
EXTENDS Naturals, Sequences, FiniteSets

CONSTANTS
    Task, Process,              \* objects owned by the callers
    Frame,                      \* physical frames, by number
    TASK_MAX_TASKS, PROCESS_MAX_PROCESSES, PROCESS_MAX_TASKS,
    RUNQUEUE_MAX_TASKS,         \* slots of the run queue left for managed tasks
    TASK_KERNEL_STACK_PAGE_COUNT,
    AddressSpace, KERNEL_AS,    \* registered address spaces; vmm_get_pml4()
    NULL,
    UniqueTids                  \* callers never reuse the tid of a live task

ASSUME ExecutionAssumption ==
    /\ NULL \notin Task \cup Process \cup AddressSpace \cup Nat
    /\ KERNEL_AS \in AddressSpace
    /\ Frame \subseteq Nat
    /\ {TASK_MAX_TASKS, PROCESS_MAX_PROCESSES, PROCESS_MAX_TASKS,
        RUNQUEUE_MAX_TASKS, TASK_KERNEL_STACK_PAGE_COUNT} \subseteq Nat \ {0}
    /\ UniqueTids \in BOOLEAN

Tid == 1..TASK_MAX_TASKS
Pid == 1..PROCESS_MAX_PROCESSES
Page == 1..TASK_KERNEL_STACK_PAGE_COUNT

VARIABLES
    task,                   \* the fields of each struct task
    process,                \* the fields of each struct process
    task_registry, task_registry_active_count,
    process_registry, process_registry_count,
    runqueue, pending,
    mapped,                 \* leaf mappings of the stack area, by tid and page
    free,                   \* frames the physical allocator holds
    others,                 \* frames held by the rest of the kernel
    call,                   \* the transaction in progress and its arguments
    pc, result

tables == <<task_registry, task_registry_active_count,
            process_registry, process_registry_count>>
memory == <<mapped, free, others>>
vars == <<task, process, tables, runqueue, pending, memory, call, pc, result>>

NoPages == [i \in Page |-> NULL]
ZeroTask == [id |-> 0, state |-> "NEW", process |-> NULL, stack |-> 0,
             pages |-> NoPages, mode |-> "UNMANAGED"]
ZeroProcess == [id |-> 0, state |-> "NEW", address_space |-> NULL,
                tasks |-> <<>>]
NoCall == [op |-> "none", process |-> NULL, task |-> NULL, pid |-> 0, tid |-> 0,
           address_space |-> KERNEL_AS, owns_process |-> FALSE,
           registered |-> FALSE, attached |-> FALSE]

Elems(seq) == {seq[i] : i \in 1..Len(seq)}

Init ==
    /\ task = [t \in Task |-> ZeroTask]
    /\ process = [p \in Process |-> ZeroProcess]
    /\ task_registry = [i \in Tid |-> NULL]
    /\ task_registry_active_count = 0
    /\ process_registry = [i \in Pid |-> NULL]
    /\ process_registry_count = 0
    /\ runqueue = <<>>
    /\ pending = <<>>
    /\ mapped = [i \in Tid |-> NoPages]
    /\ free = Frame
    /\ others = {}
    /\ call = NoCall
    /\ pc = "idle"
    /\ result = "none"

-----------------------------------------------------------------------------
(* Registries and membership.                                               *)

task_registry_contains(t) ==
    task[t].id \in Tid /\ task_registry[task[t].id] = t

process_registry_contains(p) ==
    process[p].id \in Pid /\ process_registry[process[p].id] = p

process_registry_find_by_address_space(as) ==
    {p \in Process : p \in {process_registry[i] : i \in Pid}
                     /\ process[p].address_space = as}

\* The last member takes the place of the one that leaves.
SwapOut(seq, i) ==
    [j \in 1..Len(seq)-1 |-> IF j = i THEN seq[Len(seq)] ELSE seq[j]]

\* The entries behind the first one of t move up.
WithoutTask(seq, t) ==
    LET i == CHOOSE i \in 1..Len(seq) : seq[i] = t /\ \A j \in 1..i-1 : seq[j] # t
    IN  [j \in 1..Len(seq)-1 |-> IF j < i THEN seq[j] ELSE seq[j+1]]

Return(r) == pc' = "idle" /\ call' = NoCall /\ result' = r

-----------------------------------------------------------------------------
(* execution_create_kernel_task and execution_create_task.                  *)

\* The caller's storage: a task object nothing else owns.
Unowned(t) ==
    /\ ~task_registry_contains(t)
    /\ t \notin Elems(pending)

execution_create_kernel_task(p, t, pid, tid) ==
    /\ pc = "idle"
    /\ Unowned(t)
    /\ UniqueTids => task_registry[tid] = NULL
    /\ call' = [NoCall EXCEPT !.op = "create", !.process = p, !.task = t,
                              !.pid = pid, !.tid = tid, !.owns_process = TRUE]
    /\ pc' = "process_create"
    /\ UNCHANGED <<task, process, tables, runqueue, pending, memory, result>>

execution_create_task(p, t, tid) ==
    /\ pc = "idle"
    /\ Unowned(t)
    /\ UniqueTids => task_registry[tid] = NULL
    /\ IF /\ process_registry_contains(p)
          /\ process[p].state = "ACTIVE"
          /\ process[p].address_space = KERNEL_AS
         THEN /\ call' = [NoCall EXCEPT !.op = "create", !.process = p,
                                        !.task = t, !.tid = tid]
              /\ pc' = "task_create"
              /\ UNCHANGED result
         ELSE Return("refused")
    /\ UNCHANGED <<task, process, tables, runqueue, pending, memory>>

\* A caller that wants only the process.
CreateProcess(p, pid, as) ==
    /\ pc = "idle"
    /\ call' = [NoCall EXCEPT !.op = "process", !.process = p, !.pid = pid,
                              !.address_space = as]
    /\ pc' = "process_create"
    /\ UNCHANGED <<task, process, tables, runqueue, pending, memory, result>>

\* NEW, registered under its pid, ACTIVE; refused while the object is
\* registered or the address space or the pid has an owner.  A refused
\* registration leaves the object without identity.
process_create ==
    /\ pc = "process_create"
    /\ LET p == call.process
           fields == [id |-> call.pid, state |-> "ACTIVE",
                      address_space |-> call.address_space, tasks |-> <<>>]
       IN
       \/ /\ \/ process_registry_contains(p)
             \/ process_registry_find_by_address_space(call.address_space) # {}
          /\ Return("refused")
          /\ UNCHANGED <<process, process_registry, process_registry_count>>
       \/ /\ ~process_registry_contains(p)
          /\ process_registry_find_by_address_space(call.address_space) = {}
          /\ process_registry[call.pid] # NULL
          /\ Return("refused")
          /\ process' = [process EXCEPT ![p] = ZeroProcess]
          /\ UNCHANGED <<process_registry, process_registry_count>>
       \/ /\ ~process_registry_contains(p)
          /\ process_registry_find_by_address_space(call.address_space) = {}
          /\ process_registry[call.pid] = NULL
          /\ process' = [process EXCEPT ![p] = fields]
          /\ process_registry' = [process_registry EXCEPT ![call.pid] = p]
          /\ process_registry_count' = process_registry_count + 1
          /\ IF call.op = "process"
               THEN Return("ok")
               ELSE pc' = "task_create" /\ UNCHANGED <<call, result>>
    /\ UNCHANGED <<task, task_registry, task_registry_active_count, runqueue,
                   pending, memory>>

task_create ==
    /\ pc = "task_create"
    /\ task' = [task EXCEPT ![call.task] = [ZeroTask EXCEPT !.id = call.tid]]
    /\ pc' = "map_stack"
    /\ UNCHANGED <<process, tables, runqueue, pending, memory, call, result>>

-----------------------------------------------------------------------------
(* task_map_stack: a frame and a mapping for each page of the tid's slot.   *)

\* The lowest free frame.
pmm_alloc_frame == CHOOSE f \in free : \A g \in free : f <= g

NextPage == CHOOSE i \in Page :
                /\ task[call.task].pages[i] = NULL
                /\ \A j \in 1..i-1 : task[call.task].pages[j] # NULL

StackComplete == \A i \in Page : task[call.task].pages[i] # NULL

MapStackPage ==
    /\ pc = "map_stack"
    /\ ~StackComplete
    /\ free # {}
    /\ mapped[call.tid][NextPage] = NULL
    /\ mapped' = [mapped EXCEPT ![call.tid][NextPage] = pmm_alloc_frame]
    /\ task' = [task EXCEPT ![call.task].pages[NextPage] = pmm_alloc_frame]
    /\ free' = free \ {pmm_alloc_frame}
    /\ UNCHANGED <<process, tables, runqueue, pending, others, call, pc, result>>

\* No frame, a page that is mapped already, or no frame for a page table:
\* the frame in hand is given back and the stack is rolled back.
MapStackFails ==
    /\ pc = "map_stack"
    /\ ~StackComplete
    /\ pc' = "unmap_stack"
    /\ UNCHANGED <<task, process, tables, runqueue, pending, memory, call, result>>

\* Mutation: the rollback forgets the frames it unmaps.
MapStackRollback_Leak ==
    /\ pc = "unmap_stack"
    /\ mapped' = [mapped EXCEPT ![call.tid] = NoPages]
    /\ task' = [task EXCEPT ![call.task].pages = NoPages]
    /\ UNCHANGED free
    /\ IF call.owns_process
         THEN pc' = "terminate" /\ UNCHANGED <<call, result>>
         ELSE Return("refused")
    /\ UNCHANGED <<process, tables, runqueue, pending, others>>

\* Whatever is mapped in the slot is unmapped and freed.
MapStackRollback ==
    /\ pc = "unmap_stack"
    /\ free' = free \cup ({mapped[call.tid][i] : i \in Page} \ {NULL})
    /\ mapped' = [mapped EXCEPT ![call.tid] = NoPages]
    /\ task' = [task EXCEPT ![call.task].pages = NoPages]
    /\ IF call.owns_process
         THEN pc' = "terminate" /\ UNCHANGED <<call, result>>
         ELSE Return("refused")
    /\ UNCHANGED <<process, tables, runqueue, pending, others>>

\* The stack is bound to the task, the first-run frame built on it, and the
\* task becomes READY.
MapStackDone ==
    /\ pc = "map_stack"
    /\ StackComplete
    /\ task' = [task EXCEPT ![call.task].stack = call.tid,
                            ![call.task].state = "READY"]
    /\ pc' = "register"
    /\ UNCHANGED <<process, tables, runqueue, pending, memory, call, result>>

-----------------------------------------------------------------------------
(* Publication: task registry, process membership, run queue.               *)

task_registry_register ==
    /\ pc = "register"
    /\ IF /\ task_registry[call.tid] = NULL
          /\ task_registry_active_count < TASK_MAX_TASKS
         THEN /\ task_registry' = [task_registry EXCEPT ![call.tid] = call.task]
              /\ task_registry_active_count' = task_registry_active_count + 1
              /\ call' = [call EXCEPT !.registered = TRUE]
              /\ pc' = "attach"
         ELSE /\ pc' = "detach"
              /\ UNCHANGED <<task_registry, task_registry_active_count, call>>
    /\ UNCHANGED <<task, process, process_registry, process_registry_count,
                   runqueue, pending, memory, result>>

process_attach_task ==
    /\ pc = "attach"
    /\ LET p == call.process  t == call.task IN
       IF /\ process_registry_contains(p)
          /\ process[p].state = "ACTIVE"
          /\ task[t].process = NULL
          /\ Len(process[p].tasks) < PROCESS_MAX_TASKS
          /\ t \notin Elems(process[p].tasks)
         THEN /\ process' = [process EXCEPT ![p].tasks = Append(@, t)]
              /\ task' = [task EXCEPT ![t].process = p]
              /\ call' = [call EXCEPT !.attached = TRUE]
              /\ pc' = "add"
         ELSE pc' = "detach" /\ UNCHANGED <<task, process, call>>
    /\ UNCHANGED <<tables, runqueue, pending, memory, result>>

\* Admission to the run queue is the publication point; only then does the
\* task become MANAGED.
scheduler_add ==
    /\ pc = "add"
    /\ LET t == call.task IN
       IF /\ task[t].state = "READY"
          /\ Len(runqueue) < RUNQUEUE_MAX_TASKS
          /\ t \notin Elems(runqueue)
         THEN /\ runqueue' = Append(runqueue, t)
              /\ task' = [task EXCEPT ![t].mode = "MANAGED"]
              /\ Return("ok")
         ELSE pc' = "detach" /\ UNCHANGED <<runqueue, task, call, result>>
    /\ UNCHANGED <<process, tables, pending, memory>>

-----------------------------------------------------------------------------
(* Teardown: Scheduler -> Process -> Task Registry -> Task -> Process       *)
(* identity.  Shared by a failed creation, by destruction and by the        *)
(* reaper; "broken" is an error code for which the code has no way back.    *)

Broken == Return("broken")

\* task_validate_reclaim: no owner left that executes or resumes the task,
\* and every page of its stack still mapped to the frame it records.
task_validate_reclaim(t) ==
    /\ task[t].state \in {"READY", "TERMINATED"}
    /\ task[t].stack # 0 => mapped[task[t].stack] = task[t].pages

execution_preflight_destroy_task(p, t) ==
    /\ task[t].state = "READY"
    /\ task[t].process = p
    /\ task_registry_contains(t)
    /\ process_registry_contains(p)
    /\ t \in Elems(runqueue)
    /\ task_validate_reclaim(t)

StartTeardown(op, p, t, owns, from) ==
    /\ call' = [NoCall EXCEPT !.op = op, !.process = p, !.task = t,
                              !.owns_process = owns, !.registered = TRUE,
                              !.attached = (task[t].process # NULL)]
    /\ pc' = from
    /\ UNCHANGED result

execution_destroy_task(p, t) ==
    /\ pc = "idle"
    /\ IF execution_preflight_destroy_task(p, t)
         THEN StartTeardown("destroy", p, t, FALSE, "remove")
         ELSE Return("refused")
    /\ UNCHANGED <<task, process, tables, runqueue, pending, memory>>

execution_destroy_kernel_task(p, t) ==
    /\ pc = "idle"
    /\ IF /\ execution_preflight_destroy_task(p, t)
          /\ process[p].state = "ACTIVE"
          /\ Len(process[p].tasks) = 1
         THEN StartTeardown("destroy", p, t, TRUE, "remove")
         ELSE Return("refused")
    /\ UNCHANGED <<task, process, tables, runqueue, pending, memory>>

\* The reaper's transaction, which runs with interrupts masked.
lifecycle_reap_one ==
    /\ pc = "idle"
    /\ pending # <<>>
    /\ LET t == Head(pending) IN
       IF /\ task[t].state = "TERMINATED"
          /\ t \notin Elems(runqueue)
          /\ task_registry_contains(t)
          /\ task[t].process # NULL => t \in Elems(process[task[t].process].tasks)
         THEN StartTeardown("reap", task[t].process, t, FALSE, "detach")
         ELSE Return("refused")
    /\ UNCHANGED <<task, process, tables, runqueue, pending, memory>>

runqueue_remove ==
    /\ pc = "remove"
    /\ IF call.task \in Elems(runqueue)
         THEN /\ runqueue' = WithoutTask(runqueue, call.task)
              /\ pc' = "detach"
              /\ UNCHANGED <<call, result>>
         ELSE Broken /\ UNCHANGED runqueue
    /\ UNCHANGED <<task, process, tables, pending, memory>>

\* Mutation: the task keeps its process reference.
process_detach_task_KeepReference ==
    /\ pc = "detach"
    /\ call.attached
    /\ \E i \in 1..Len(process[call.process].tasks) :
          /\ process[call.process].tasks[i] = call.task
          /\ process' = [process EXCEPT ![call.process].tasks = SwapOut(@, i)]
    /\ pc' = "unregister"
    /\ UNCHANGED <<task, tables, runqueue, pending, memory, call, result>>

process_detach_task ==
    /\ pc = "detach"
    /\ call.attached
    /\ LET p == call.process  t == call.task IN
       IF /\ process_registry_contains(p)
          /\ t \in Elems(process[p].tasks)
          /\ task[t].process = p
         THEN /\ LET i == CHOOSE i \in 1..Len(process[p].tasks) :
                              process[p].tasks[i] = t
                 IN  process' = [process EXCEPT ![p].tasks = SwapOut(@, i)]
              /\ task' = [task EXCEPT ![t].process = NULL]
              /\ pc' = "unregister"
              /\ UNCHANGED <<call, result>>
         ELSE Broken /\ UNCHANGED <<process, task>>
    /\ UNCHANGED <<tables, runqueue, pending, memory>>

SkipDetach ==
    /\ pc = "detach"
    /\ ~call.attached
    /\ pc' = "unregister"
    /\ UNCHANGED <<task, process, tables, runqueue, pending, memory, call, result>>

\* Mutation: the slot is cleared and the count kept.
task_registry_unregister_KeepCount ==
    /\ pc = "unregister"
    /\ task_registry' = IF call.registered
                        THEN [task_registry EXCEPT ![task[call.task].id] = NULL]
                        ELSE task_registry
    /\ pc' = "destroy"
    /\ UNCHANGED <<task_registry_active_count, task, process, process_registry,
                   process_registry_count, runqueue, pending, memory, call, result>>

task_registry_unregister ==
    /\ pc = "unregister"
    /\ CASE ~call.registered ->
              /\ pc' = "destroy"
              /\ UNCHANGED <<task_registry, task_registry_active_count, call, result>>
         [] call.registered /\ task_registry_contains(call.task)
                            /\ task_registry_active_count # 0 ->
              /\ task_registry' = [task_registry EXCEPT
                                      ![task[call.task].id] = NULL]
              /\ task_registry_active_count' = task_registry_active_count - 1
              /\ pc' = "destroy"
              /\ UNCHANGED <<call, result>>
         [] OTHER ->
              Broken /\ UNCHANGED <<task_registry, task_registry_active_count>>
    /\ UNCHANGED <<task, process, process_registry, process_registry_count,
                   runqueue, pending, memory>>

\* What the caller of a finished teardown returns.
Outcome == IF call.op = "create" THEN "refused" ELSE "ok"

task_destroy ==
    /\ pc = "destroy"
    /\ LET t == call.task IN
       IF /\ task_validate_reclaim(t)
          /\ task[t].process = NULL
          /\ t \notin Elems(runqueue)
          /\ ~task_registry_contains(t)
         THEN /\ free' = free \cup ({task[t].pages[i] : i \in Page} \ {NULL})
              /\ mapped' = IF task[t].stack = 0 THEN mapped
                           ELSE [mapped EXCEPT ![task[t].stack] = NoPages]
              /\ task' = [task EXCEPT ![t].stack = 0, ![t].pages = NoPages,
                                      ![t].state = "TERMINATED"]
              /\ pending' = IF call.op = "reap" THEN Tail(pending) ELSE pending
              /\ IF call.owns_process
                   THEN pc' = "terminate" /\ UNCHANGED <<call, result>>
                   ELSE Return(Outcome)
         ELSE Broken /\ UNCHANGED <<free, mapped, task, pending>>
    /\ UNCHANGED <<process, tables, runqueue, others>>

\* Calls on a process alone may be refused; inside a transaction they may not.
ProcessCallFails ==
    IF call.op \in {"terminate", "destroy_process"} THEN Return("refused")
                                                    ELSE Broken

TerminateProcess(p) ==
    /\ pc = "idle"
    /\ call' = [NoCall EXCEPT !.op = "terminate", !.process = p]
    /\ pc' = "terminate"
    /\ UNCHANGED <<task, process, tables, runqueue, pending, memory, result>>

process_terminate ==
    /\ pc = "terminate"
    /\ IF /\ process_registry_contains(call.process)
          /\ process[call.process].state = "ACTIVE"
         THEN /\ process' = [process EXCEPT ![call.process].state = "TERMINATED"]
              /\ IF call.op = "terminate"
                   THEN Return("ok")
                   ELSE pc' = "process_destroy" /\ UNCHANGED <<call, result>>
         ELSE ProcessCallFails /\ UNCHANGED process
    /\ UNCHANGED <<task, tables, runqueue, pending, memory>>

DestroyProcess(p) ==
    /\ pc = "idle"
    /\ call' = [NoCall EXCEPT !.op = "destroy_process", !.process = p]
    /\ pc' = "process_destroy"
    /\ UNCHANGED <<task, process, tables, runqueue, pending, memory, result>>

\* Mutation: a process may be destroyed with its members.
process_destroy_WithMembers ==
    /\ pc = "process_destroy"
    /\ LET p == call.process IN
       IF process_registry_contains(p) /\ process[p].state = "TERMINATED"
         THEN /\ process_registry' = [process_registry EXCEPT
                                         ![process[p].id] = NULL]
              /\ process_registry_count' = process_registry_count - 1
              /\ process' = [process EXCEPT ![p] = ZeroProcess]
              /\ Return(Outcome)
         ELSE ProcessCallFails /\ UNCHANGED <<process, process_registry,
                                              process_registry_count>>
    /\ UNCHANGED <<task, task_registry, task_registry_active_count, runqueue,
                   pending, memory>>

process_destroy ==
    /\ pc = "process_destroy"
    /\ LET p == call.process IN
       IF /\ process_registry_contains(p)
          /\ process[p].state = "TERMINATED"
          /\ process[p].tasks = <<>>
          /\ process_registry_count # 0
         THEN /\ process_registry' = [process_registry EXCEPT
                                         ![process[p].id] = NULL]
              /\ process_registry_count' = process_registry_count - 1
              /\ process' = [process EXCEPT ![p] = ZeroProcess]
              /\ Return(Outcome)
         ELSE ProcessCallFails /\ UNCHANGED <<process, process_registry,
                                              process_registry_count>>
    /\ UNCHANGED <<task, task_registry, task_registry_active_count, runqueue,
                   pending, memory>>

-----------------------------------------------------------------------------
(* Between two transactions the tasks run, and the rest of the kernel uses  *)
(* physical frames.                                                         *)

TaskRuns ==
    /\ pc = "idle"
    /\ runqueue # <<>>
    /\ \A t \in Task : task[t].state # "RUNNING"
    /\ task' = [task EXCEPT ![Head(runqueue)].state = "RUNNING"]
    /\ runqueue' = Tail(runqueue)
    /\ UNCHANGED <<process, tables, pending, memory, call, pc, result>>

lifecycle_publish_terminated_task(t) ==
    /\ task[t].mode = "MANAGED"
    /\ Len(pending) < TASK_MAX_TASKS
    /\ t \notin Elems(pending)
    /\ task_registry_contains(t)

\* task_exit: a managed task that cannot be handed to the reaper stops the
\* processor.
TaskExits ==
    /\ pc = "idle"
    /\ \E t \in Task :
          /\ task[t].state = "RUNNING"
          /\ task' = [task EXCEPT ![t].state = "TERMINATED"]
          /\ IF lifecycle_publish_terminated_task(t)
               THEN pending' = Append(pending, t) /\ UNCHANGED <<pc, result>>
               ELSE /\ pc' = "halted"
                    /\ result' = "broken"
                    /\ UNCHANGED pending
    /\ UNCHANGED <<process, tables, runqueue, memory, call>>

OthersAllocate ==
    /\ pc = "idle"
    /\ free # {}
    /\ free' = free \ {pmm_alloc_frame}
    /\ others' = others \cup {pmm_alloc_frame}
    /\ UNCHANGED <<task, process, tables, runqueue, pending, mapped, call, pc, result>>

OthersFree ==
    /\ pc = "idle"
    /\ \E f \in others : others' = others \ {f} /\ free' = free \cup {f}
    /\ UNCHANGED <<task, process, tables, runqueue, pending, mapped, call, pc, result>>

Transaction ==
    \/ process_create \/ task_create \/ MapStackPage \/ MapStackFails
    \/ MapStackRollback \/ MapStackDone \/ task_registry_register
    \/ process_attach_task \/ scheduler_add \/ runqueue_remove
    \/ process_detach_task \/ SkipDetach \/ task_registry_unregister
    \/ task_destroy \/ process_terminate \/ process_destroy

Next ==
    \/ Transaction
    \/ \E p \in Process, t \in Task, tid \in Tid :
          \/ execution_create_task(p, t, tid)
          \/ \E pid \in Pid : execution_create_kernel_task(p, t, pid, tid)
    \/ \E p \in Process, t \in Task :
          execution_destroy_task(p, t) \/ execution_destroy_kernel_task(p, t)
    \/ \E p \in Process : TerminateProcess(p) \/ DestroyProcess(p)
    \/ \E p \in Process, pid \in Pid, as \in AddressSpace : CreateProcess(p, pid, as)
    \/ lifecycle_reap_one \/ TaskRuns \/ TaskExits
    \/ OthersAllocate \/ OthersFree

Spec == Init /\ [][Next]_vars

-----------------------------------------------------------------------------
(* Properties.                                                              *)

Registered == {t \in Task : task_registry_contains(t)}
Members(p) == Elems(process[p].tasks)
StackFrames(t) == {task[t].pages[i] : i \in Page} \ {NULL}

\* The pages mapped in the stack area, and the frames behind them.
MappedPages == {x \in Tid \X Page : mapped[x[1]][x[2]] # NULL}
MappedFrames == {mapped[x[1]][x[2]] : x \in MappedPages}

\* No frame is lost or owned twice on any path, failed creations included:
\* free frames, frames of the rest of the kernel and the frames mapped in the
\* stack area partition the frames, and no two stack pages share one
\* (task_map_stack, its rollback, task_unmap_stack).
FramesConserved ==
    /\ Cardinality(MappedFrames) = Cardinality(MappedPages)
    /\ free \cap others = {}
    /\ MappedFrames \cap (free \cup others) = {}
    /\ free \cup others \cup MappedFrames = Frame

\* A task published in its registry: a member of exactly its process, its
\* stack mapped to the frames it records, and, while READY, in the run queue.
OwnedByAll(t) ==
    /\ task[t].process # NULL
    /\ process_registry_contains(task[t].process)
    /\ \A p \in Process : t \in Members(p) <=> p = task[t].process
    /\ task[t].mode = "MANAGED"
    /\ mapped[task[t].id] = task[t].pages /\ \A i \in Page : task[t].pages[i] # NULL
    /\ (task[t].state = "READY") <=> (t \in Elems(runqueue))
    /\ (task[t].state = "TERMINATED") <=> (t \in Elems(pending))

\* A task nobody registered has no stack, process or queue slot.
OwnedByNone(t) ==
    /\ task[t].process = NULL
    /\ task[t].stack = 0
    /\ StackFrames(t) = {}
    /\ t \notin Elems(runqueue) \cup Elems(pending)
    /\ \A p \in Process : t \notin Members(p)

\* Between transactions a task is owned by every domain or by none, and the
\* registry counts its entries.  No transaction ends with a teardown call
\* refused after its preflight ("broken"), so a task is never left half owned
\* either.
AllOrNothing ==
    pc = "idle" =>
        /\ result # "broken"
        /\ task_registry_active_count = Cardinality({i \in Tid : task_registry[i] # NULL})
        /\ \A t \in Task : IF t \in Registered THEN OwnedByAll(t) ELSE OwnedByNone(t)

\* The identity under which a task is published with all its owners.
published ==
    [t \in Task |->
        IF /\ t \in Registered
           /\ task[t].process # NULL
           /\ t \in Members(task[t].process)
           /\ t \in Elems(runqueue) \/ task[t].state # "READY"
          THEN task[t].id ELSE NULL]

\* What the transactions promise, over the identities above.
Abstract == INSTANCE Ownership

\* The transactions implement atomic publication and withdrawal of execution
\* units under identities no two of them share.
ImplementsOwnership == Abstract!Spec

\* A refused creation leaves the units that exist destroyable: every READY
\* unit passes the preflight of execution_destroy_task
\* (tests/execution_tests.c cleans up the owner of a refused duplicate tid).
OwnersStayDestroyable ==
    pc = "idle" =>
        \A t \in Registered :
            task[t].state = "READY" =>
                execution_preflight_destroy_task(task[t].process, t)

=============================================================================
