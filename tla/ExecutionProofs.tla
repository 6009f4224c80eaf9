-------------------------- MODULE ExecutionProofs ---------------------------
(***************************************************************************)
(* The theorems about the execution layer, for every set of tasks,         *)
(* processes and frames and every table size, about the startup of the     *)
(* runtime that calls it, and about what the runtime hands over to the     *)
(* scheduling core.  What needs counting comes first: the registries'      *)
(* counts are the numbers of their entries, so the ring of terminated      *)
(* tasks always has room.                                                  *)
(***************************************************************************)
EXTENDS ExecutionStepProofs, KernelRuntime, FiniteSetTheorems

-----------------------------------------------------------------------------
(* Counting.                                                               *)

\* The natural numbers are well ordered.
LEMMA Least == WellOrdered
  <1> SUFFICES ASSUME NEW S \in SUBSET Nat, S # {} PROVE \E x \in S : \A y \in S : x <= y
    BY Zenon DEF WellOrdered
  <1>1. PICK x \in S : \A y \in S : ~(<<y, x>> \in OpToRel(<, Nat))
    BY Zenon, NatLessThanWellFounded, WFMin
  <1>2. \A y \in S : ~(y < x)
    BY Zenon, <1>1 DEF OpToRel
  <1> QED BY <1>2

\* The number of entries in use of a registry.
Entries(registry, S) == Cardinality({i \in S : registry[i] # NULL})

(* The counts of the registries are the numbers of their entries.          *)
Counts ==
  /\ task_registry_active_count = Entries(task_registry, Tid)
  /\ process_registry_count = Entries(process_registry, Pid)

\* Filling one entry counts one more.
LEMMA Filled ==
  ASSUME NEW S, IsFiniteSet(S), NEW f, NEW g, NEW i \in S,
         f[i] = NULL, g[i] # NULL, \A j \in S : j # i => g[j] = f[j]
  PROVE  Entries(g, S) = Entries(f, S) + 1
  <1> DEFINE full == {j \in S : f[j] # NULL}
             more == {j \in S : g[j] # NULL}
  <1>1. more = full \cup {i} /\ i \notin full
    OBVIOUS
  <1>2. IsFiniteSet(full)
    BY Zenon, FS_Subset
  <1> HIDE DEF full, more
  <1>3. Cardinality(full \cup {i}) = Cardinality(full) + 1
    BY Zenon, <1>1, <1>2, FS_AddElement
  <1> QED BY Zenon, <1>1, <1>3 DEF full, more, Entries

\* Emptying one entry counts one less.
LEMMA Emptied ==
  ASSUME NEW S, IsFiniteSet(S), NEW f, NEW g, NEW i \in S,
         f[i] # NULL, g[i] = NULL, \A j \in S : j # i => g[j] = f[j]
  PROVE  Entries(g, S) = Entries(f, S) - 1 /\ Entries(f, S) # 0
  <1> DEFINE full == {j \in S : f[j] # NULL}
             fewer == {j \in S : g[j] # NULL}
  <1>1. fewer = full \ {i} /\ i \in full
    OBVIOUS
  <1>2. IsFiniteSet(full)
    BY Zenon, FS_Subset
  <1> HIDE DEF full, fewer
  <1>3. Cardinality(full \ {i}) = Cardinality(full) - 1
    BY Zenon, <1>1, <1>2, FS_RemoveElement
  <1>4. Cardinality(full) # 0
    BY <1>1, <1>2, FS_EmptySet
  <1> QED BY <1>1, <1>3, <1>4 DEF full, fewer, Entries

\* The registries are finite.
LEMMA Registrars == IsFiniteSet(Tid) /\ IsFiniteSet(Pid)
  BY Sizes, FS_Interval DEF Tid, Pid

(* The queue of terminated tasks never overflows: its tasks are registered *)
(* under different tids.                                                   *)
LEMMA PendingRoom ==
  ASSUME OwnInv, ~InHand, NEW t \in Task, task_registry_contains(t), t \notin Elems(pending)
  PROVE  Len(pending) < TASK_MAX_TASKS
  <1> DEFINE n == Len(pending)
             all == Append(pending, t)
             id == [i \in 1..n+1 |-> task[all[i]].id]
  <1>1. pending \in Seq(Task) /\ n \in Nat
    BY DEF OwnInv, Types, TaskTypes
  <1>2. Distinct(all) /\ Len(all) = n + 1 /\ \A i \in 1..n+1 : all[i] \in Task
    BY <1>1, Appended DEF OwnInv, Queues
  <1>3. \A i \in 1..n+1 : all[i] \in Elems(pending) \cup {t}
    BY SMTT(30), <1>1 DEF Elems
  <1>4. \A u \in Task : u \in Elems(pending) => task_registry_contains(u)
    BY Zenon DEF OwnInv, Settled, Whole, NoneOwns
  <1>5. \A i \in 1..n+1 : task_registry_contains(all[i])
    BY Zenon, <1>2, <1>3, <1>4
  <1> HIDE DEF all
  <1>6. \A i \in 1..n+1 : task[all[i]].id \in Tid /\ task_registry[task[all[i]].id] = all[i]
    BY Zenon, <1>5 DEF task_registry_contains
  <1>7. \A i, j \in 1..n+1 : task[all[i]].id = task[all[j]].id => i = j
    BY SMTT(30), <1>2, <1>6 DEF Distinct
  <1>8. id \in Injection(1..n+1, Tid)
    BY Zenon, <1>6, <1>7 DEF Injection, IsInjective
  <1> HIDE DEF id
  <1>9. Cardinality(1..n+1) <= Cardinality(Tid)
    BY Zenon, <1>8, FS_Injection, Registrars
  <1>10. Cardinality(1..n+1) = n + 1 /\ Cardinality(Tid) = TASK_MAX_TASKS
    BY SMTT(30), <1>1, Sizes, FS_Interval DEF Tid
  <1> QED BY SMTT(30), <1>1, <1>9, <1>10, Sizes

\* Exact counts leave the room that the steps need.
LEMMA CountsLeaveRoom == ASSUME OwnInv, Counts PROVE Room
  <1>0. Types
    BY Zenon DEF OwnInv
  <1>1. ASSUME NEW t \in Task, task_registry_contains(t) PROVE task_registry_active_count # 0
    <2>1. PICK s \in Tid : task_registry[s] = t
      BY Zenon, <1>1 DEF task_registry_contains
    <2> DEFINE other == [task_registry EXCEPT ![s] = NULL]
    <2>2. other[s] = NULL /\ \A j \in Tid : j # s => other[j] = task_registry[j]
      BY Zenon, <1>0 DEF Types, TaskTypes
    <2>3. task_registry[s] # NULL
      BY Zenon, <2>1, Nulls
    <2> HIDE DEF other
    <2>4. Entries(task_registry, Tid) # 0
      BY Zenon, <2>2, <2>3, Emptied, Registrars
    <2> QED BY Zenon, <2>4 DEF Counts
  <1>2. ASSUME NEW p \in Process, process_registry_contains(p) PROVE process_registry_count # 0
    <2>1. PICK s \in Pid : process_registry[s] = p
      BY Zenon, <1>2 DEF process_registry_contains
    <2> DEFINE other == [process_registry EXCEPT ![s] = NULL]
    <2>2. other[s] = NULL /\ \A j \in Pid : j # s => other[j] = process_registry[j]
      BY Zenon, <1>0 DEF Types, ProcessTypes
    <2>3. process_registry[s] # NULL
      BY Zenon, <2>1, Nulls
    <2> HIDE DEF other
    <2>4. Entries(process_registry, Pid) # 0
      BY Zenon, <2>2, <2>3, Emptied, Registrars
    <2> QED BY Zenon, <2>4 DEF Counts
  <1> QED BY Zenon, <1>1, <1>2, PendingRoom DEF Room

\* The registries start empty and count none.
LEMMA InitCounts == Init => Counts
  <1> SUFFICES ASSUME Init PROVE Counts
    OBVIOUS
  <1>1. {i \in Tid : task_registry[i] # NULL} = {} /\ {i \in Pid : process_registry[i] # NULL} = {}
    BY Zenon DEF Init
  <1> QED BY Zenon, <1>1, FS_EmptySet DEF Init, Counts, Entries

(* Registration counts one more, unregistration one less.                  *)
LEMMA CountStep == ASSUME OwnInv, Counts, [Next]_vars PROVE Counts'
  <1>0. Types
    BY Zenon DEF OwnInv
  <1>1. CASE UNCHANGED tables
    BY Zenon, <1>1 DEF Counts, tables
  <1>2. CASE process_create
    <2>1. UNCHANGED <<task_registry, task_registry_active_count>>
      BY Zenon, <1>2 DEF process_create
    <2>2. CASE UNCHANGED <<process_registry, process_registry_count>>
      BY Zenon, <2>1, <2>2 DEF Counts
    <2>3. CASE /\ process_registry[call.pid] = NULL
               /\ process_registry' = [process_registry EXCEPT ![call.pid] = call.process]
               /\ process_registry_count' = process_registry_count + 1
      <3>1. call.pid \in Pid /\ call.process \in Process
        BY <1>0, <1>2, ProcessCreated
      <3>2. /\ process_registry'[call.pid] # NULL
            /\ \A i \in Pid : i # call.pid => process_registry'[i] = process_registry[i]
        BY <1>0, <2>3, <3>1, Nulls DEF Types, ProcessTypes
      <3>3. Entries(process_registry', Pid) = Entries(process_registry, Pid) + 1
        BY Zenon, <2>3, <3>1, <3>2, Filled, Registrars
      <3> QED BY <2>1, <2>3, <3>3 DEF Counts
    <2> QED BY Zenon, <1>2, <2>2, <2>3 DEF process_create
  <1>3. CASE process_destroy
    <2>1. UNCHANGED <<task_registry, task_registry_active_count>>
      BY Zenon, <1>3 DEF process_destroy
    <2>2. CASE UNCHANGED ProcessVars
      BY Zenon, <2>1, <2>2 DEF Counts, ProcessVars
    <2>3. CASE /\ process_registry_contains(call.process)
               /\ process_registry' = [process_registry EXCEPT ![process[call.process].id] = NULL]
               /\ process_registry_count' = process_registry_count - 1
      <3>1. PICK s \in Pid : s = process[call.process].id /\ process_registry[s] = call.process
        BY Zenon, <2>3 DEF process_registry_contains
      <3>2. /\ process_registry[s] # NULL /\ process_registry'[s] = NULL
            /\ \A i \in Pid : i # s => process_registry'[i] = process_registry[i]
        BY <1>0, <1>3, <2>3, <3>1, Nulls, ProcessDestroyed DEF Types, ProcessTypes
      <3>3. Entries(process_registry', Pid) = Entries(process_registry, Pid) - 1
        BY Zenon, <3>2, Emptied, Registrars
      <3> QED BY <2>1, <2>3, <3>3 DEF Counts
    <2> QED BY Zenon, <1>0, <1>3, <2>2, <2>3, ProcessDestroyed
  <1>4. CASE task_registry_register
    <2>1. UNCHANGED <<process_registry, process_registry_count>>
      BY Zenon, <1>4 DEF task_registry_register
    <2>2. CASE UNCHANGED <<task_registry, task_registry_active_count>>
      BY Zenon, <2>1, <2>2 DEF Counts
    <2>3. CASE /\ task_registry[call.tid] = NULL
               /\ task_registry' = [task_registry EXCEPT ![call.tid] = call.task]
               /\ task_registry_active_count' = task_registry_active_count + 1
      <3>1. call.tid \in Tid /\ call.task \in Task
        BY <1>0, <1>4 DEF task_registry_register, Types, Control
      <3>2. /\ task_registry'[call.tid] # NULL
            /\ \A i \in Tid : i # call.tid => task_registry'[i] = task_registry[i]
        BY <1>0, <2>3, <3>1, Nulls DEF Types, TaskTypes
      <3>3. Entries(task_registry', Tid) = Entries(task_registry, Tid) + 1
        BY Zenon, <2>3, <3>1, <3>2, Filled, Registrars
      <3> QED BY Zenon, <2>1, <2>3, <3>3 DEF Counts
    <2> QED BY Zenon, <1>4, <2>2, <2>3 DEF task_registry_register
  <1>5. CASE task_registry_unregister
    <2>1. UNCHANGED <<process_registry, process_registry_count>>
      BY <1>5 DEF task_registry_unregister
    <2>2. CASE UNCHANGED <<task_registry, task_registry_active_count>>
      BY Zenon, <2>1, <2>2 DEF Counts
    <2>3. CASE /\ task_registry_contains(call.task)
               /\ task_registry' = [task_registry EXCEPT ![task[call.task].id] = NULL]
               /\ task_registry_active_count' = task_registry_active_count - 1
      <3>1. PICK s \in Tid : s = task[call.task].id /\ task_registry[s] = call.task
        BY Zenon, <2>3 DEF task_registry_contains
      <3>2. /\ task_registry[s] # NULL /\ task_registry'[s] = NULL
            /\ \A i \in Tid : i # s => task_registry'[i] = task_registry[i]
        BY <1>0, <1>5, <2>3, <3>1, Nulls DEF task_registry_unregister, Types, TaskTypes, Control
      <3>3. Entries(task_registry', Tid) = Entries(task_registry, Tid) - 1
        BY Zenon, <3>2, Emptied, Registrars
      <3> QED BY <2>1, <2>3, <3>3 DEF Counts
    <2> QED BY Zenon, <1>5, <2>2, <2>3 DEF task_registry_unregister
  <1>6. CASE Transaction
    BY Zenon, <1>1, <1>2, <1>3, <1>4, <1>5, <1>6
       DEF Transaction, task_create, MapStackPage, MapStackFails, MapStackRollback, MapStackDone,
           process_attach_task, scheduler_add, runqueue_remove, process_detach_task, SkipDetach,
           task_destroy, process_terminate
  <1>7. CASE Next /\ ~Transaction
    BY Zenon, <1>1, <1>7
       DEF Next, execution_create_task, execution_create_kernel_task, execution_destroy_task,
           execution_destroy_kernel_task, TerminateProcess, DestroyProcess, CreateProcess,
           lifecycle_reap_one, TaskRuns, TaskExits, OthersAllocate, OthersFree
  <1>8. CASE UNCHANGED vars
    BY Zenon, <1>1, <1>8 DEF vars
  <1> QED BY Zenon, <1>6, <1>7, <1>8

-----------------------------------------------------------------------------
(* The theorems.                                                           *)

(* The inductive invariant holds in every reachable state.                 *)
LEMMA OwnershipInvariant == UniqueTids => (Spec => [](OwnInv /\ Counts))
  <1>1. Init => OwnInv /\ Counts
    BY Zenon, Least, InitOwn, InitCounts
  <1> SUFFICES ASSUME UniqueTids PROVE Spec => [](OwnInv /\ Counts)
    OBVIOUS
  <1>2. OwnInv /\ Counts /\ [Next]_vars => (OwnInv /\ Counts)'
    BY Zenon, KeptApart, OwnStep, CountStep, CountsLeaveRoom DEF OwnInv
  <1> QED BY <1>1, <1>2, PTL DEF Spec

\* Between transactions no task is in hand.
LEMMA IdleIsWhole == OwnInv /\ Counts => AllOrNothing
  <1> SUFFICES ASSUME OwnInv, Counts, pc = "idle" PROVE AllOrNothing
    BY Zenon DEF AllOrNothing
  <1>1. result # "broken" /\ task_registry_active_count = Cardinality({i \in Tid : task_registry[i] # NULL})
    BY Zenon DEF OwnInv, Unbroken, Counts, Entries
  <1>2. \A t \in Task : Whole(t)
    BY Zenon DEF OwnInv, Settled, InHand
  <1>3. ASSUME NEW t \in Task, t \in Registered PROVE OwnedByAll(t)
    BY <1>2, <1>3, Nulls DEF Registered, Whole, AllOwn, InProcess, FullStack, OwnedByAll
  <1>4. ASSUME NEW t \in Task, t \notin Registered PROVE OwnedByNone(t)
    <2>1. NoneOwns(t)
      BY Zenon, <1>2, <1>4 DEF Registered, Whole
    <2>2. StackFrames(t) = {}
      BY Zenon, <2>1 DEF NoneOwns, StackFrames, NoPages
    <2> QED BY Zenon, <2>1, <2>2 DEF NoneOwns, NoProcess, OwnedByNone
  <1>5. \A t \in Task : IF t \in Registered THEN OwnedByAll(t) ELSE OwnedByNone(t)
    BY Zenon, <1>3, <1>4
  <1> QED BY Zenon, <1>1, <1>5 DEF AllOrNothing

(* AllOrNothing, for every bound, when no caller asks for the tid of a     *)
(* live task: between transactions a task is owned by all of registry,     *)
(* process, stack area and queues, or by none of them, however the         *)
(* transactions of execution.c and the reaper were refused or rolled back. *)
THEOREM OwnedByAllOrNone == UniqueTids => (Spec => []AllOrNothing)
  BY OwnershipInvariant, IdleIsWhole, PTL

(* No teardown is refused once its preflight has passed, and task_exit     *)
(* always finds room in the queue of terminated tasks: the kernel is never *)
(* halted by lifecycle_publish_terminated_task and no error path is left   *)
(* half done.                                                              *)
THEOREM NoWayBackIsNeeded == UniqueTids => (Spec => [](pc # "halted" /\ result # "broken"))
  <1>1. OwnInv => pc # "halted" /\ result # "broken"
    BY Zenon DEF OwnInv, Unbroken
  <1> QED BY <1>1, OwnershipInvariant, PTL

(* OwnersStayDestroyable, which a caller that reuses the tid of a live     *)
(* task breaks, holds for the callers that do not: every READY unit passes *)
(* the preflight of execution_destroy_task.                                *)
THEOREM Destroyable == UniqueTids => (Spec => []OwnersStayDestroyable)
  <1>1. OwnInv => OwnersStayDestroyable
    <2> SUFFICES ASSUME OwnInv, pc = "idle", NEW t \in Registered, task[t].state = "READY"
                 PROVE  execution_preflight_destroy_task(task[t].process, t)
      BY Zenon DEF OwnersStayDestroyable
    <2>1. t \in Task /\ task_registry_contains(t) /\ AllOwn(t)
      BY Zenon DEF OwnInv, Settled, InHand, Registered, Whole
    <2>2. task_validate_reclaim(t)
      BY Zenon, <2>1 DEF AllOwn, FullStack, task_validate_reclaim
    <2> QED BY Zenon, <2>1, <2>2 DEF AllOwn, InProcess, execution_preflight_destroy_task
  <1> QED BY <1>1, OwnershipInvariant, PTL

(* ImplementsOwnership, for every bound, when no caller asks for the tid   *)
(* of a live task: whatever their interleaving, the transactions publish   *)
(* an execution unit with all its owners in one step, under an identity no *)
(* other unit holds, and withdraw it in one step.                          *)
THEOREM AtomicPublication == UniqueTids => (Spec => ImplementsOwnership)
  <1> SUFFICES ASSUME UniqueTids PROVE Spec => ImplementsOwnership
    OBVIOUS
  <1>1. Init => Abstract!Init
    <2> SUFFICES ASSUME Init PROVE Abstract!Init
      OBVIOUS
    <2>1. \A t \in Task : ~task_registry_contains(t)
      BY Zenon, Nulls DEF Init, task_registry_contains
    <2>2. \A t \in Task : t \notin Registered
      BY Zenon, <2>1 DEF Registered
    <2> QED BY Zenon, <2>2 DEF published, Abstract!Init
  <1>2. OwnInv /\ OwnInv' /\ [Next]_vars => [Abstract!Next]_published
    <2> SUFFICES ASSUME OwnInv, OwnInv', [Next]_vars
                 PROVE  \/ UNCHANGED published
                        \/ \E t \in Task : Abstract!Withdraw(t) \/ \E tid \in Tid : Abstract!Publish(t, tid)
      BY Zenon DEF Abstract!Next
    <2>1. CASE UNCHANGED vars
      BY Zenon, <2>1 DEF vars, tables, published, Registered, Members, task_registry_contains
    <2>2. CASE Transaction
      BY Zenon, <2>2, OutsideKeeps, MakingKeeps, RegistryKeeps, PublicationStep DEF Transaction
    <2>3. CASE Next /\ ~Transaction
      BY Zenon, <2>3, OutsideKeeps, TeardownKeeps DEF Next
    <2> QED BY Zenon, <2>1, <2>2, <2>3
  <1>3. Spec => []OwnInv
    BY OwnershipInvariant, PTL
  <1> QED BY <1>1, <1>2, <1>3, PTL DEF Spec, ImplementsOwnership, Abstract!Spec

(* Finiteness and counting.                                                *)
LEMMA PartitionCounts == FrameInv => FramesConserved
  <1> SUFFICES ASSUME FrameInv PROVE FramesConserved
    OBVIOUS
  <1> DEFINE f == [x \in MappedPages |-> mapped[x[1]][x[2]]]
  <1>0. MemoryTypes /\ Partition
    BY Zenon DEF FrameInv, Types
  <1>1. IsFiniteSet(MappedPages)
    <2>1. IsFiniteSet(Tid) /\ IsFiniteSet(Page)
      BY Sizes, FS_Interval DEF Tid, Page
    <2>2. IsFiniteSet(Tid \X Page)
      BY Zenon, <2>1, FS_Product
    <2> QED BY Zenon, <2>2, FS_Subset DEF MappedPages
  <1>2. Cardinality(MappedFrames) = Cardinality(MappedPages)
    <2>1. f \in Surjection(MappedPages, MappedFrames)
      BY Zenon DEF Surjection, MappedFrames
    <2>2. \A x, y \in MappedPages : f[x] = f[y] => x = y
      <3> SUFFICES ASSUME NEW x \in MappedPages, NEW y \in MappedPages, f[x] = f[y] PROVE x = y
        BY Zenon
      <3>1. /\ x[1] \in Tid /\ x[2] \in Page /\ y[1] \in Tid /\ y[2] \in Page
            /\ x = <<x[1], x[2]>> /\ y = <<y[1], y[2]>>
            /\ mapped[x[1]][x[2]] # NULL /\ mapped[x[1]][x[2]] = mapped[y[1]][y[2]]
        BY DEF MappedPages
      <3>2. x[1] = y[1] /\ x[2] = y[2]
        BY <1>0, <3>1 DEF Partition
      <3> QED BY Zenon, <3>1, <3>2
    <2>3. f \in Injection(MappedPages, MappedFrames)
      BY Zenon, <2>2 DEF Injection, IsInjective, MappedFrames
    <2> HIDE DEF f
    <2> QED BY Zenon, <1>1, <2>1, <2>3, FS_Surjection
  <1>3. \A g \in Frame : g \in MappedFrames <=> \E i \in Tid, j \in Page : mapped[i][j] = g
    <2> SUFFICES ASSUME NEW g \in Frame
                 PROVE  g \in MappedFrames <=> \E i \in Tid, j \in Page : mapped[i][j] = g
      OBVIOUS
    <2>1. ASSUME NEW i \in Tid, NEW j \in Page, mapped[i][j] = g PROVE g \in MappedFrames
      <3>1. <<i, j>> \in MappedPages
        BY Zenon, <2>1, Nulls DEF MappedPages
      <3> QED BY <2>1, <3>1 DEF MappedFrames
    <2>2. ASSUME g \in MappedFrames PROVE \E i \in Tid, j \in Page : mapped[i][j] = g
      BY Zenon, <2>2 DEF MappedFrames, MappedPages
    <2> QED BY Zenon, <2>1, <2>2
  <1>4. MappedFrames \subseteq Frame
    BY <1>0 DEF MemoryTypes, Pages, MappedFrames, MappedPages
  <1>5. free \cap others = {} /\ MappedFrames \cap (free \cup others) = {}
    BY <1>0, <1>3, <1>4 DEF Partition, MemoryTypes
  <1>6. free \cup others \cup MappedFrames = Frame
    BY Zenon, <1>0, <1>3, <1>4 DEF Partition, MemoryTypes
  <1> QED BY Zenon, <1>2, <1>5, <1>6 DEF FramesConserved

(* FramesConserved, for every bound and whether or not the callers keep    *)
(* their tids apart: free frames, frames of the rest of the kernel and the *)
(* frames mapped in the stack area partition the frames on every path of   *)
(* task_map_stack, its rollback and task_unmap_stack.                      *)
THEOREM FrameConservation == Spec => []FramesConserved
  <1>1. Init => FrameInv
    BY Zenon, Least, InitFrames
  <1>2. FrameInv /\ [Next]_vars => FrameInv'
    BY Zenon, StepTypes, PartitionStep, UnboundStep DEF FrameInv
  <1> QED BY <1>1, <1>2, PartitionCounts, PTL DEF Spec

-----------------------------------------------------------------------------
(* Startup: kernel_runtime_init, its rollback and kernel_runtime_start, as *)
(* a caller of the execution layer.                                        *)

\* A registry with a free entry counts less than its size.
LEMMA FreeEntry ==
  ASSUME Types, Counts, NEW s \in Tid, task_registry[s] = NULL
  PROVE  task_registry_active_count < TASK_MAX_TASKS
  <1> DEFINE full == {i \in Tid : task_registry[i] # NULL}
  <1>1. full \subseteq Tid \ {s}
    OBVIOUS
  <1>2. IsFiniteSet(Tid \ {s}) /\ Cardinality(Tid \ {s}) = Cardinality(Tid) - 1
    BY Zenon, Registrars, FS_RemoveElement
  <1>3. Cardinality(Tid) = TASK_MAX_TASKS
    BY SMTT(30), Sizes, FS_Interval DEF Tid
  <1>4. Cardinality(full) <= Cardinality(Tid \ {s}) /\ Cardinality(full) = task_registry_active_count
    BY Zenon, <1>1, <1>2, FS_Subset DEF Counts, Entries
  <1>5. task_registry_active_count \in Nat
    BY Zenon DEF Types, TaskTypes
  <1> HIDE DEF full
  <1> QED BY <1>2, <1>3, <1>4, <1>5, Sizes

\* The counts say what startup needs of them.
LEMMA CountsCountable == ASSUME Types, Counts PROVE Countable
  <1>1. \A i \in Tid : task_registry[i] = NULL => task_registry_active_count < TASK_MAX_TASKS
    BY Zenon, FreeEntry
  <1>2. Cardinality({}) = 0
    BY Zenon, FS_EmptySet
  <1>3. ASSUME \A i \in Tid : task_registry[i] = NULL PROVE task_registry_active_count = 0
    <2>1. {i \in Tid : task_registry[i] # NULL} = {}
      BY Zenon, <1>3
    <2> QED BY Zenon, <1>2, <2>1 DEF Counts, Entries
  <1>4. ASSUME \A i \in Pid : process_registry[i] = NULL PROVE process_registry_count = 0
    <2>1. {i \in Pid : process_registry[i] # NULL} = {}
      BY Zenon, <1>4
    <2> QED BY Zenon, <1>2, <2>1 DEF Counts, Entries
  <1> QED BY Zenon, <1>1, <1>3, <1>4 DEF Countable

\* The inductive invariant of initialization, rollback and start.
RuntimeInv == OwnInv /\ Counts /\ FrameInv /\ StartInv /\ TidsApart

\* It holds before the first attempt.
LEMMA RuntimeInit == ASSUME StartupObjects, StartupInit PROVE RuntimeInv
  <1>1. Init
    BY Zenon DEF StartupInit
  <1>2. OwnInv /\ Counts /\ FrameInv
    BY Zenon, <1>1, Least, InitOwn, InitCounts, InitFrames
  <1>3. TidsApart
    BY Zenon, <1>1, RuntimeObjects, Nulls DEF Init, TidsApart
  <1>4. \A t \in Task : ~task_registry_contains(t)
    BY Zenon, <1>1, Nulls DEF Init, task_registry_contains
  <1>5. ~process_registry_contains(kernel)
    BY Zenon, <1>1, Nulls, RuntimeObjects DEF Init, process_registry_contains
  <1>6. Units(<<>>)
    BY Zenon, <1>1, <1>4, <1>5, Lists DEF Init, Units
  <1>7. ~(attempts > 0) /\ at = "off" /\ Flags(FALSE, FALSE, FALSE)
    BY DEF StartupInit, Flags
  <1> QED BY Zenon, <1>1, <1>2, <1>3, <1>6, <1>7 DEF RuntimeInv, StartInv, Resting, Init

\* Every statement of the runtime preserves it.
LEMMA RuntimeStepInv ==
  ASSUME StartupObjects, RuntimeInv, [StartupNext \/ kernel_runtime_start]_allVars PROVE RuntimeInv'
  <1>0. Countable
    BY Zenon, CountsCountable DEF RuntimeInv, OwnInv
  <1>1. OwnInv /\ Counts /\ FrameInv /\ StartInv /\ TidsApart
    BY Zenon DEF RuntimeInv
  <1>2. [Next]_vars /\ FreshTid
    BY Zenon, <1>0, <1>1, RuntimeIsACaller
  <1>3. OwnInv' /\ Counts'
    BY Zenon, <1>1, <1>2, OwnStep, CountStep, CountsLeaveRoom
  <1>4. FrameInv'
    BY Zenon, <1>1, <1>2, StepTypes, PartitionStep, UnboundStep DEF FrameInv
  <1>5. TidsApart'
    BY Zenon, <1>1, <1>2, TidsApartStep
  <1>6. StartInv'
    <2>1. CASE ExecutionStep
      BY Zenon, <1>0, <1>1, <1>3, <2>1, CallStep
    <2>2. CASE \/ \E fail \in BOOLEAN : kernel_runtime_init(fail)
               \/ \E works \in BOOLEAN : clock_source_init(works)
               \/ InitDomains \/ RootCreated \/ ReaperCreated \/ Undone
      <3>1. UNCHANGED vars
        BY Zenon, <1>0, <1>1, <2>2, DomainsAreEmpty
           DEF kernel_runtime_init, clock_source_init, RootCreated, ReaperCreated, Undone
      <3> QED BY Zenon, <1>1, <2>2, <3>1, LocalStep
    <2>3. CASE CreateRoot \/ CreateReaper \/ UndoReaper \/ UndoRoot
      BY Zenon, <1>1, <2>3, LocalStep, CallingStep
    <2>4. CASE Others \/ kernel_runtime_start
      BY Zenon, <1>1, <2>4, OutsideStep
    <2>5. CASE UNCHANGED allVars
      <3>1. /\ UNCHANGED <<task, process, task_registry, process_registry, runqueue, pc, pending, call, result>>
            /\ UNCHANGED <<at, root_published, reaper_published, initialized, attempts, cause>>
        BY Zenon, <2>5 DEF allVars, vars, startupVars, tables, flags
      <3>2. \A s : (Units(s)' <=> Units(s)) /\ (Home(s)' <=> Home(s)) /\ (ActiveHome(s)' <=> ActiveHome(s))
        BY Zenon, <3>1, UnitsKept, HomeKept
      <3>3. /\ \A t : task_registry_contains(t)' <=> task_registry_contains(t)
            /\ process_registry_contains(kernel)' <=> process_registry_contains(kernel)
        BY Zenon, <3>1 DEF task_registry_contains, process_registry_contains
      <3>4. /\ CreationOfHome' <=> CreationOfHome
            /\ EndOfHome' <=> EndOfHome
            /\ Withdrawal' <=> Withdrawal
        BY Zenon, <3>1, <3>2, <3>3 DEF CreationOfHome, EndOfHome, Withdrawal
      <3>5. \A t, i, s : Creation(t, i, s)' <=> Creation(t, i, s)
        <4> SUFFICES ASSUME NEW t, NEW i, NEW s PROVE Creation(t, i, s)' <=> Creation(t, i, s)
          OBVIOUS
        <4>1. (ActiveHome(s)' <=> ActiveHome(s)) /\ (ActiveHome(Append(s, t))' <=> ActiveHome(Append(s, t)))
          BY Zenon, <3>2
        <4>2. /\ (\A u \in Task \ {t} : task_registry_contains(u) <=> u \in Elems(s))' <=>
                 (\A u \in Task \ {t} : task_registry_contains(u) <=> u \in Elems(s))
              /\ (\A u \in Elems(s) : task[u].state = "READY")' <=> (\A u \in Elems(s) : task[u].state = "READY")
          BY Zenon, <3>1, <3>3
        <4> QED BY Zenon, <3>1, <4>1, <4>2 DEF Creation
      <3>6. \A r, p, i : Flags(r, p, i)' <=> Flags(r, p, i)
        BY Zenon, <3>1 DEF Flags
      <3> QED BY Zenon, <1>1, <3>1, <3>2, <3>4, <3>5, <3>6
         DEF StartInv, Resting, RootInHand, RootAlone, ReaperInHand, RootLeaves, Complete, Started
    <2> QED BY Zenon, <2>1, <2>2, <2>3, <2>4, <2>5 DEF StartupNext, RuntimeStep
  <1> QED BY Zenon, <1>1, <1>3, <1>4, <1>5, <1>6 DEF RuntimeInv

\* So it holds in every reachable state.
LEMMA RuntimeInvariant == StartupObjects => (StartupSpec => []RuntimeInv)
  <1> SUFFICES ASSUME StartupObjects PROVE StartupSpec => []RuntimeInv
    OBVIOUS
  <1>1. StartupInit => RuntimeInv
    BY Zenon, RuntimeInit
  <1>2. RuntimeInv /\ [StartupNext \/ kernel_runtime_start]_allVars => RuntimeInv'
    BY Zenon, RuntimeStepInv
  <1> QED BY <1>1, <1>2, PTL DEF StartupSpec

\* Nothing is left when no attempt is in progress.
LEMMA NothingLeft == ASSUME StartupObjects, RuntimeInv PROVE FailedInitLeavesNothing
  <1> SUFFICES ASSUME at = "off" PROVE FailedInitLeavesNothing
    BY Zenon DEF FailedInitLeavesNothing
  <1>0. Countable
    BY Zenon, CountsCountable DEF RuntimeInv, OwnInv
  <1>1. OwnInv /\ Counts /\ FrameInv /\ pending = <<>> /\ Resting
    BY Zenon DEF RuntimeInv, StartInv, Resting, RootInHand, RootAlone, ReaperInHand, RootLeaves, Complete, Started
  <1>2. /\ pc = "idle" /\ runqueue = <<>> /\ Flags(FALSE, FALSE, FALSE)
        /\ \A t \in Task : ~task_registry_contains(t)
        /\ ~process_registry_contains(kernel)
    BY Zenon, <1>1, Lists DEF Resting, Units
  <1>3. /\ task_registry = [i \in Tid |-> NULL] /\ task_registry_active_count = 0
        /\ process_registry_count = 0
    BY Zenon, <1>0, <1>1, <1>2, EmptyTables
  <1>4. \A i \in Tid : mapped[i] = NoPages
    BY Zenon, <1>1, <1>2, <1>3 DEF OwnInv, Slots, InHand
  <1>5. mapped = [i \in Tid |-> NoPages]
    BY Zenon, <1>1, <1>4 DEF OwnInv, Types, MemoryTypes
  <1>6. \A i \in Tid, j \in Page : mapped[i][j] \notin Frame
    BY Zenon, <1>4, Nulls DEF NoPages
  <1>7. free \cup others = Frame
    <2>1. free \subseteq Frame /\ others \subseteq Frame
      BY Zenon, <1>1 DEF FrameInv, Types, MemoryTypes
    <2>2. \A f \in Frame : f \in free \/ f \in others
      <3>1. \A f \in Frame : f \in free \/ f \in others \/ \E i \in Tid, j \in Page : mapped[i][j] = f
        BY Zenon, <1>1 DEF FrameInv, Partition
      <3> QED BY Zenon, <1>6, <3>1
    <2> QED BY Zenon, <2>1, <2>2
  <1> QED BY Zenon, <1>1, <1>2, <1>3, <1>5, <1>7 DEF FailedInitLeavesNothing, Flags

(* FailedInitLeavesNothing, for every number of frames and pages and every *)
(* size of the tables: whatever made kernel_runtime_init fail, its         *)
(* rollback leaves no registration, no queue entry, no mapping, no lost    *)
(* frame and no publication flag.                                          *)
THEOREM FailedStartLeavesNothing == StartupObjects => (StartupSpec => []FailedInitLeavesNothing)
  <1> SUFFICES ASSUME StartupObjects PROVE StartupSpec => []FailedInitLeavesNothing
    OBVIOUS
  <1>1. RuntimeInv => FailedInitLeavesNothing
    BY Zenon, NothingLeft
  <1> QED BY <1>1, RuntimeInvariant, PTL

(* FailsOnlyForCause, for every bound: kernel_runtime_init fails only for  *)
(* want of a clock or of a frame or because it was told to, however many   *)
(* attempts came before it on the same objects.                            *)
THEOREM StartFailsOnlyForCause == StartupObjects => (StartupSpec => []FailsOnlyForCause)
  <1> SUFFICES ASSUME StartupObjects PROVE StartupSpec => []FailsOnlyForCause
    OBVIOUS
  <1>1. RuntimeInv => FailsOnlyForCause
    BY Zenon DEF RuntimeInv, StartInv, Resting, RootInHand, RootAlone, ReaperInHand, RootLeaves, Complete,
       Started, FailsOnlyForCause
  <1> QED BY <1>1, RuntimeInvariant, PTL

(* kernel_runtime_start after a successful kernel_runtime_init always      *)
(* finds the root task at the head of the run queue, and the rollback      *)
(* never has a published reaper to withdraw nor meets a refused call.      *)
THEOREM TheRootTaskRunsFirst ==
  StartupObjects =>
    (StartupSpec => [](at \notin {"start_failed", "reaper_undone"} /\ result # "broken"))
  <1> SUFFICES ASSUME StartupObjects
               PROVE  StartupSpec => [](at \notin {"start_failed", "reaper_undone"} /\ result # "broken")
    OBVIOUS
  <1>1. RuntimeInv => at \notin {"start_failed", "reaper_undone"} /\ result # "broken"
    BY Zenon DEF RuntimeInv, OwnInv, Unbroken, StartInv, Resting, RootInHand, RootAlone, ReaperInHand,
       RootLeaves, Complete, Started
  <1> QED BY <1>1, RuntimeInvariant, PTL

-----------------------------------------------------------------------------
(* Composition: what kernel_runtime_start hands over is an initial state   *)
(* of the scheduling core.                                                 *)

\* The core before the hand-over, as Runtime begins.
CoreRests ==
  at # "started" =>
    /\ ready = <<root, reaper>> /\ terminated = <<>>
    /\ state = [t \in Task |-> "READY"]
    /\ stacks = Task /\ registered = Task /\ members = Task

\* A successful kernel_runtime_init leaves the two units that the core expects.
LEMMA TwoUnits ==
  ASSUME StartupObjects, RuntimeInv, at = "ready"
  PROVE  /\ runqueue = <<root, reaper>> /\ pending = <<>>
         /\ \A t \in Task : task[t].state = "READY"
         /\ Registered = Task /\ Members(kernel) = Task
         /\ \A t \in Task : mapped[task[t].id] = task[t].pages
  <1>1. OwnInv /\ pending = <<>> /\ Units(<<root, reaper>>)
    BY Zenon DEF RuntimeInv, StartInv, Resting, RootInHand, RootAlone, ReaperInHand, RootLeaves, Complete, Started
  <1>2. Elems(<<root, reaper>>) = Task /\ <<root, reaper>> # <<>>
    BY Zenon, Lists DEF StartupObjects
  <1>3. /\ pc = "idle" /\ runqueue = <<root, reaper>>
        /\ \A t \in Task : task_registry_contains(t) /\ task[t].state = "READY"
        /\ process[kernel].tasks = <<root, reaper>>
    BY Zenon, <1>1, <1>2 DEF Units, ActiveHome, Home
  <1>4. Registered = Task /\ Members(kernel) = Task
    BY Zenon, <1>2, <1>3 DEF Registered, Members
  <1>5. ASSUME NEW t \in Task PROVE mapped[task[t].id] = task[t].pages
    BY Zenon, <1>1, <1>3 DEF OwnInv, Settled, InHand, Whole, AllOwn, FullStack
  <1> QED BY Zenon, <1>1, <1>3, <1>4, <1>5

\* The hand-over changes nothing that the core sees.
LEMMA HandOverStutters ==
  ASSUME StartupObjects, RuntimeInv, CoreRests, HandOver PROVE UNCHANGED coreVars
  <1>1. at = "ready"
    BY Zenon DEF HandOver, kernel_runtime_start
  <1>2. /\ ready = <<root, reaper>> /\ terminated = <<>> /\ state = [t \in Task |-> "READY"]
        /\ stacks = Task /\ registered = Task /\ members = Task
    BY Zenon, <1>1 DEF CoreRests
  <1>3. /\ runqueue = <<root, reaper>> /\ pending = <<>>
        /\ \A t \in Task : task[t].state = "READY"
        /\ Registered = Task /\ Members(kernel) = Task
        /\ \A t \in Task : mapped[task[t].id] = task[t].pages
    BY Zenon, <1>1, TwoUnits
  <1>4. /\ ready' = runqueue /\ terminated' = pending
        /\ state' = [t \in Task |-> task[t].state]
        /\ stacks' = {t \in Registered : mapped[task[t].id] = task[t].pages}
        /\ registered' = Registered /\ members' = Members(kernel)
        /\ UNCHANGED <<rip, resume_authority, wait_queue, context, preempt_frame, waiters, scheduler_current,
                       preempt_enabled, cpu, local, irq_enabled, tick, stage, root_reaped_reported>>
    BY Zenon DEF HandOver
  <1>5. state' = [t \in Task |-> "READY"]
    BY Zenon, <1>3, <1>4
  <1>6. stacks' = Task
    BY Zenon, <1>3, <1>4
  <1> QED BY Zenon, <1>2, <1>3, <1>4, <1>5, <1>6 DEF coreVars

\* The core begins as Runtime says.
LEMMA CoreInit == ASSUME StartupObjects, LifeInit PROVE CoreRests
  <1>1. /\ ready = <<root, reaper>> /\ terminated = <<>>
        /\ state = [t \in Task |-> IF t \in R!Elems(ready) THEN "READY" ELSE "NEW"]
        /\ stacks = R!Elems(ready) /\ members = R!Elems(ready) /\ registered = R!Elems(ready)
    BY Zenon DEF LifeInit, R!RuntimeInit, R!Init
  <1>2. R!Elems(ready) = Elems(ready)
    BY Zenon DEF R!Elems, Elems
  <1>3. R!Elems(ready) = Task
    BY Zenon, <1>1, <1>2, Lists DEF StartupObjects
  <1>4. state = [t \in Task |-> "READY"]
    BY Zenon, <1>1, <1>3
  <1> QED BY Zenon, <1>1, <1>3, <1>4 DEF CoreRests

\* What the runtime does before, at and after the hand-over.
LEMMA LifeStep ==
  ASSUME StartupObjects, RuntimeInv, CoreRests, [LifeNext]_lifeVars
  PROVE  /\ RuntimeInv' /\ CoreRests'
         /\ UNCHANGED coreVars \/ R!RuntimeNext
  <1>1. CASE BootStep(StartupNext) \/ HandOver \/ UNCHANGED lifeVars
    <2>1. [StartupNext \/ kernel_runtime_start]_allVars
      BY Zenon, <1>1 DEF BootStep, HandOver, lifeVars
    <2>2. UNCHANGED coreVars
      BY Zenon, <1>1, HandOverStutters DEF BootStep, lifeVars
    <2>3. at' # "started" => at # "started"
      BY Zenon, <1>1 DEF BootStep, HandOver, kernel_runtime_start, lifeVars, allVars, startupVars
    <2>4. CoreRests'
      BY Zenon, <2>2, <2>3 DEF CoreRests, coreVars
    <2> QED BY Zenon, <2>1, <2>2, <2>4, RuntimeStepInv
  <1>2. CASE CoreStep(R!RuntimeNext)
    <2>1. at = "started" /\ R!RuntimeNext /\ UNCHANGED allVars
      BY Zenon, <1>2 DEF CoreStep
    <2>2. at' = "started"
      BY Zenon, <2>1 DEF allVars, startupVars
    <2> QED BY Zenon, <2>1, <2>2, RuntimeStepInv DEF CoreRests
  <1> QED BY Zenon, <1>1, <1>2 DEF LifeNext

\* The entry functions of the two tasks make the calls of the core's tasks.
LEMMA ClientStep == R!RuntimeNext => [R!Next]_(R!vars)
  <1>1. R!RootHlt \/ R!RootReturn \/ R!ReaperHlt => R!TaskCall
    BY Zenon DEF R!RootHlt, R!RootReturn, R!ReaperHlt, R!TaskCall
  <1>2. R!ReaperReap => R!TaskCall \/ UNCHANGED R!vars
    BY Zenon DEF R!ReaperReap, R!TaskCall
  <1>3. R!ReaperReport => UNCHANGED R!vars
    BY Zenon DEF R!ReaperReport
  <1> QED BY Zenon, <1>1, <1>2, <1>3 DEF R!RuntimeNext, R!CpuStep, R!RuntimeTimer, R!Next

(* ImplementsScheduler, for every bound: after any number of failed        *)
(* attempts, kernel_runtime_start hands over an initial state of the       *)
(* scheduling core, and the root task and the reaper then make only the    *)
(* calls that the core allows, so what is proved of Scheduler holds of the *)
(* production runtime.                                                     *)
THEOREM RuntimeIsAClient == StartupObjects => (LifeSpec => ImplementsScheduler)
  <1> SUFFICES ASSUME StartupObjects PROVE LifeSpec => ImplementsScheduler
    OBVIOUS
  <1>1. LifeInit => RuntimeInv /\ CoreRests /\ R!Init
    BY Zenon, RuntimeInit, CoreInit DEF LifeInit, R!RuntimeInit
  <1>2. RuntimeInv /\ CoreRests /\ [LifeNext]_lifeVars => RuntimeInv' /\ CoreRests' /\ [R!Next]_(R!vars)
    <2>1. UNCHANGED coreVars => UNCHANGED R!vars
      BY Zenon DEF coreVars, R!vars, R!taskVars, R!ownerVars, R!cpuVars
    <2> QED BY Zenon, <2>1, LifeStep, ClientStep
  <1> QED BY <1>1, <1>2, PTL DEF LifeSpec, ImplementsScheduler, R!Spec
=============================================================================
