------------------------ MODULE ExecutionInvariants -------------------------
(***************************************************************************)
(* The inductive invariants of the execution layer and of its startup.     *)
(* Types fixes the types and which transaction may be at which statement;  *)
(* FrameInv partitions the frames; OwnInv says, statement by statement,    *)
(* which owners the task in hand has, and that every other task has all or *)
(* none; StartInv says which units exist at each statement of              *)
(* kernel_runtime_init and its rollback.  The lemmas go from the operators *)
(* and the effect of each action on one record to the preservation of      *)
(* Types and FrameInv by every step, of OwnInv by the calls and by a       *)
(* creation up to the stack, and of StartInv by every statement of the     *)
(* runtime.                                                                *)
(***************************************************************************)
EXTENDS Startup, TLAPS

\* What a stack slot or a task's stack record holds, page by page.
Pages == [Page -> Frame \cup {NULL}]

\* The fields of struct task that the transactions read or write.
TaskRecord ==
  [id : 0..TASK_MAX_TASKS, state : {"NEW", "READY", "RUNNING", "TERMINATED"},
   process : Process \cup {NULL}, stack : 0..TASK_MAX_TASKS,
   pages : Pages, mode : {"UNMANAGED", "MANAGED"}]

\* The fields of struct process.
ProcessRecord ==
  [id : 0..PROCESS_MAX_PROCESSES, state : {"NEW", "ACTIVE", "TERMINATED"},
   address_space : AddressSpace \cup {NULL}, tasks : Seq(Task)]

\* The arguments and the local flags of a transaction.
CallRecord ==
  [op : {"none", "create", "process", "destroy", "reap", "terminate", "destroy_process"},
   process : Process \cup {NULL}, task : Task \cup {NULL},
   pid : 0..PROCESS_MAX_PROCESSES, tid : 0..TASK_MAX_TASKS, address_space : AddressSpace,
   owns_process : BOOLEAN, registered : BOOLEAN, attached : BOOLEAN]

(* The statements between the creation of a task object and the end of its *)
(* destruction.                                                            *)
InHand == pc \in {"map_stack", "unmap_stack", "register", "attach", "add",
                  "remove", "detach", "unregister", "destroy"}

\* The types of the tasks, of their registry and of the two queues.
TaskTypes ==
  /\ task \in [Task -> TaskRecord]
  /\ task_registry \in [Tid -> Task \cup {NULL}] /\ task_registry_active_count \in Nat
  /\ runqueue \in Seq(Task) /\ pending \in Seq(Task)

\* The types of the processes and of their registry.
ProcessTypes ==
  /\ process \in [Process -> ProcessRecord]
  /\ process_registry \in [Pid -> Process \cup {NULL}] /\ process_registry_count \in Nat

\* The types of the stack area and of the frame sets.
MemoryTypes ==
  /\ mapped \in [Tid -> Pages]
  /\ free \in SUBSET Frame /\ others \in SUBSET Frame

(* Which transaction may be at which statement, and with which arguments.  *)
Control ==
  /\ pc \in {"idle", "halted", "process_create", "task_create", "terminate", "process_destroy"} \/ InHand
  /\ call \in CallRecord
  /\ pc \in {"idle", "halted"} => call = NoCall
  /\ call.op \notin {"none", "reap"} => call.process \in Process
  /\ call.op = "reap" => ~call.owns_process /\ pending # <<>>
  /\ call.attached => call.process \in Process
  /\ call.op = "create" => call.task \in Task /\ call.tid \in Tid
  /\ pc = "process_create" => /\ call.op \in {"create", "process"} /\ call.pid \in Pid
                              /\ call.op = "create" => call.owns_process
                              /\ ~call.registered /\ ~call.attached
  /\ pc \in {"task_create", "map_stack", "unmap_stack", "register", "attach", "add"} =>
        /\ call.op = "create"
        /\ call.registered <=> (pc \in {"attach", "add"})
        /\ call.attached <=> (pc = "add")
  /\ pc \in {"remove", "detach", "unregister", "destroy"} =>
        call.op \in {"create", "destroy", "reap"} /\ call.task \in Task
  /\ pc = "remove" => call.op = "destroy" /\ call.registered /\ call.attached
  /\ pc \in {"terminate", "process_destroy"} =>
        \/ call.op \in {"create", "destroy"} /\ call.owns_process
        \/ call.op \in {"terminate", "destroy_process"}

(* Every set of numbers has a least one.  The fact is carried along with   *)
(* the types, and proved where the induction over the steps is closed.     *)
WellOrdered == \A S \in SUBSET Nat : S # {} => \E x \in S : \A y \in S : x <= y

\* Type correctness, with the control of the transactions.
Types == TaskTypes /\ ProcessTypes /\ MemoryTypes /\ Control /\ WellOrdered

\* The variables of the task side, and of the process side.
TaskVars == <<task, task_registry, task_registry_active_count, runqueue, pending>>
ProcessVars == <<process, process_registry, process_registry_count>>

-----------------------------------------------------------------------------
\* The table sizes are positive numbers.
LEMMA Sizes ==
  /\ TASK_MAX_TASKS \in Nat /\ PROCESS_MAX_PROCESSES \in Nat /\ TASK_KERNEL_STACK_PAGE_COUNT \in Nat
  /\ TASK_MAX_TASKS > 0 /\ PROCESS_MAX_PROCESSES > 0 /\ TASK_KERNEL_STACK_PAGE_COUNT > 0
  BY ExecutionAssumption

\* NULL is no task, process, number or frame.
LEMMA Nulls ==
  /\ NULL \notin Task /\ NULL \notin Process /\ NULL \notin Nat /\ NULL \notin Frame
  /\ KERNEL_AS \in AddressSpace /\ Frame \subseteq Nat
  BY Zenon, ExecutionAssumption

\* A tid indexes the registry, and 0 is none.
LEMMA Tids == Tid \subseteq 0..TASK_MAX_TASKS /\ Tid \subseteq Nat /\ 0 \notin Tid
  BY Sizes DEF Tid

\* A pid indexes the registry, and 0 is none.
LEMMA Pids == Pid \subseteq 0..PROCESS_MAX_PROCESSES /\ Pid \subseteq Nat /\ 0 \notin Pid
  BY Sizes DEF Pid

\* Zeroed objects have their types.
LEMMA EmptyRecords ==
  /\ NoPages \in Pages
  /\ \A id \in 0..TASK_MAX_TASKS : [ZeroTask EXCEPT !.id = id] \in TaskRecord
  /\ ZeroTask \in TaskRecord
  /\ ZeroProcess \in ProcessRecord
  /\ NoCall \in CallRecord
  <1>1. NoPages \in Pages
    BY Zenon DEF NoPages, Pages
  <1>2. 0 \in 0..TASK_MAX_TASKS /\ 0 \in 0..PROCESS_MAX_PROCESSES
    BY Sizes
  <1>3. ZeroTask \in TaskRecord
    BY Zenon, <1>1, <1>2 DEF ZeroTask, TaskRecord
  <1>4. ASSUME NEW id \in 0..TASK_MAX_TASKS PROVE [ZeroTask EXCEPT !.id = id] \in TaskRecord
    BY Zenon, <1>1, <1>2 DEF ZeroTask, TaskRecord
  <1>5. ZeroProcess \in ProcessRecord
    BY <1>2 DEF ZeroProcess, ProcessRecord
  <1>6. NoCall \in CallRecord
    BY Zenon, <1>2, Nulls DEF NoCall, CallRecord
  <1> QED BY Zenon, <1>1, <1>3, <1>4, <1>5, <1>6

(* The physical allocator returns a free frame.                            *)
LEMMA LowestFrame ==
  ASSUME WellOrdered, free \in SUBSET Frame, free # {} PROVE pmm_alloc_frame \in free
  <1>1. \E f \in free : \A g \in free : f <= g
    BY Zenon, Nulls DEF WellOrdered
  <1> QED BY <1>1, Zenon DEF pmm_alloc_frame

(* A stack that is not complete has a first page missing.                  *)
LEMMA FirstMissingPage ==
  ASSUME WellOrdered, ~StackComplete
  PROVE  NextPage \in Page /\ task[call.task].pages[NextPage] = NULL
  <1> DEFINE missing == {i \in Page : task[call.task].pages[i] = NULL}
  <1>1. missing \subseteq Nat /\ missing # {} /\ Page \subseteq Nat
    BY Sizes DEF StackComplete, Page
  <1>2. PICK i \in missing : \A j \in missing : i <= j
    BY Zenon, <1>1 DEF WellOrdered
  <1>3. \A j \in 1..i-1 : task[call.task].pages[j] # NULL
    <2> SUFFICES ASSUME NEW j \in 1..i-1, j \in missing PROVE FALSE
      BY <1>1, <1>2, Sizes DEF Page
    <2> QED BY <1>1, <1>2
  <1>4. \E k \in Page : /\ task[call.task].pages[k] = NULL
                        /\ \A j \in 1..k-1 : task[call.task].pages[j] # NULL
    BY Zenon, <1>2, <1>3
  <1> QED BY <1>4, Zenon DEF NextPage

-----------------------------------------------------------------------------
(* Sequences without repetitions.                                          *)

\* No entry occurs twice.
Distinct(seq) == \A i, j \in 1..Len(seq) : seq[i] = seq[j] => i = j

(* runqueue_remove takes one entry out of the queue.                       *)
LEMMA Removed ==
  ASSUME WellOrdered, NEW seq \in Seq(Task), NEW t \in Elems(seq)
  PROVE  /\ WithoutTask(seq, t) \in Seq(Task)
         /\ Distinct(seq) => /\ Distinct(WithoutTask(seq, t))
                             /\ Elems(WithoutTask(seq, t)) = Elems(seq) \ {t}
  <1> DEFINE hits == {i \in 1..Len(seq) : seq[i] = t}
             First(i) == seq[i] = t /\ \A j \in 1..i-1 : seq[j] # t
             i == CHOOSE i \in 1..Len(seq) : First(i)
  <1>1. hits \subseteq Nat /\ hits # {} /\ Len(seq) \in Nat
    BY DEF Elems
  <1>2. PICK m \in hits : \A j \in hits : m <= j
    BY Zenon, <1>1 DEF WellOrdered
  <1>3. m \in 1..Len(seq) /\ First(m)
    <2>1. m \in 1..Len(seq) /\ seq[m] = t /\ m \in Nat
      BY Zenon, <1>1, <1>2
    <2>2. ASSUME NEW j \in 1..m-1, seq[j] = t PROVE FALSE
      <3>1. j \in hits
        BY <1>1, <2>1, <2>2
      <3> QED BY <1>2, <2>1, <3>1
    <2> QED BY Zenon, <2>1, <2>2
  <1>4. i \in 1..Len(seq) /\ seq[i] = t
    BY Zenon, <1>3
  <1>5. WithoutTask(seq, t) = [j \in 1..Len(seq)-1 |-> IF j < i THEN seq[j] ELSE seq[j+1]]
    BY Zenon DEF WithoutTask
  <1> HIDE DEF i
  <1>6. LET rest == [j \in 1..Len(seq)-1 |-> IF j < i THEN seq[j] ELSE seq[j+1]]
        IN  /\ rest \in Seq(Task)
            /\ Distinct(seq) => Distinct(rest) /\ Elems(rest) = Elems(seq) \ {seq[i]}
    <2> DEFINE n == Len(seq)
               rest == [j \in 1..n-1 |-> IF j < i THEN seq[j] ELSE seq[j+1]]
    <2>1. n \in Nat /\ n > 0 /\ i \in Nat /\ i \in 1..n /\ n - 1 \in Nat
      BY <1>4
    <2>2. rest \in [1..n-1 -> Task]
      BY <2>1
    <2>3. rest \in Seq(Task) /\ Len(rest) = n - 1
      BY <2>1, <2>2
    <2>4. ASSUME NEW j \in 1..n-1 PROVE rest[j] = IF j < i THEN seq[j] ELSE seq[j+1]
      OBVIOUS
    <2> HIDE DEF rest
    <2>5. ASSUME Distinct(seq) PROVE Distinct(rest)
      <3> SUFFICES ASSUME NEW j \in 1..n-1, NEW k \in 1..n-1, rest[j] = rest[k] PROVE j = k
        BY Zenon, <2>3 DEF Distinct
      <3> DEFINE a == IF j < i THEN j ELSE j + 1
                 b == IF k < i THEN k ELSE k + 1
      <3>1. a \in 1..n /\ b \in 1..n /\ seq[a] = seq[b]
        BY <2>1, <2>4
      <3>2. a = b
        BY Zenon, <2>5, <3>1 DEF Distinct
      <3> QED BY <2>1, <3>2
    <2>6. ASSUME Distinct(seq) PROVE Elems(rest) \subseteq Elems(seq) \ {seq[i]}
      <3> SUFFICES ASSUME NEW j \in 1..n-1 PROVE rest[j] \in Elems(seq) \ {seq[i]}
        BY Zenon, <2>3 DEF Elems
      <3> DEFINE a == IF j < i THEN j ELSE j + 1
      <3>1. a \in 1..n /\ rest[j] = seq[a] /\ a # i
        <4>1. CASE j < i
          BY <2>1, <2>4, <4>1
        <4>2. CASE ~(j < i)
          BY <2>1, <2>4, <4>2
        <4> QED BY Zenon, <4>1, <4>2
      <3>2. seq[a] # seq[i]
        BY Zenon, <2>1, <2>6, <3>1 DEF Distinct
      <3> QED BY Zenon, <3>1, <3>2 DEF Elems
    <2>7. Elems(seq) \ {seq[i]} \subseteq Elems(rest)
      <3> SUFFICES ASSUME NEW k \in 1..n, seq[k] # seq[i] PROVE seq[k] \in Elems(rest)
        BY Zenon DEF Elems
      <3> DEFINE j == IF k < i THEN k ELSE k - 1
      <3>1. j \in 1..n-1 /\ rest[j] = seq[k]
        BY <2>1, <2>4
      <3> QED BY Zenon, <2>3, <3>1 DEF Elems
    <2> QED BY Zenon, <2>3, <2>5, <2>6, <2>7 DEF rest
  <1> QED BY Zenon, <1>4, <1>5, <1>6

(* process_detach_task moves the last member into the place of the one     *)
(* that leaves.                                                            *)
LEMMA SwappedOut ==
  ASSUME NEW seq \in Seq(Task), NEW i \in 1..Len(seq)
  PROVE  /\ SwapOut(seq, i) \in Seq(Task)
         /\ Len(SwapOut(seq, i)) = Len(seq) - 1
         /\ Distinct(seq) => /\ Distinct(SwapOut(seq, i))
                             /\ Elems(SwapOut(seq, i)) = Elems(seq) \ {seq[i]}
  <1> DEFINE n == Len(seq)
             rest == SwapOut(seq, i)
  <1>1. n \in Nat /\ n > 0 /\ i \in Nat /\ n - 1 \in Nat
    OBVIOUS
  <1>2. rest \in [1..n-1 -> Task]
    BY <1>1 DEF SwapOut
  <1>3. rest \in Seq(Task) /\ Len(rest) = n - 1
    BY <1>1, <1>2
  <1>4. ASSUME NEW j \in 1..n-1 PROVE rest[j] = IF j = i THEN seq[n] ELSE seq[j]
    BY Zenon DEF SwapOut
  <1> HIDE DEF rest
  <1>5. ASSUME Distinct(seq) PROVE Distinct(rest)
    <2> SUFFICES ASSUME NEW j \in 1..n-1, NEW k \in 1..n-1, rest[j] = rest[k] PROVE j = k
      BY Zenon, <1>3 DEF Distinct
    <2> DEFINE a == IF j = i THEN n ELSE j
               b == IF k = i THEN n ELSE k
    <2>1. a \in 1..n /\ b \in 1..n /\ seq[a] = seq[b]
      BY <1>1, <1>4
    <2>2. a = b
      BY Zenon, <1>5, <2>1 DEF Distinct
    <2> QED BY <1>1, <2>2
  <1>6. ASSUME Distinct(seq) PROVE Elems(rest) \subseteq Elems(seq) \ {seq[i]}
    <2> SUFFICES ASSUME NEW j \in 1..n-1 PROVE rest[j] \in Elems(seq) \ {seq[i]}
      BY Zenon, <1>3 DEF Elems
    <2> DEFINE a == IF j = i THEN n ELSE j
    <2>1. a \in 1..n /\ rest[j] = seq[a] /\ a # i
      BY <1>1, <1>4
    <2>2. seq[a] # seq[i]
      BY Zenon, <1>6, <2>1 DEF Distinct
    <2> QED BY Zenon, <2>1, <2>2 DEF Elems
  <1>7. Elems(seq) \ {seq[i]} \subseteq Elems(rest)
    <2> SUFFICES ASSUME NEW k \in 1..n, seq[k] # seq[i] PROVE seq[k] \in Elems(rest)
      BY Zenon DEF Elems
    <2>1. k # i
      OBVIOUS
    <2> DEFINE j == IF k = n THEN i ELSE k
    <2>2. j \in 1..n-1 /\ rest[j] = seq[k]
      BY <1>1, <1>4, <2>1
    <2> QED BY Zenon, <1>3, <2>2 DEF Elems
  <1> QED BY Zenon, <1>3, <1>5, <1>6, <1>7 DEF rest

(* Appending and removing at the ends.                                     *)
LEMMA Appended ==
  ASSUME NEW seq \in Seq(Task), NEW t \in Task
  PROVE  /\ Append(seq, t) \in Seq(Task)
         /\ Elems(Append(seq, t)) = Elems(seq) \cup {t}
         /\ Distinct(seq) /\ t \notin Elems(seq) => Distinct(Append(seq, t))
  <1> DEFINE n == Len(seq)
             more == Append(seq, t)
  <1>1. n \in Nat /\ more \in Seq(Task) /\ Len(more) = n + 1 /\ more[n + 1] = t
    OBVIOUS
  <1>2. ASSUME NEW i \in 1..n PROVE more[i] = seq[i]
    OBVIOUS
  <1> HIDE DEF more
  <1>3. Elems(more) \subseteq Elems(seq) \cup {t}
    <2> SUFFICES ASSUME NEW i \in 1..n+1 PROVE more[i] \in Elems(seq) \cup {t}
      BY Zenon, <1>1 DEF Elems
    <2>1. i \in 1..n \/ i = n + 1
      BY <1>1
    <2> QED BY Zenon, <1>1, <1>2, <2>1 DEF Elems
  <1>4. Elems(seq) \cup {t} \subseteq Elems(more)
    <2>1. ASSUME NEW i \in 1..n PROVE seq[i] \in Elems(more)
      <3>1. i \in 1..n+1
        BY <1>1
      <3> QED BY Zenon, <1>1, <1>2, <3>1 DEF Elems
    <2>2. t \in Elems(more)
      <3>1. n + 1 \in 1..n+1
        BY <1>1
      <3> QED BY Zenon, <1>1, <3>1 DEF Elems
    <2> QED BY Zenon, <2>1, <2>2 DEF Elems
  <1>5. ASSUME Distinct(seq), t \notin Elems(seq) PROVE Distinct(more)
    <2> SUFFICES ASSUME NEW i \in 1..n+1, NEW j \in 1..n+1, more[i] = more[j] PROVE i = j
      BY Zenon, <1>1 DEF Distinct
    <2>1. \A k \in 1..n : seq[k] # t
      BY Zenon, <1>5 DEF Elems
    <2>2. (i \in 1..n \/ i = n + 1) /\ (j \in 1..n \/ j = n + 1)
      BY <1>1
    <2>3. CASE i \in 1..n /\ j \in 1..n
      BY Zenon, <1>2, <1>5, <2>3 DEF Distinct
    <2> QED BY Zenon, <1>1, <1>2, <2>1, <2>2, <2>3
  <1> QED BY Zenon, <1>1, <1>3, <1>4, <1>5 DEF more

\* lifecycle_reap_one and the scheduler take the head of a queue.
LEMMA HeadTaken ==
  ASSUME NEW seq \in Seq(Task), seq # <<>>
  PROVE  /\ Head(seq) \in Elems(seq) /\ Head(seq) \in Task /\ Tail(seq) \in Seq(Task)
         /\ Distinct(seq) => Distinct(Tail(seq)) /\ Elems(Tail(seq)) = Elems(seq) \ {Head(seq)}
  <1> DEFINE n == Len(seq)
             rest == Tail(seq)
  <1>1. n \in Nat /\ n > 0 /\ rest \in Seq(Task) /\ Len(rest) = n - 1 /\ Head(seq) = seq[1]
    OBVIOUS
  <1>2. 1 \in 1..n /\ Head(seq) \in Task
    BY <1>1
  <1>3. ASSUME NEW j \in 1..n-1 PROVE rest[j] = seq[j + 1]
    OBVIOUS
  <1> HIDE DEF rest
  <1>4. ASSUME Distinct(seq) PROVE Distinct(rest)
    <2> SUFFICES ASSUME NEW j \in 1..n-1, NEW k \in 1..n-1, rest[j] = rest[k] PROVE j = k
      BY Zenon, <1>1 DEF Distinct
    <2>1. j + 1 \in 1..n /\ k + 1 \in 1..n /\ seq[j + 1] = seq[k + 1]
      BY <1>1, <1>3
    <2>2. j + 1 = k + 1
      BY Zenon, <1>4, <2>1 DEF Distinct
    <2> QED BY <2>2
  <1>5. ASSUME Distinct(seq) PROVE Elems(rest) \subseteq Elems(seq) \ {seq[1]}
    <2> SUFFICES ASSUME NEW j \in 1..n-1 PROVE rest[j] \in Elems(seq) \ {seq[1]}
      BY Zenon, <1>1 DEF Elems
    <2>1. j + 1 \in 1..n /\ rest[j] = seq[j + 1] /\ j + 1 # 1
      BY <1>1, <1>3
    <2>2. seq[j + 1] # seq[1]
      BY Zenon, <1>2, <1>5, <2>1 DEF Distinct
    <2> QED BY Zenon, <2>1, <2>2 DEF Elems
  <1>6. Elems(seq) \ {seq[1]} \subseteq Elems(rest)
    <2> SUFFICES ASSUME NEW k \in 1..n, seq[k] # seq[1] PROVE seq[k] \in Elems(rest)
      BY Zenon DEF Elems
    <2>1. k - 1 \in 1..n-1 /\ rest[k - 1] = seq[k]
      BY <1>1, <1>3
    <2> QED BY Zenon, <1>1, <2>1 DEF Elems
  <1>7. Head(seq) \in Elems(seq)
    BY Zenon, <1>1, <1>2 DEF Elems
  <1> QED BY Zenon, <1>1, <1>2, <1>4, <1>5, <1>6, <1>7 DEF rest

-----------------------------------------------------------------------------
(* What a step does to one task object, field by field.                    *)

Becomes(t, r) ==
  /\ task' \in [Task -> TaskRecord]
  /\ task'[t] = r
  /\ \A u \in Task : u # t => task'[u] = task[u]

SetState(t, x) ==
  Becomes(t, [id |-> task[t].id, state |-> x, process |-> task[t].process, stack |-> task[t].stack,
              pages |-> task[t].pages, mode |-> task[t].mode])
SetOwner(t, x) ==
  Becomes(t, [id |-> task[t].id, state |-> task[t].state, process |-> x, stack |-> task[t].stack,
              pages |-> task[t].pages, mode |-> task[t].mode])
SetMode(t, x) ==
  Becomes(t, [id |-> task[t].id, state |-> task[t].state, process |-> task[t].process,
              stack |-> task[t].stack, pages |-> task[t].pages, mode |-> x])
SetPages(t, x) ==
  Becomes(t, [id |-> task[t].id, state |-> task[t].state, process |-> task[t].process,
              stack |-> task[t].stack, pages |-> x, mode |-> task[t].mode])
Retire(t) ==
  Becomes(t, [id |-> task[t].id, state |-> "TERMINATED", process |-> task[t].process,
              stack |-> 0, pages |-> NoPages, mode |-> task[t].mode])

\* The tid of a destroyed task is not cleared.
LEMMA RetiredId ==
  ASSUME NEW t, Retire(t) PROVE task'[t].id = task[t].id
  BY SMT DEF Retire, Becomes

\* Assigning a whole record.
LEMMA Put ==
  ASSUME TaskTypes, NEW t \in Task, NEW r \in TaskRecord, task' = [task EXCEPT ![t] = r]
  PROVE  Becomes(t, r)
  BY Zenon DEF TaskTypes, Becomes

\* task_create zeroes the object and sets its tid.
LEMMA NewTask ==
  ASSUME Types, task_create
  PROVE  Becomes(call.task, [id |-> call.tid, state |-> "NEW", process |-> NULL, stack |-> 0,
                             pages |-> NoPages, mode |-> "UNMANAGED"])
  <1>1. call.task \in Task /\ call.tid \in Tid
    BY Zenon DEF task_create, Types, Control
  <1> DEFINE r == [id |-> call.tid, state |-> "NEW", process |-> NULL, stack |-> 0,
                   pages |-> NoPages, mode |-> "UNMANAGED"]
  <1>2. [ZeroTask EXCEPT !.id = call.tid] = r
    BY DEF ZeroTask
  <1>3. r \in TaskRecord
    BY Zenon, <1>1, <1>2, EmptyRecords, Tids
  <1> HIDE DEF r
  <1>4. task' = [task EXCEPT ![call.task] = r]
    BY Zenon, <1>2 DEF task_create
  <1>5. Becomes(call.task, r)
    BY Zenon, <1>1, <1>3, <1>4, Put DEF Types
  <1> QED BY Zenon, <1>5 DEF r

\* Assigning a field of a task leaves its other fields and the other tasks
\* alone: the state,
LEMMA NewState ==
  ASSUME TaskTypes, NEW t \in Task, NEW x \in {"NEW", "READY", "RUNNING", "TERMINATED"},
         task' = [task EXCEPT ![t].state = x]
  PROVE  SetState(t, x)
  <1> DEFINE r == [task[t] EXCEPT !.state = x]
  <1>1. task[t] \in TaskRecord
    BY Zenon DEF TaskTypes
  <1>2. /\ r \in TaskRecord
        /\ r = [id |-> task[t].id, state |-> x, process |-> task[t].process, stack |-> task[t].stack,
                pages |-> task[t].pages, mode |-> task[t].mode]
    BY <1>1 DEF TaskRecord
  <1>3. task' = [task EXCEPT ![t] = r]
    BY Zenon
  <1> HIDE DEF r
  <1>4. Becomes(t, r)
    BY Zenon, <1>2, <1>3, Put
  <1> QED BY Zenon, <1>2, <1>4 DEF SetState

\* the process,
LEMMA NewOwner ==
  ASSUME TaskTypes, NEW t \in Task, NEW x \in Process \cup {NULL},
         task' = [task EXCEPT ![t].process = x]
  PROVE  SetOwner(t, x)
  <1> DEFINE r == [task[t] EXCEPT !.process = x]
  <1>1. task[t] \in TaskRecord
    BY Zenon DEF TaskTypes
  <1>2. /\ r \in TaskRecord
        /\ r = [id |-> task[t].id, state |-> task[t].state, process |-> x, stack |-> task[t].stack,
                pages |-> task[t].pages, mode |-> task[t].mode]
    BY <1>1 DEF TaskRecord
  <1>3. task' = [task EXCEPT ![t] = r]
    BY Zenon
  <1> HIDE DEF r
  <1>4. Becomes(t, r)
    BY Zenon, <1>2, <1>3, Put
  <1> QED BY Zenon, <1>2, <1>4 DEF SetOwner

\* the reclamation mode,
LEMMA NewMode ==
  ASSUME TaskTypes, NEW t \in Task, task' = [task EXCEPT ![t].mode = "MANAGED"]
  PROVE  SetMode(t, "MANAGED")
  <1> DEFINE r == [task[t] EXCEPT !.mode = "MANAGED"]
  <1>1. task[t] \in TaskRecord
    BY Zenon DEF TaskTypes
  <1>2. /\ r \in TaskRecord
        /\ r = [id |-> task[t].id, state |-> task[t].state, process |-> task[t].process,
                stack |-> task[t].stack, pages |-> task[t].pages, mode |-> "MANAGED"]
    BY <1>1 DEF TaskRecord
  <1>3. task' = [task EXCEPT ![t] = r]
    BY Zenon
  <1> HIDE DEF r
  <1>4. Becomes(t, r)
    BY Zenon, <1>2, <1>3, Put
  <1> QED BY Zenon, <1>2, <1>4 DEF SetMode

\* and the recorded pages of the stack.
LEMMA NewPages ==
  ASSUME TaskTypes, NEW t \in Task, NEW x \in Pages, task' = [task EXCEPT ![t].pages = x]
  PROVE  SetPages(t, x)
  <1> DEFINE r == [task[t] EXCEPT !.pages = x]
  <1>1. task[t] \in TaskRecord
    BY Zenon DEF TaskTypes
  <1>2. /\ r \in TaskRecord
        /\ r = [id |-> task[t].id, state |-> task[t].state, process |-> task[t].process,
                stack |-> task[t].stack, pages |-> x, mode |-> task[t].mode]
    BY <1>1 DEF TaskRecord
  <1>3. task' = [task EXCEPT ![t] = r]
    BY Zenon
  <1> HIDE DEF r
  <1>4. Becomes(t, r)
    BY Zenon, <1>2, <1>3, Put
  <1> QED BY Zenon, <1>2, <1>4 DEF SetPages

\* One turn of the loop of task_map_stack maps a free frame at the first
\* missing page.
LEMMA NewPage ==
  ASSUME Types, MapStackPage
  PROVE  /\ call.task \in Task /\ call.tid \in Tid
         /\ NextPage \in Page /\ task[call.task].pages[NextPage] = NULL
         /\ pmm_alloc_frame \in free
         /\ [task[call.task].pages EXCEPT ![NextPage] = pmm_alloc_frame] \in Pages
         /\ SetPages(call.task, [task[call.task].pages EXCEPT ![NextPage] = pmm_alloc_frame])
  <1> DEFINE t == call.task
             x == [task[t].pages EXCEPT ![NextPage] = pmm_alloc_frame]
  <1>1. /\ call.task \in Task /\ call.tid \in Tid
        /\ NextPage \in Page /\ task[call.task].pages[NextPage] = NULL
        /\ pmm_alloc_frame \in free /\ pmm_alloc_frame \in Frame
    BY Zenon, FirstMissingPage, LowestFrame DEF MapStackPage, Types, MemoryTypes, Control, InHand
  <1>2. task[t].pages \in Pages
    BY Zenon, <1>1 DEF Types, TaskTypes, TaskRecord
  <1>3. x \in Pages
    BY Zenon, <1>1, <1>2 DEF Pages
  <1>4. task' = [task EXCEPT ![t].pages = x]
    BY Zenon DEF MapStackPage
  <1> HIDE DEF x
  <1>5. SetPages(t, x)
    BY Zenon, <1>1, <1>3, <1>4, NewPages DEF Types
  <1> QED BY Zenon, <1>1, <1>3, <1>5 DEF x

\* A completed stack is bound to the task, which becomes READY.
LEMMA BoundStack ==
  ASSUME Types, MapStackDone
  PROVE  Becomes(call.task,
           [id |-> task[call.task].id, state |-> "READY", process |-> task[call.task].process,
            stack |-> call.tid, pages |-> task[call.task].pages, mode |-> task[call.task].mode])
  <1> DEFINE t == call.task
             q == [task[t] EXCEPT !.stack = call.tid]
             r == [q EXCEPT !.state = "READY"]
  <1>1. t \in Task /\ task[t] \in TaskRecord /\ call.tid \in 0..TASK_MAX_TASKS
    BY Zenon, Tids DEF MapStackDone, Types, TaskTypes, Control, InHand
  <1>q. /\ q \in TaskRecord
        /\ q = [id |-> task[t].id, state |-> task[t].state, process |-> task[t].process,
                stack |-> call.tid, pages |-> task[t].pages, mode |-> task[t].mode]
    BY <1>1 DEF TaskRecord
  <1>3. task' = [task EXCEPT ![t] = r]
    BY Zenon DEF MapStackDone
  <1> HIDE DEF q
  <1>2. /\ r \in TaskRecord
        /\ r = [id |-> task[t].id, state |-> "READY", process |-> task[t].process,
                stack |-> call.tid, pages |-> task[t].pages, mode |-> task[t].mode]
    BY <1>q DEF TaskRecord
  <1> HIDE DEF r
  <1>4. Becomes(t, r)
    BY Zenon, <1>1, <1>2, <1>3, Put DEF Types
  <1> QED BY Zenon, <1>2, <1>4

\* task_destroy clears the stack and ends the task.
LEMMA Retired ==
  ASSUME Types, NEW t \in Task,
         task' = [task EXCEPT ![t].stack = 0, ![t].pages = NoPages, ![t].state = "TERMINATED"]
  PROVE  Retire(t)
  <1> DEFINE q == [task[t] EXCEPT !.stack = 0]
             s == [q EXCEPT !.pages = NoPages]
             r == [s EXCEPT !.state = "TERMINATED"]
  <1>1. task[t] \in TaskRecord /\ 0 \in 0..TASK_MAX_TASKS /\ NoPages \in Pages
    BY Sizes, EmptyRecords DEF Types, TaskTypes
  <1>3. task' = [task EXCEPT ![t] = r]
    BY Zenon
  <1>q. /\ q \in TaskRecord
        /\ q = [id |-> task[t].id, state |-> task[t].state, process |-> task[t].process,
                stack |-> 0, pages |-> task[t].pages, mode |-> task[t].mode]
    BY <1>1 DEF TaskRecord
  <1> HIDE DEF q
  <1>s. /\ s \in TaskRecord
        /\ s = [id |-> task[t].id, state |-> task[t].state, process |-> task[t].process,
                stack |-> 0, pages |-> NoPages, mode |-> task[t].mode]
    BY <1>1, <1>q DEF TaskRecord
  <1> HIDE DEF s
  <1>2. /\ r \in TaskRecord
        /\ r = [id |-> task[t].id, state |-> "TERMINATED", process |-> task[t].process,
                stack |-> 0, pages |-> NoPages, mode |-> task[t].mode]
    BY <1>s DEF TaskRecord
  <1> HIDE DEF r
  <1>4. Becomes(t, r)
    BY Zenon, <1>2, <1>3, Put DEF Types
  <1> QED BY Zenon, <1>2, <1>4 DEF Retire

(* The same for a process object.                                          *)
Turns(p, r) ==
  /\ process' \in [Process -> ProcessRecord]
  /\ process'[p] = r
  /\ \A q \in Process : q # p => process'[q] = process[q]

\* A step changes the members of a process only, or its state only.
SetMembers(p, x) ==
  Turns(p, [id |-> process[p].id, state |-> process[p].state,
            address_space |-> process[p].address_space, tasks |-> x])
SetProcessState(p, x) ==
  Turns(p, [id |-> process[p].id, state |-> x,
            address_space |-> process[p].address_space, tasks |-> process[p].tasks])

\* Assigning a whole process record,
LEMMA PutProcess ==
  ASSUME ProcessTypes, NEW p \in Process, NEW r \in ProcessRecord, process' = [process EXCEPT ![p] = r]
  PROVE  Turns(p, r)
  BY Zenon DEF ProcessTypes, Turns

\* its members,
LEMMA NewMembers ==
  ASSUME ProcessTypes, NEW p \in Process, NEW x \in Seq(Task), process' = [process EXCEPT ![p].tasks = x]
  PROVE  SetMembers(p, x)
  <1> DEFINE r == [process[p] EXCEPT !.tasks = x]
  <1>1. process[p] \in ProcessRecord
    BY Zenon DEF ProcessTypes
  <1>2. /\ r \in ProcessRecord
        /\ r = [id |-> process[p].id, state |-> process[p].state,
                address_space |-> process[p].address_space, tasks |-> x]
    BY <1>1 DEF ProcessRecord
  <1>3. process' = [process EXCEPT ![p] = r]
    BY Zenon
  <1> HIDE DEF r
  <1>4. Turns(p, r)
    BY Zenon, <1>2, <1>3, PutProcess
  <1> QED BY Zenon, <1>2, <1>4 DEF SetMembers

\* or its state.
LEMMA NewProcessState ==
  ASSUME ProcessTypes, NEW p \in Process, NEW x \in {"NEW", "ACTIVE", "TERMINATED"},
         process' = [process EXCEPT ![p].state = x]
  PROVE  SetProcessState(p, x)
  <1> DEFINE r == [process[p] EXCEPT !.state = x]
  <1>1. process[p] \in ProcessRecord
    BY Zenon DEF ProcessTypes
  <1>2. /\ r \in ProcessRecord
        /\ r = [id |-> process[p].id, state |-> x,
                address_space |-> process[p].address_space, tasks |-> process[p].tasks]
    BY <1>1 DEF ProcessRecord
  <1>3. process' = [process EXCEPT ![p] = r]
    BY Zenon
  <1> HIDE DEF r
  <1>4. Turns(p, r)
    BY Zenon, <1>2, <1>3, PutProcess
  <1> QED BY Zenon, <1>2, <1>4 DEF SetProcessState

-----------------------------------------------------------------------------
(* What each statement that changes a task or a process does, field by     *)
(* field.                                                                  *)

\* process_create refuses, fails at the registry after zeroing the object, or
\* registers an ACTIVE process without members.
LEMMA ProcessCreated ==
  ASSUME Types, process_create
  PROVE  /\ call.process \in Process /\ call.pid \in Pid
         /\ \/ Return("refused") /\ UNCHANGED ProcessVars
            \/ /\ ~process_registry_contains(call.process)
               /\ Return("refused")
               /\ Turns(call.process, ZeroProcess)
               /\ UNCHANGED <<process_registry, process_registry_count>>
            \/ /\ ~process_registry_contains(call.process)
               /\ process_registry[call.pid] = NULL
               /\ Turns(call.process, [id |-> call.pid, state |-> "ACTIVE",
                                       address_space |-> call.address_space, tasks |-> <<>>])
               /\ process_registry' = [process_registry EXCEPT ![call.pid] = call.process]
               /\ process_registry_count' = process_registry_count + 1
               /\ \/ call.op = "process" /\ Return("ok")
                  \/ call.op = "create" /\ pc' = "task_create" /\ UNCHANGED <<call, result>>
  <1> DEFINE p == call.process
             fields == [id |-> call.pid, state |-> "ACTIVE",
                        address_space |-> call.address_space, tasks |-> <<>>]
  <1>1. p \in Process /\ call.pid \in Pid /\ call.op \in {"create", "process"}
    BY Zenon DEF process_create, Types, Control
  <1>2. fields \in ProcessRecord
    BY <1>1, Pids DEF Types, Control, CallRecord, ProcessRecord
  <1>3. process' = [process EXCEPT ![p] = ZeroProcess] => Turns(p, ZeroProcess)
    BY Zenon, <1>1, EmptyRecords, PutProcess DEF Types
  <1>4. process' = [process EXCEPT ![p] = fields] => Turns(p, fields)
    BY Zenon, <1>1, <1>2, PutProcess DEF Types
  <1> QED BY Zenon, <1>1, <1>3, <1>4 DEF process_create, ProcessVars

\* The rollback of task_map_stack forgets every page of the slot.
LEMMA RolledBack ==
  ASSUME Types, MapStackRollback
  PROVE  /\ call.task \in Task /\ call.tid \in Tid
         /\ SetPages(call.task, NoPages)
         /\ mapped' \in [Tid -> Pages]
         /\ mapped'[call.tid] = NoPages /\ \A i \in Tid : i # call.tid => mapped'[i] = mapped[i]
  <1>1. call.task \in Task /\ call.tid \in Tid
    BY Zenon DEF MapStackRollback, Types, Control
  <1>2. task' = [task EXCEPT ![call.task].pages = NoPages]
    BY Zenon DEF MapStackRollback
  <1>3. mapped' = [mapped EXCEPT ![call.tid] = NoPages]
    BY Zenon DEF MapStackRollback
  <1>4. /\ mapped' \in [Tid -> Pages]
        /\ mapped'[call.tid] = NoPages /\ \A i \in Tid : i # call.tid => mapped'[i] = mapped[i]
    BY Zenon, <1>1, <1>3, EmptyRecords DEF Types, MemoryTypes
  <1> QED BY Zenon, <1>1, <1>2, <1>4, NewPages, EmptyRecords DEF Types

\* process_attach_task refuses and changes nothing, or links both ways.
LEMMA Attached ==
  ASSUME Types, process_attach_task
  PROVE  /\ call.task \in Task /\ call.process \in Process
         /\ \/ /\ \/ ~process_registry_contains(call.process)
                  \/ process[call.process].state # "ACTIVE"
                  \/ task[call.task].process # NULL
                  \/ ~(Len(process[call.process].tasks) < PROCESS_MAX_TASKS)
                  \/ call.task \in Elems(process[call.process].tasks)
               /\ UNCHANGED <<task, process, call>> /\ pc' = "detach"
            \/ /\ process_registry_contains(call.process)
               /\ process[call.process].state = "ACTIVE"
               /\ task[call.task].process = NULL
               /\ call.task \notin Elems(process[call.process].tasks)
               /\ SetMembers(call.process, Append(process[call.process].tasks, call.task))
               /\ SetOwner(call.task, call.process)
               /\ call' = [call EXCEPT !.attached = TRUE] /\ pc' = "add"
  <1> DEFINE p == call.process
             t == call.task
             more == Append(process[p].tasks, t)
  <1>1. t \in Task /\ p \in Process
    BY Zenon DEF process_attach_task, Types, Control
  <1>2. more \in Seq(Task)
    BY <1>1 DEF Types, ProcessTypes, ProcessRecord
  <1>3. [process EXCEPT ![p].tasks = Append(@, t)] = [process EXCEPT ![p].tasks = more]
    BY Zenon
  <1> HIDE DEF more
  <1>4. process' = [process EXCEPT ![p].tasks = more] =>
          SetMembers(p, more)
    BY Zenon, <1>1, <1>2, NewMembers DEF Types
  <1>5. task' = [task EXCEPT ![t].process = p] =>
          SetOwner(t, p)
    BY Zenon, <1>1, NewOwner DEF Types
  <1> QED BY Zenon, <1>1, <1>3, <1>4, <1>5 DEF process_attach_task, more

\* scheduler_add refuses and changes nothing, or queues the task as managed.
LEMMA Admitted ==
  ASSUME Types, scheduler_add
  PROVE  /\ call.task \in Task
         /\ \/ /\ \/ task[call.task].state # "READY" \/ ~(Len(runqueue) < RUNQUEUE_MAX_TASKS)
                  \/ call.task \in Elems(runqueue)
               /\ UNCHANGED <<runqueue, task, call, result>> /\ pc' = "detach"
            \/ /\ call.task \notin Elems(runqueue)
               /\ runqueue' = Append(runqueue, call.task)
               /\ SetMode(call.task, "MANAGED")
               /\ Return("ok")
  <1>1. call.task \in Task
    BY Zenon DEF scheduler_add, Types, Control
  <1>2. task' = [task EXCEPT ![call.task].mode = "MANAGED"] =>
           SetMode(call.task, "MANAGED")
    BY Zenon, <1>1, NewMode DEF Types
  <1> QED BY Zenon, <1>1, <1>2 DEF scheduler_add

\* process_detach_task refuses and changes nothing, or unlinks both ways.
LEMMA Detached ==
  ASSUME Types, process_detach_task
  PROVE  /\ call.task \in Task /\ call.process \in Process /\ call.attached
         /\ \/ /\ \/ ~process_registry_contains(call.process)
                  \/ call.task \notin Elems(process[call.process].tasks)
                  \/ task[call.task].process # call.process
               /\ Broken /\ UNCHANGED <<task, process>>
            \/ \E i \in 1..Len(process[call.process].tasks) :
               /\ process[call.process].tasks[i] = call.task
               /\ SetMembers(call.process, SwapOut(process[call.process].tasks, i))
               /\ SetOwner(call.task, NULL)
               /\ pc' = "unregister" /\ UNCHANGED <<call, result>>
  <1> DEFINE p == call.process
             t == call.task
             i == CHOOSE i \in 1..Len(process[p].tasks) : process[p].tasks[i] = t
  <1>1. t \in Task /\ p \in Process /\ call.attached
    BY Zenon DEF process_detach_task, Types, Control
  <1>2. CASE /\ process_registry_contains(p)
             /\ t \in Elems(process[p].tasks)
             /\ task[t].process = p
    <2> DEFINE fewer == SwapOut(process[p].tasks, i)
    <2>1. i \in 1..Len(process[p].tasks) /\ process[p].tasks[i] = t
      BY Zenon, <1>2 DEF Elems
    <2>2. /\ process' = [process EXCEPT ![p].tasks = SwapOut(@, i)]
          /\ task' = [task EXCEPT ![t].process = NULL]
          /\ pc' = "unregister" /\ UNCHANGED <<call, result>>
      BY Zenon, <1>2 DEF process_detach_task
    <2> HIDE DEF i
    <2>3. process' = [process EXCEPT ![p].tasks = fewer]
      BY Zenon, <2>2
    <2>4. process[p].tasks \in Seq(Task)
      BY Zenon, <1>1 DEF Types, ProcessTypes, ProcessRecord
    <2>5. fewer \in Seq(Task)
      BY Zenon, <2>1, <2>4, SwappedOut
    <2> HIDE DEF fewer
    <2>6. SetMembers(p, fewer)
      BY Zenon, <1>1, <2>3, <2>5, NewMembers DEF Types
    <2>7. SetOwner(t, NULL)
      BY Zenon, <1>1, <2>2, NewOwner DEF Types
    <2> QED BY Zenon, <1>1, <2>1, <2>2, <2>6, <2>7 DEF fewer
  <1>3. CASE ~ /\ process_registry_contains(p)
               /\ t \in Elems(process[p].tasks)
               /\ task[t].process = p
    BY Zenon, <1>1, <1>3 DEF process_detach_task
  <1> QED BY Zenon, <1>2, <1>3

\* task_destroy refuses a task that still has an owner, or frees its stack.
LEMMA Destroyed ==
  ASSUME Types, task_destroy
  PROVE  /\ call.task \in Task
         /\ \/ /\ \/ ~task_validate_reclaim(call.task) \/ task[call.task].process # NULL
                  \/ call.task \in Elems(runqueue) \/ task_registry_contains(call.task)
               /\ Broken /\ UNCHANGED <<free, mapped, task, pending>>
            \/ /\ task_validate_reclaim(call.task)
               /\ free' = free \cup ({task[call.task].pages[i] : i \in Page} \ {NULL})
               /\ \/ task[call.task].stack = 0 /\ mapped' = mapped
                  \/ /\ task[call.task].stack \in Tid
                     /\ mapped' = [mapped EXCEPT ![task[call.task].stack] = NoPages]
               /\ Retire(call.task)
               /\ pending' = IF call.op = "reap" THEN Tail(pending) ELSE pending
               /\ \/ call.owns_process /\ pc' = "terminate" /\ UNCHANGED <<call, result>>
                  \/ ~call.owns_process /\ Return(Outcome)
  <1> DEFINE t == call.task
  <1>1. t \in Task
    BY Zenon DEF task_destroy, Types, Control
  <1>2. task' = [task EXCEPT ![t].stack = 0, ![t].pages = NoPages, ![t].state = "TERMINATED"] =>
          Retire(t)
    BY Zenon, <1>1, Retired
  <1>3. task[t].stack = 0 \/ task[t].stack \in Tid
    BY <1>1, Sizes DEF Types, TaskTypes, TaskRecord, Tid
  <1> QED BY Zenon, <1>1, <1>2, <1>3 DEF task_destroy

\* process_terminate refuses, or ends an ACTIVE process.
LEMMA ProcessTerminated ==
  ASSUME Types, process_terminate
  PROVE  /\ call.process \in Process
         /\ \/ /\ ~process_registry_contains(call.process) \/ process[call.process].state # "ACTIVE"
               /\ ProcessCallFails /\ UNCHANGED process
            \/ /\ process_registry_contains(call.process)
               /\ process[call.process].state = "ACTIVE"
               /\ SetProcessState(call.process, "TERMINATED")
               /\ \/ call.op = "terminate" /\ Return("ok")
                  \/ call.op # "terminate" /\ pc' = "process_destroy" /\ UNCHANGED <<call, result>>
  <1> DEFINE p == call.process
  <1>1. p \in Process
    BY Zenon DEF process_terminate, Types, Control
  <1>2. process' = [process EXCEPT ![p].state = "TERMINATED"] =>
          SetProcessState(p, "TERMINATED")
    BY Zenon, <1>1, NewProcessState DEF Types
  <1> QED BY Zenon, <1>1, <1>2 DEF process_terminate

\* process_destroy refuses, or unregisters and zeroes an empty process.
LEMMA ProcessDestroyed ==
  ASSUME Types, process_destroy
  PROVE  /\ call.process \in Process
         /\ \/ /\ \/ ~process_registry_contains(call.process) \/ process[call.process].state # "TERMINATED"
                  \/ process[call.process].tasks # <<>> \/ process_registry_count = 0
               /\ ProcessCallFails /\ UNCHANGED ProcessVars
            \/ /\ process_registry_contains(call.process)
               /\ process[call.process].tasks = <<>> /\ process_registry_count # 0
               /\ process_registry' = [process_registry EXCEPT ![process[call.process].id] = NULL]
               /\ process_registry_count' = process_registry_count - 1
               /\ Turns(call.process, ZeroProcess)
               /\ Return(Outcome)
  <1>1. call.process \in Process
    BY Zenon DEF process_destroy, Types, Control
  <1>2. process' = [process EXCEPT ![call.process] = ZeroProcess] => Turns(call.process, ZeroProcess)
    BY Zenon, <1>1, PutProcess, EmptyRecords DEF Types
  <1> QED BY Zenon, <1>1, <1>2 DEF process_destroy, ProcessVars

\* A task is dispatched from the head of the run queue.
LEMMA Dispatched ==
  ASSUME Types, TaskRuns
  PROVE  /\ Head(runqueue) \in Task /\ Head(runqueue) \in Elems(runqueue)
         /\ SetState(Head(runqueue), "RUNNING")
  <1>1. Head(runqueue) \in Task /\ Head(runqueue) \in Elems(runqueue)
    BY Zenon, HeadTaken DEF TaskRuns, Types, TaskTypes
  <1> QED BY Zenon, <1>1, NewState DEF TaskRuns, Types

\* A running task that exits is published to the reaper, or the kernel stops.
LEMMA Exited ==
  ASSUME Types, TaskExits
  PROVE  \E t \in Task :
           /\ task[t].state = "RUNNING"
           /\ SetState(t, "TERMINATED")
           /\ \/ /\ lifecycle_publish_terminated_task(t)
                 /\ pending' = Append(pending, t) /\ UNCHANGED <<pc, result>>
              \/ pc' = "halted" /\ result' = "broken" /\ UNCHANGED pending
  <1>1. PICK t \in Task :
          /\ task[t].state = "RUNNING"
          /\ task' = [task EXCEPT ![t].state = "TERMINATED"]
          /\ \/ /\ lifecycle_publish_terminated_task(t)
                /\ pending' = Append(pending, t) /\ UNCHANGED <<pc, result>>
             \/ pc' = "halted" /\ result' = "broken" /\ UNCHANGED pending
    BY Zenon DEF TaskExits
  <1>2. SetState(t, "TERMINATED")
    BY Zenon, <1>1, NewState DEF Types
  <1> QED BY Zenon, <1>1, <1>2

-----------------------------------------------------------------------------
(* Type correctness.                                                       *)

\* The types hold when the kernel starts.
LEMMA InitTypes == WellOrdered /\ Init => Types
  <1> SUFFICES ASSUME WellOrdered, Init PROVE Types
    OBVIOUS
  <1>1. TaskTypes
    BY EmptyRecords DEF Init, TaskTypes
  <1>2. ProcessTypes
    BY Zenon, EmptyRecords DEF Init, ProcessTypes
  <1>3. MemoryTypes
    BY Zenon, EmptyRecords DEF Init, MemoryTypes
  <1>4. Control
    BY Zenon, EmptyRecords DEF Init, Control, InHand, NoCall
  <1> QED BY Zenon, <1>1, <1>2, <1>3, <1>4 DEF Types

(* The memory side.                                                        *)
LEMMA MemoryStep == ASSUME Types, [Next]_vars PROVE MemoryTypes'
  <1>1. CASE UNCHANGED memory
    BY Zenon, <1>1 DEF memory, Types, MemoryTypes, Pages
  <1>2. CASE MapStackPage
    <2>1. /\ NextPage \in Page /\ pmm_alloc_frame \in free /\ call.tid \in Tid
          /\ mapped' = [mapped EXCEPT ![call.tid][NextPage] = pmm_alloc_frame]
          /\ free' = free \ {pmm_alloc_frame} /\ others' = others
      BY Zenon, <1>2, NewPage DEF MapStackPage
    <2> QED BY Zenon, <2>1 DEF Types, MemoryTypes, Pages
  <1>3. CASE MapStackRollback
    <2>1. /\ call.tid \in Tid /\ others' = others /\ mapped' \in [Tid -> Pages]
          /\ free' = free \cup ({mapped[call.tid][i] : i \in Page} \ {NULL})
      BY Zenon, <1>3, RolledBack DEF MapStackRollback
    <2>2. mapped[call.tid] \in Pages
      BY Zenon, <2>1 DEF Types, MemoryTypes
    <2> QED BY Zenon, <2>1, <2>2 DEF Types, MemoryTypes, Pages
  <1>4. CASE task_destroy
    <2>1. call.task \in Task /\ others' = others
      BY Zenon, <1>4 DEF task_destroy, Types, Control, InHand
    <2>2. task[call.task].pages \in Pages
      BY Zenon, <2>1 DEF Types, TaskTypes, TaskRecord
    <2>3. \/ UNCHANGED <<free, mapped>>
          \/ /\ free' = free \cup ({task[call.task].pages[i] : i \in Page} \ {NULL})
             /\ mapped' = IF task[call.task].stack = 0 THEN mapped
                          ELSE [mapped EXCEPT ![task[call.task].stack] = NoPages]
      BY Zenon, <1>4 DEF task_destroy
    <2>4. mapped' \in [Tid -> Pages]
      BY Zenon, <2>3, EmptyRecords DEF Types, MemoryTypes
    <2>5. free' \in SUBSET Frame
      BY <2>2, <2>3 DEF Types, MemoryTypes, Pages
    <2> QED BY Zenon, <2>1, <2>4, <2>5 DEF Types, MemoryTypes, Pages
  <1>5. CASE OthersAllocate
    BY Zenon, <1>5, LowestFrame DEF OthersAllocate, Types, MemoryTypes, Pages
  <1>6. CASE OthersFree
    BY Zenon, <1>6 DEF OthersFree, Types, MemoryTypes, Pages
  <1>7. \/ UNCHANGED memory \/ MapStackPage \/ MapStackRollback \/ task_destroy
        \/ OthersAllocate \/ OthersFree
    BY Zenon DEF Next, vars, Transaction, process_create, task_create, MapStackFails, MapStackDone,
           task_registry_register, process_attach_task, scheduler_add, runqueue_remove,
           process_detach_task, SkipDetach, task_registry_unregister, process_terminate,
           process_destroy, execution_create_task, execution_create_kernel_task,
           execution_destroy_task, execution_destroy_kernel_task, TerminateProcess,
           DestroyProcess, CreateProcess, lifecycle_reap_one, TaskRuns, TaskExits
  <1> QED BY Zenon, <1>1, <1>2, <1>3, <1>4, <1>5, <1>6, <1>7

(* The side of the tasks and their queues.                                 *)
LEMMA TaskStep == ASSUME Types, [Next]_vars PROVE TaskTypes'
  <1>0. TaskTypes
    BY Zenon DEF Types
  <1>1. CASE UNCHANGED TaskVars
    BY Zenon, <1>0, <1>1 DEF TaskVars, TaskTypes, TaskRecord
  <1>2. ASSUME task' \in [Task -> TaskRecord],
               UNCHANGED <<task_registry, task_registry_active_count, runqueue, pending>>
        PROVE  TaskTypes'
    BY Zenon, <1>0, <1>2 DEF TaskTypes
  <1>3. CASE task_create
    BY Zenon, <1>2, <1>3, NewTask DEF task_create, tables, Becomes
  <1>4. CASE MapStackPage
    BY Zenon, <1>2, <1>4, NewPage DEF MapStackPage, tables, SetPages, Becomes
  <1>5. CASE MapStackRollback
    BY Zenon, <1>2, <1>5, RolledBack DEF MapStackRollback, tables, SetPages, Becomes
  <1>6. CASE MapStackDone
    BY Zenon, <1>2, <1>6, BoundStack DEF MapStackDone, tables, Becomes
  <1>7. CASE process_attach_task
    <2>1. task' \in [Task -> TaskRecord]
      BY Zenon, <1>0, <1>7, Attached DEF TaskTypes, SetOwner, Becomes
    <2> QED BY Zenon, <1>2, <1>7, <2>1 DEF process_attach_task, tables
  <1>8. CASE process_detach_task
    <2>1. task' \in [Task -> TaskRecord]
      BY Zenon, <1>0, <1>8, Detached DEF TaskTypes, SetOwner, Becomes
    <2> QED BY Zenon, <1>2, <1>8, <2>1 DEF process_detach_task, tables
  <1>9. CASE task_registry_register
    <2>1. call.task \in Task /\ call.tid \in Tid
      BY Zenon, <1>9 DEF task_registry_register, Types, Control
    <2> QED BY <1>0, <1>9, <2>1 DEF task_registry_register, TaskTypes
  <1>10. CASE scheduler_add
    <2>1. task' \in [Task -> TaskRecord]
      BY Zenon, <1>0, <1>10, Admitted DEF TaskTypes, SetMode, Becomes
    <2>2. runqueue' \in Seq(Task)
      BY ZenonT(40), <1>0, <1>10, Admitted, Appended DEF TaskTypes
    <2> QED BY Zenon, <1>0, <1>10, <2>1, <2>2 DEF scheduler_add, tables, TaskTypes
  <1>11. CASE runqueue_remove
    <2>1. runqueue' \in Seq(Task)
      BY Zenon, <1>0, <1>11, Removed DEF runqueue_remove, Types, TaskTypes
    <2> QED BY Zenon, <1>0, <1>11, <2>1 DEF runqueue_remove, tables, TaskTypes
  <1>12. CASE task_registry_unregister
    <2>1. task_registry' \in [Tid -> Task \cup {NULL}]
      BY Zenon, <1>0, <1>12 DEF task_registry_unregister, TaskTypes
    <2>2. task_registry_active_count' \in Nat
      BY <1>0, <1>12 DEF task_registry_unregister, TaskTypes
    <2> QED BY Zenon, <1>0, <1>12, <2>1, <2>2 DEF task_registry_unregister, TaskTypes
  <1>13. CASE task_destroy
    <2>1. task' \in [Task -> TaskRecord]
      BY Zenon, <1>0, <1>13, Destroyed DEF TaskTypes, Retire, Becomes
    <2>2. pending' = pending \/ (pending' = Tail(pending) /\ pending # <<>>)
      BY Zenon, <1>13 DEF task_destroy, Types, Control
    <2>3. pending' \in Seq(Task)
      BY Zenon, <1>0, <2>2, HeadTaken DEF TaskTypes
    <2> QED BY Zenon, <1>0, <1>13, <2>1, <2>3 DEF task_destroy, tables, TaskTypes
  <1>14. CASE TaskRuns
    <2>1. task' \in [Task -> TaskRecord]
      BY Zenon, <1>14, Dispatched DEF SetState, Becomes
    <2>2. runqueue' \in Seq(Task)
      BY Zenon, <1>0, <1>14, HeadTaken DEF TaskRuns, TaskTypes
    <2> QED BY Zenon, <1>0, <1>14, <2>1, <2>2 DEF TaskRuns, tables, TaskTypes
  <1>15. CASE TaskExits
    <2>1. task' \in [Task -> TaskRecord]
      BY Zenon, <1>15, Exited DEF SetState, Becomes
    <2>2. pending' \in Seq(Task)
      BY Zenon, <1>0, <1>15, Appended DEF TaskExits, TaskTypes
    <2> QED BY Zenon, <1>0, <1>15, <2>1, <2>2 DEF TaskExits, tables, TaskTypes
  <1>16. \/ UNCHANGED TaskVars \/ task_create \/ MapStackPage \/ MapStackRollback \/ MapStackDone
         \/ task_registry_register \/ process_attach_task \/ scheduler_add \/ runqueue_remove
         \/ process_detach_task \/ task_registry_unregister \/ task_destroy \/ TaskRuns \/ TaskExits
    BY ZenonT(40) DEF TaskVars, Next, vars, tables, Transaction, process_create, MapStackFails, SkipDetach, process_terminate,
           process_destroy, execution_create_task, execution_create_kernel_task,
           execution_destroy_task, execution_destroy_kernel_task, TerminateProcess,
           DestroyProcess, CreateProcess, lifecycle_reap_one, OthersAllocate, OthersFree
  <1> QED BY Zenon, <1>1, <1>3, <1>4, <1>5, <1>6, <1>7, <1>8, <1>9, <1>10, <1>11, <1>12, <1>13,
             <1>14, <1>15, <1>16

(* The side of the processes.                                              *)
LEMMA ProcessStep == ASSUME Types, [Next]_vars PROVE ProcessTypes'
  <1>0. ProcessTypes
    BY Zenon DEF Types
  <1>1. CASE UNCHANGED ProcessVars
    BY Zenon, <1>0, <1>1 DEF ProcessVars, ProcessTypes, ProcessRecord
  <1>2. ASSUME process' \in [Process -> ProcessRecord], UNCHANGED <<process_registry, process_registry_count>>
        PROVE  ProcessTypes'
    BY Zenon, <1>0, <1>2 DEF ProcessTypes
  <1>3. CASE process_create
    <2>1. process' \in [Process -> ProcessRecord]
      BY Zenon, <1>0, <1>3, ProcessCreated DEF ProcessTypes, ProcessVars, Turns
    <2>2. process_registry' \in [Pid -> Process \cup {NULL}] /\ process_registry_count' \in Nat
      BY <1>0, <1>3, ProcessCreated DEF ProcessTypes, ProcessVars
    <2> QED BY Zenon, <2>1, <2>2 DEF ProcessTypes
  <1>4. CASE process_attach_task
    <2>1. process' \in [Process -> ProcessRecord]
      BY Zenon, <1>0, <1>4, Attached DEF ProcessTypes, SetMembers, Turns
    <2> QED BY Zenon, <1>2, <1>4, <2>1 DEF process_attach_task, tables
  <1>5. CASE process_detach_task
    <2>1. process' \in [Process -> ProcessRecord]
      BY Zenon, <1>0, <1>5, Detached DEF ProcessTypes, SetMembers, Turns
    <2> QED BY Zenon, <1>2, <1>5, <2>1 DEF process_detach_task, tables
  <1>6. CASE process_terminate
    <2>1. process' \in [Process -> ProcessRecord]
      BY Zenon, <1>0, <1>6, ProcessTerminated DEF ProcessTypes, SetProcessState, Turns
    <2> QED BY Zenon, <1>2, <1>6, <2>1 DEF process_terminate, tables
  <1>7. CASE process_destroy
    <2>1. process' \in [Process -> ProcessRecord]
      BY Zenon, <1>0, <1>7, ProcessDestroyed DEF ProcessTypes, ProcessVars, Turns
    <2>2. process_registry' \in [Pid -> Process \cup {NULL}] /\ process_registry_count' \in Nat
      BY SMTT(30), <1>0, <1>7, ProcessDestroyed DEF ProcessTypes, ProcessVars
    <2> QED BY Zenon, <2>1, <2>2 DEF ProcessTypes
  <1>8. \/ UNCHANGED ProcessVars \/ process_create \/ process_attach_task \/ process_detach_task
        \/ process_terminate \/ process_destroy
    BY Zenon DEF ProcessVars, Next, vars, tables, Transaction, task_create, MapStackPage, MapStackRollback,
           MapStackFails, MapStackDone, SkipDetach, task_registry_register, scheduler_add, runqueue_remove,
           task_registry_unregister, task_destroy, execution_create_task, execution_create_kernel_task,
           execution_destroy_task, execution_destroy_kernel_task, TerminateProcess,
           DestroyProcess, CreateProcess, lifecycle_reap_one, TaskRuns, TaskExits,
           OthersAllocate, OthersFree
  <1> QED BY Zenon, <1>1, <1>3, <1>4, <1>5, <1>6, <1>7, <1>8

(* The control of the transactions.                                        *)
LEMMA ControlStep == ASSUME Types, [Next]_vars PROVE Control'
  <1>1. ASSUME NEW r, Return(r) PROVE Control'
    BY Zenon, <1>1, EmptyRecords DEF Return, Control, InHand, NoCall
  <1>2. ASSUME UNCHANGED <<pc, call>>, pending' = pending \/ pc = "idle" PROVE Control'
    BY <1>2 DEF Types, Control, InHand, CallRecord, NoCall
  <1>3. ASSUME UNCHANGED call, pending' = pending \/ call.owns_process,
               \/ pc = "process_create" /\ call.op = "create" /\ pc' = "task_create"
               \/ pc = "task_create" /\ pc' = "map_stack"
               \/ pc = "map_stack" /\ pc' \in {"unmap_stack", "register"}
               \/ pc \in {"register", "attach", "add", "remove"} /\ pc' = "detach"
               \/ pc = "detach" /\ pc' = "unregister"
               \/ pc = "unregister" /\ pc' = "destroy"
               \/ pc \in {"unmap_stack", "destroy"} /\ call.owns_process /\ pc' = "terminate"
               \/ pc = "terminate" /\ call.op # "terminate" /\ pc' = "process_destroy"
               \/ pc = "idle" /\ pc' = "halted"
        PROVE  Control'
    <2> USE DEF Types, Control, InHand
    <2>1. call.op = "reap" => ~call.owns_process /\ pending' # <<>>
      BY Zenon, <1>3
    <2>2. CASE pc = "process_create" /\ call.op = "create" /\ pc' = "task_create"
      BY Zenon, <1>3, <2>1, <2>2
    <2>3. CASE pc = "task_create" /\ pc' = "map_stack"
      BY Zenon, <1>3, <2>1, <2>3
    <2>4. CASE pc = "map_stack" /\ pc' \in {"unmap_stack", "register"}
      BY Zenon, <1>3, <2>1, <2>4
    <2>5. CASE pc \in {"register", "attach", "add", "remove"} /\ pc' = "detach"
      BY Zenon, <1>3, <2>1, <2>5
    <2>6. CASE (pc = "detach" /\ pc' = "unregister") \/ (pc = "unregister" /\ pc' = "destroy")
      BY Zenon, <1>3, <2>1, <2>6
    <2>7. CASE pc \in {"unmap_stack", "destroy"} /\ call.owns_process /\ pc' = "terminate"
      BY Zenon, <1>3, <2>1, <2>7
    <2>8. CASE pc = "terminate" /\ call.op # "terminate" /\ pc' = "process_destroy"
      BY Zenon, <1>3, <2>1, <2>8
    <2>9. CASE pc = "idle" /\ pc' = "halted"
      BY Zenon, <1>3, <2>1, <2>9
    <2> QED BY Zenon, <1>3, <2>2, <2>3, <2>4, <2>5, <2>6, <2>7, <2>8, <2>9
  <1>s. ASSUME NEW k \in CallRecord, call' = k,
               \/ /\ pc' = "process_create" /\ k.op \in {"create", "process"}
                  /\ k.pid \in Pid /\ k.process \in Process
                  /\ k.op = "create" => k.owns_process /\ k.task \in Task /\ k.tid \in Tid
                  /\ ~k.registered /\ ~k.attached
               \/ /\ pc' = "task_create" /\ k.op = "create" /\ k.process \in Process
                  /\ k.task \in Task /\ k.tid \in Tid /\ ~k.registered /\ ~k.attached
               \/ /\ pc' = "remove" /\ k.op = "destroy" /\ k.process \in Process /\ k.task \in Task
                  /\ k.registered /\ k.attached
               \/ /\ pc' = "detach" /\ k.op = "reap" /\ k.task \in Task
                  /\ ~k.owns_process /\ k.registered /\ (k.attached => k.process \in Process)
                  /\ pending' # <<>>
               \/ /\ pc' \in {"terminate", "process_destroy"}
                  /\ k.op \in {"terminate", "destroy_process"}
                  /\ k.process \in Process /\ ~k.attached
        PROVE  Control'
    BY Zenon, <1>s DEF Control, InHand
  <1>4. CASE process_create
    BY Zenon, <1>1, <1>3, <1>4, ProcessCreated DEF process_create
  <1>5. CASE task_create \/ MapStackPage \/ MapStackFails \/ MapStackDone
    BY Zenon, <1>2, <1>3, <1>5 DEF task_create, MapStackPage, MapStackFails, MapStackDone
  <1>6. CASE MapStackRollback
    BY Zenon, <1>1, <1>3, <1>6 DEF MapStackRollback
  <1>7. CASE task_registry_register
    <2> DEFINE k == [call EXCEPT !.registered = TRUE]
    <2>1. /\ k \in CallRecord /\ k.registered
          /\ \A f \in {"op", "task", "process", "pid", "tid", "owns_process", "attached"} : k[f] = call[f]
      BY Zenon DEF Types, Control, CallRecord
    <2>2. (call' = k /\ pc' = "attach") \/ (call' = call /\ pc' = "detach")
      BY Zenon, <1>7 DEF task_registry_register
    <2> HIDE DEF k
    <2>3. CASE call' = k /\ pc' = "attach"
      BY Zenon, <1>7, <2>1, <2>3 DEF task_registry_register, Types, Control, InHand
    <2> QED BY Zenon, <1>3, <1>7, <2>2, <2>3 DEF task_registry_register
  <1>8. CASE process_attach_task
    <2> DEFINE k == [call EXCEPT !.attached = TRUE]
    <2>1. /\ k \in CallRecord /\ k.attached
          /\ \A f \in {"op", "task", "process", "pid", "tid", "owns_process", "registered"} : k[f] = call[f]
      BY Zenon DEF Types, Control, CallRecord
    <2>2. (call' = k /\ pc' = "add") \/ (call' = call /\ pc' = "detach")
      BY Zenon, <1>8 DEF process_attach_task
    <2> HIDE DEF k
    <2>3. CASE call' = k /\ pc' = "add"
      BY Zenon, <1>8, <2>1, <2>3 DEF process_attach_task, Types, Control, InHand
    <2> QED BY Zenon, <1>3, <1>8, <2>2, <2>3 DEF process_attach_task
  <1>9. CASE scheduler_add \/ runqueue_remove
    BY Zenon, <1>1, <1>3, <1>9 DEF scheduler_add, runqueue_remove, Broken
  <1>10. CASE process_detach_task \/ SkipDetach
    BY Zenon, <1>1, <1>3, <1>10 DEF process_detach_task, SkipDetach, Broken
  <1>11. CASE task_registry_unregister
    BY Zenon, <1>1, <1>3, <1>11 DEF task_registry_unregister, Broken
  <1>12. CASE task_destroy
    BY Zenon, <1>1, <1>3, <1>12, Destroyed DEF task_destroy, Broken
  <1>13. CASE process_terminate
    BY Zenon, <1>1, <1>3, <1>13 DEF process_terminate, ProcessCallFails, Broken
  <1>14. CASE process_destroy
    BY Zenon, <1>1, <1>3, <1>14 DEF process_destroy, ProcessCallFails, Broken
  <1>15. ASSUME NEW p \in Process, NEW t \in Task, NEW tid \in Tid, execution_create_task(p, t, tid)
         PROVE  Control'
    <2> DEFINE k == [NoCall EXCEPT !.op = "create", !.process = p, !.task = t, !.tid = tid]
    <2>1. /\ k \in CallRecord /\ k.op = "create" /\ k.process = p /\ k.task = t /\ k.tid = tid
          /\ ~k.registered /\ ~k.attached
      BY Zenon, EmptyRecords, Tids DEF NoCall, CallRecord
    <2>2. (call' = k /\ pc' = "task_create") \/ Return("refused")
      BY Zenon, <1>15 DEF execution_create_task
    <2> HIDE DEF k
    <2> QED BY Zenon, <1>1, <2>1, <2>2, <1>s
  <1>16. ASSUME NEW p \in Process, NEW t \in Task, NEW tid \in Tid, NEW pid \in Pid,
                execution_create_kernel_task(p, t, pid, tid)
         PROVE  Control'
    <2> DEFINE k == [NoCall EXCEPT !.op = "create", !.process = p, !.task = t,
                                   !.pid = pid, !.tid = tid, !.owns_process = TRUE]
    <2>1. /\ k \in CallRecord /\ k.op = "create" /\ k.process = p /\ k.task = t /\ k.tid = tid
          /\ k.pid = pid /\ k.owns_process /\ ~k.registered /\ ~k.attached
      BY Zenon, EmptyRecords, Tids, Pids DEF NoCall, CallRecord
    <2>2. call' = k /\ pc' = "process_create"
      BY Zenon, <1>16 DEF execution_create_kernel_task
    <2> HIDE DEF k
    <2> QED BY Zenon, <2>1, <2>2, <1>s
  <1>17. ASSUME NEW p \in Process, NEW pid \in Pid, NEW as \in AddressSpace, CreateProcess(p, pid, as)
         PROVE  Control'
    <2> DEFINE k == [NoCall EXCEPT !.op = "process", !.process = p, !.pid = pid, !.address_space = as]
    <2>1. /\ k \in CallRecord /\ k.op = "process" /\ k.process = p /\ k.pid = pid
          /\ ~k.registered /\ ~k.attached
      BY Zenon, EmptyRecords, Pids DEF NoCall, CallRecord
    <2>2. call' = k /\ pc' = "process_create"
      BY Zenon, <1>17 DEF CreateProcess
    <2> HIDE DEF k
    <2> QED BY Zenon, <2>1, <2>2, <1>s
  <1>18. ASSUME NEW p \in Process, NEW t \in Task,
                execution_destroy_task(p, t) \/ execution_destroy_kernel_task(p, t)
         PROVE  Control'
    <2>1. ASSUME NEW owns \in BOOLEAN, task[t].process = p, StartTeardown("destroy", p, t, owns, "remove")
          PROVE  Control'
      <3> DEFINE k == [NoCall EXCEPT !.op = "destroy", !.process = p, !.task = t,
                                     !.owns_process = owns, !.registered = TRUE,
                                     !.attached = (task[t].process # NULL)]
      <3>1. k \in CallRecord /\ k.op = "destroy" /\ k.process = p /\ k.task = t /\ k.registered /\ k.attached
        BY Zenon, <2>1, EmptyRecords, Nulls DEF NoCall, CallRecord
      <3>2. call' = k /\ pc' = "remove"
        BY Zenon, <2>1 DEF StartTeardown
      <3> HIDE DEF k
      <3> QED BY Zenon, <3>1, <3>2, <1>s
    <2> QED BY Zenon, <1>1, <1>18, <2>1 DEF execution_destroy_task, execution_destroy_kernel_task,
                                     execution_preflight_destroy_task
  <1>19. CASE lifecycle_reap_one
    <2> DEFINE t == Head(pending)
               p == task[t].process
               k == [NoCall EXCEPT !.op = "reap", !.process = p, !.task = t,
                                   !.owns_process = FALSE, !.registered = TRUE,
                                   !.attached = (p # NULL)]
    <2>1. t \in Task /\ p \in Process \cup {NULL}
      BY Zenon, <1>19, HeadTaken DEF lifecycle_reap_one, Types, TaskTypes, TaskRecord
    <2>2. ((call' = k /\ pc' = "detach") \/ Return("refused")) /\ pending' # <<>>
      BY Zenon, <1>19 DEF lifecycle_reap_one, StartTeardown
    <2> HIDE DEF t, p
    <2>3. /\ k \in CallRecord /\ k.op = "reap" /\ k.task = t
          /\ ~k.owns_process /\ k.registered /\ (k.attached => k.process \in Process)
      BY Zenon, <2>1, EmptyRecords DEF NoCall, CallRecord
    <2> HIDE DEF k
    <2> QED BY Zenon, <1>1, <2>1, <2>2, <2>3, <1>s
  <1>20. ASSUME NEW p \in Process, TerminateProcess(p) \/ DestroyProcess(p)
         PROVE  Control'
    <2>1. ASSUME NEW op \in {"terminate", "destroy_process"}, pc' \in {"terminate", "process_destroy"},
                 call' = [NoCall EXCEPT !.op = op, !.process = p]
          PROVE  Control'
      <3> DEFINE k == [NoCall EXCEPT !.op = op, !.process = p]
      <3>1. k \in CallRecord /\ k.op = op /\ k.process = p /\ ~k.attached
        BY Zenon, EmptyRecords DEF NoCall, CallRecord
      <3>2. call' = k
        BY Zenon, <2>1
      <3> HIDE DEF k
      <3> QED BY Zenon, <2>1, <3>1, <3>2, <1>s
    <2> QED BY Zenon, <1>20, <2>1 DEF TerminateProcess, DestroyProcess
  <1>21. CASE TaskRuns \/ OthersAllocate \/ OthersFree
    BY Zenon, <1>2, <1>21 DEF TaskRuns, OthersAllocate, OthersFree
  <1>22. CASE TaskExits
    BY Zenon, <1>2, <1>3, <1>22 DEF TaskExits
  <1>23. CASE UNCHANGED vars
    BY Zenon, <1>2, <1>23 DEF vars
  <1> QED BY Zenon, <1>4, <1>5, <1>6, <1>7, <1>8, <1>9, <1>10, <1>11, <1>12, <1>13, <1>14, <1>15, <1>16, <1>17,
             <1>18, <1>19, <1>20, <1>21, <1>22, <1>23 DEF Next, Transaction

\* Every step keeps the types.
LEMMA StepTypes == ASSUME Types, [Next]_vars PROVE Types'
  BY Zenon, MemoryStep, TaskStep, ProcessStep, ControlStep DEF Types, WellOrdered

-----------------------------------------------------------------------------
(* Frames.  A task without a stack records no frame, except the one whose  *)
(* stack is being mapped: what task_destroy frees is what it unmaps, also  *)
(* when a second unit of the same tid has replaced the mappings.           *)
Unbound ==
  \A t \in Task : task[t].stack = 0 =>
     task[t].pages = NoPages \/ (t = call.task /\ pc \in {"map_stack", "unmap_stack"})

(* Every frame is free, with the rest of the kernel or in one stack page.  *)
Partition ==
  /\ \A i, k \in Tid, j, l \in Page :
        mapped[i][j] # NULL /\ mapped[i][j] = mapped[k][l] => i = k /\ j = l
  /\ \A i \in Tid, j \in Page : mapped[i][j] \notin free /\ mapped[i][j] \notin others
  /\ \A f \in Frame : f \notin free \/ f \notin others
  /\ \A f \in Frame : f \in free \/ f \in others \/ \E i \in Tid, j \in Page : mapped[i][j] = f

\* The inductive invariant behind FramesConserved.
FrameInv == Types /\ Unbound /\ Partition

(* A slot of the stack area is emptied and its frames freed.               *)
LEMMA SlotEmptied ==
  ASSUME MemoryTypes, Partition, NEW s \in Tid,
         free' = free \cup ({mapped[s][i] : i \in Page} \ {NULL}),
         mapped' = [mapped EXCEPT ![s] = NoPages], others' = others
  PROVE  Partition'
  <1>1. /\ \A j \in Page : mapped'[s][j] = NULL
        /\ \A i \in Tid : i # s => mapped'[i] = mapped[i]
    BY Zenon DEF MemoryTypes, NoPages
  <1>2. \A i \in Tid, j \in Page : mapped[i][j] \in Frame \cup {NULL}
    BY Zenon DEF MemoryTypes, Pages
  <1>3. \A f \in Frame : f \in free' <=> (f \in free \/ \E j \in Page : mapped[s][j] = f)
    BY Zenon, Nulls
  <1>4. free' \subseteq Frame /\ free \subseteq Frame /\ others \subseteq Frame
    BY Zenon, <1>2 DEF MemoryTypes
  <1>5. ASSUME NEW i \in Tid, NEW k \in Tid, NEW j \in Page, NEW l \in Page,
               mapped'[i][j] # NULL, mapped'[i][j] = mapped'[k][l]
        PROVE  i = k /\ j = l
    BY <1>1, <1>5 DEF Partition
  <1>6. ASSUME NEW i \in Tid, NEW j \in Page
        PROVE  mapped'[i][j] \notin free' /\ mapped'[i][j] \notin others'
    <2>1. CASE i = s
      <3>1. mapped'[i][j] = NULL
        BY Zenon, <1>1, <2>1
      <3>2. NULL \notin free' /\ NULL \notin others
        BY Zenon, <1>4, Nulls
      <3> QED BY Zenon, <3>1, <3>2
    <2>2. CASE i # s
      <3>1. mapped'[i][j] = mapped[i][j]
        BY Zenon, <1>1, <2>2
      <3>2. ASSUME NEW l \in Page, mapped[i][j] \in Frame PROVE mapped[s][l] # mapped[i][j]
        BY <2>2, <3>2, Nulls DEF Partition
      <3>3. mapped[i][j] \notin free /\ mapped[i][j] \notin others
        BY Zenon DEF Partition
      <3> QED BY <1>3, <1>4, <3>1, <3>2, <3>3
    <2> QED BY Zenon, <2>1, <2>2
  <1>7. ASSUME NEW f \in Frame PROVE f \notin free' \/ f \notin others'
    BY <1>3 DEF Partition
  <1>8. ASSUME NEW f \in Frame
        PROVE  f \in free' \/ f \in others' \/ \E i \in Tid, j \in Page : mapped'[i][j] = f
    <2>1. CASE f \in free \/ f \in others
      BY Zenon, <1>3, <2>1
    <2>2. ASSUME NEW i \in Tid, NEW j \in Page, mapped[i][j] = f
          PROVE  f \in free' \/ \E k \in Tid, l \in Page : mapped'[k][l] = f
      BY Zenon, <1>1, <1>3, <2>2
    <2> QED BY <2>1, <2>2 DEF Partition
  <1> QED BY <1>5, <1>6, <1>7, <1>8 DEF Partition

\* All frames are free or with the rest of the kernel at the start.
LEMMA InitFrames == WellOrdered /\ Init => FrameInv
  <1> SUFFICES ASSUME WellOrdered, Init PROVE FrameInv
    OBVIOUS
  <1>1. Unbound
    BY Zenon DEF Init, Unbound, ZeroTask
  <1>2. \A i \in Tid, j \in Page : mapped[i][j] = NULL
    BY Zenon DEF Init, NoPages
  <1>3. Partition
    BY Zenon, <1>2, Nulls DEF Init, Partition
  <1> QED BY Zenon, <1>1, <1>3, InitTypes DEF FrameInv

\* Every step keeps the frames partitioned: what the stack area gains or
\* loses is what the allocator loses or gains, page by page.
LEMMA PartitionStep == ASSUME FrameInv, [Next]_vars PROVE Partition'
  <1>0. Types /\ MemoryTypes /\ Partition
    BY Zenon DEF FrameInv, Types
  <1>1. CASE UNCHANGED memory
    BY <1>0, <1>1 DEF memory, Partition
  <1>2. CASE MapStackPage
    <2> DEFINE s == call.tid
               n == NextPage
               g == pmm_alloc_frame
    <2>1. /\ s \in Tid /\ n \in Page /\ g \in free /\ g \in Frame
          /\ mapped[s][n] = NULL
          /\ mapped' = [mapped EXCEPT ![s][n] = g]
          /\ free' = free \ {g} /\ others' = others
      BY Zenon, <1>0, <1>2, NewPage DEF MapStackPage, MemoryTypes
    <2> HIDE DEF s, n, g
    <2>2. /\ mapped'[s][n] = g
          /\ \A i \in Tid, j \in Page : (i # s \/ j # n) => mapped'[i][j] = mapped[i][j]
      BY Zenon, <1>0, <2>1 DEF MemoryTypes, Pages
    <2>3. \A i \in Tid, j \in Page : mapped[i][j] # g
      BY <1>0, <2>1 DEF Partition
    <2>4. g # NULL /\ g \notin others
      BY Zenon, <1>0, <2>1, Nulls DEF Partition
    <2>5. ASSUME NEW i \in Tid, NEW k \in Tid, NEW j \in Page, NEW l \in Page,
                 mapped'[i][j] # NULL, mapped'[i][j] = mapped'[k][l]
          PROVE  i = k /\ j = l
      <3>1. CASE i = s /\ j = n
        BY <2>2, <2>3, <2>5, <3>1
      <3>2. CASE k = s /\ l = n
        BY <2>2, <2>3, <2>5, <3>2
      <3>3. CASE (i # s \/ j # n) /\ (k # s \/ l # n)
        BY <1>0, <2>2, <2>5, <3>3 DEF Partition
      <3> QED BY Zenon, <3>1, <3>2, <3>3
    <2>6. ASSUME NEW i \in Tid, NEW j \in Page
          PROVE  mapped'[i][j] \notin free' /\ mapped'[i][j] \notin others'
      BY <1>0, <2>1, <2>2, <2>4 DEF Partition
    <2>7. ASSUME NEW f \in Frame PROVE f \notin free' \/ f \notin others'
      BY Zenon, <1>0, <2>1 DEF Partition
    <2>8. ASSUME NEW f \in Frame
          PROVE  f \in free' \/ f \in others' \/ \E i \in Tid, j \in Page : mapped'[i][j] = f
      <3>1. CASE f = g
        BY Zenon, <2>1, <2>2, <3>1
      <3>2. CASE f # g /\ (f \in free \/ f \in others)
        BY Zenon, <2>1, <3>2
      <3>3. ASSUME NEW i \in Tid, NEW j \in Page, mapped[i][j] = f
            PROVE  \E k \in Tid, l \in Page : mapped'[k][l] = f
        <4>1. i # s \/ j # n
          BY Zenon, <2>1, <3>3, Nulls
        <4> QED BY Zenon, <2>2, <3>3, <4>1
      <3> QED BY Zenon, <1>0, <3>1, <3>2, <3>3 DEF Partition
    <2> QED BY SMTT(30), <2>5, <2>6, <2>7, <2>8 DEF Partition
  <1>3. CASE MapStackRollback
    BY Zenon, <1>0, <1>3, RolledBack, SlotEmptied DEF MapStackRollback
  <1>4. CASE task_destroy
    <2> DEFINE t == call.task
               s == task[t].stack
    <2>1. t \in Task /\ others' = others
      BY Zenon, <1>0, <1>4, Destroyed DEF task_destroy
    <2>2. CASE UNCHANGED <<free, mapped>>
      BY <1>0, <2>1, <2>2 DEF Partition
    <2>3. CASE /\ task_validate_reclaim(t)
               /\ free' = free \cup ({task[t].pages[i] : i \in Page} \ {NULL})
               /\ \/ s = 0 /\ mapped' = mapped
                  \/ s \in Tid /\ mapped' = [mapped EXCEPT ![s] = NoPages]
      <3>1. CASE s = 0 /\ mapped' = mapped
        <4>1. task[t].pages = NoPages
          BY Zenon, <1>4, <2>1, <3>1 DEF task_destroy, FrameInv, Unbound
        <4>2. free' = free
          BY Zenon, <2>3, <4>1 DEF NoPages
        <4> QED BY Zenon, <2>2, <3>1, <4>2
      <3>2. CASE s \in Tid /\ mapped' = [mapped EXCEPT ![s] = NoPages]
        <4>1. mapped[s] = task[t].pages
          BY Zenon, <2>3, <3>2, Tids DEF task_validate_reclaim
        <4>2. free' = free \cup ({mapped[s][i] : i \in Page} \ {NULL})
          BY <2>3, <4>1
        <4> HIDE DEF s
        <4> QED BY Zenon, <1>0, <2>1, <3>2, <4>2, SlotEmptied
      <3> QED BY Zenon, <2>3, <3>1, <3>2
    <2> QED BY Zenon, <1>0, <1>4, <2>2, <2>3, Destroyed
  <1>5. CASE OthersAllocate
    <2>1. /\ pmm_alloc_frame \in free
          /\ free' = free \ {pmm_alloc_frame} /\ others' = others \cup {pmm_alloc_frame} /\ mapped' = mapped
      BY <1>0, <1>5, LowestFrame DEF OthersAllocate, FrameInv, Types, MemoryTypes
    <2> QED BY <1>0, <2>1 DEF Partition, MemoryTypes
  <1>6. CASE OthersFree
    <2>1. PICK f \in others : others' = others \ {f} /\ free' = free \cup {f}
      BY Zenon, <1>6 DEF OthersFree
    <2> QED BY <1>0, <1>6, <2>1 DEF OthersFree, Partition, MemoryTypes
  <1>7. \/ UNCHANGED memory \/ MapStackPage \/ MapStackRollback \/ task_destroy
        \/ OthersAllocate \/ OthersFree
    BY Zenon DEF Next, vars, Transaction, process_create, task_create, MapStackFails, MapStackDone,
           task_registry_register, process_attach_task, scheduler_add, runqueue_remove,
           process_detach_task, SkipDetach, task_registry_unregister, process_terminate,
           process_destroy, execution_create_task, execution_create_kernel_task,
           execution_destroy_task, execution_destroy_kernel_task, TerminateProcess,
           DestroyProcess, CreateProcess, lifecycle_reap_one, TaskRuns, TaskExits
  <1> QED BY Zenon, <1>1, <1>2, <1>3, <1>4, <1>5, <1>6, <1>7

\* Every step keeps the frames recorded by tasks without a stack in hand.
LEMMA UnboundStep == ASSUME FrameInv, [Next]_vars PROVE Unbound'
  <1>0. Types /\ Unbound
    BY Zenon DEF FrameInv
  <1>1. ASSUME pc \notin {"map_stack", "unmap_stack"}, UNCHANGED task PROVE Unbound'
    BY Zenon, <1>0, <1>1 DEF Unbound
  <1>2. ASSUME pc \notin {"map_stack", "unmap_stack"}, NEW t \in Task, NEW r, Becomes(t, r),
               r.stack = task[t].stack /\ r.pages = task[t].pages
        PROVE  Unbound'
    BY Zenon, <1>0, <1>2 DEF Unbound, Becomes
  <1>3. ASSUME NEW t \in Task, NEW r, Becomes(t, r), r.pages = NoPages,
               pc \in {"map_stack", "unmap_stack"} => t = call.task
        PROVE  Unbound'
    BY Zenon, <1>0, <1>3 DEF Unbound, Becomes
  <1>4. CASE task_create
    BY <1>0, <1>3, <1>4, NewTask DEF task_create, Types, Control
  <1>5. CASE MapStackPage
    BY Zenon, <1>0, <1>5, NewPage DEF MapStackPage, Unbound, SetPages, Becomes
  <1>6. CASE MapStackFails
    BY Zenon, <1>0, <1>6 DEF MapStackFails, Unbound
  <1>7. CASE MapStackRollback
    BY <1>0, <1>3, <1>7, RolledBack DEF MapStackRollback, SetPages
  <1>8. CASE MapStackDone
    <2>1. call.tid # 0
      BY Zenon, <1>0, <1>8, Tids DEF MapStackDone, Types, Control
    <2> QED BY <1>0, <1>8, <2>1, BoundStack DEF MapStackDone, Unbound, Becomes
  <1>9. CASE process_attach_task
    BY Zenon, <1>0, <1>1, <1>2, <1>9, Attached DEF process_attach_task, SetOwner
  <1>10. CASE scheduler_add
    BY Zenon, <1>0, <1>1, <1>2, <1>10, Admitted DEF scheduler_add, SetMode
  <1>11. CASE process_detach_task
    BY Zenon, <1>0, <1>1, <1>2, <1>11, Detached DEF process_detach_task, SetOwner
  <1>12. CASE task_destroy
    BY <1>0, <1>1, <1>3, <1>12, Destroyed DEF task_destroy, Retire
  <1>13. CASE TaskRuns
    BY Zenon, <1>0, <1>2, <1>13, Dispatched DEF TaskRuns, SetState
  <1>14. CASE TaskExits
    BY Zenon, <1>0, <1>2, <1>14, Exited DEF TaskExits, SetState
  <1>15. CASE UNCHANGED <<task, pc, call>>
    BY Zenon, <1>0, <1>15 DEF Unbound
  <1>16. \/ task_create \/ MapStackPage \/ MapStackFails \/ MapStackRollback \/ MapStackDone
         \/ process_attach_task \/ scheduler_add \/ process_detach_task \/ task_destroy
         \/ TaskRuns \/ TaskExits \/ UNCHANGED <<task, pc, call>>
         \/ pc \notin {"map_stack", "unmap_stack"} /\ UNCHANGED task
    BY Zenon DEF Next, vars, Transaction, process_create, task_registry_register, runqueue_remove,
           SkipDetach, task_registry_unregister, process_terminate,
           process_destroy, execution_create_task, execution_create_kernel_task,
           execution_destroy_task, execution_destroy_kernel_task, TerminateProcess,
           DestroyProcess, CreateProcess, lifecycle_reap_one, OthersAllocate, OthersFree
  <1> QED BY Zenon, <1>1, <1>4, <1>5, <1>6, <1>7, <1>8, <1>9, <1>10, <1>11, <1>12, <1>13, <1>14, <1>15, <1>16

-----------------------------------------------------------------------------
(* Ownership, for callers that never reuse the tid of a live task.         *)

\* t belongs to the registered process p, and to no other.
InProcess(t, p) ==
  /\ p \in Process /\ task[t].process = p
  /\ process_registry_contains(p)
  /\ \A q \in Process : t \in Members(q) <=> q = p

\* t belongs to no process.
NoProcess(t) ==
  /\ task[t].process = NULL
  /\ \A q \in Process : t \notin Members(q)

\* The whole stack of t is mapped in the slot of its tid.
FullStack(t) ==
  /\ task[t].id \in Tid /\ task[t].stack = task[t].id
  /\ mapped[task[t].id] = task[t].pages
  /\ \A i \in Page : task[t].pages[i] # NULL

\* Every domain owns t, in the queue its state asks for.
AllOwn(t) ==
  /\ InProcess(t, task[t].process)
  /\ task[t].mode = "MANAGED"
  /\ FullStack(t)
  /\ (task[t].state = "READY") <=> (t \in Elems(runqueue))
  /\ (task[t].state = "TERMINATED") <=> (t \in Elems(pending))

\* No domain owns t.
NoneOwns(t) ==
  /\ NoProcess(t)
  /\ task[t].stack = 0 /\ task[t].pages = NoPages
  /\ t \notin Elems(runqueue) /\ t \notin Elems(pending)
  /\ task[t].state # "RUNNING"

(* Every task but the one in the hands of a transaction is owned by every  *)
(* domain or by none.                                                      *)
Whole(t) == IF task_registry_contains(t) THEN AllOwn(t) ELSE NoneOwns(t)

Settled == \A t \in Task : (InHand /\ t = call.task) \/ Whole(t)

(* The task in the hands of a transaction has the owners that the          *)
(* transaction has reached or not yet left.                                *)
Joined == pc \in {"add", "remove"} \/ (pc = "detach" /\ call.attached)
Listed == pc \in {"attach", "add", "remove"} \/ (pc \in {"detach", "unregister"} /\ call.registered)

\* What the task in hand has at each statement.
Subject(t) ==
  /\ task[t].id \in Tid /\ mapped[task[t].id] = task[t].pages
  /\ pc \in {"map_stack", "unmap_stack", "register", "attach", "add"} => task[t].id = call.tid
  /\ task_registry[task[t].id] = IF Listed THEN t ELSE NULL
  /\ IF Joined THEN InProcess(t, call.process) ELSE NoProcess(t)
  /\ t \in Elems(runqueue) <=> pc = "remove"
  /\ IF call.op = "reap" THEN pending # <<>> /\ Head(pending) = t ELSE t \notin Elems(pending)
  /\ IF pc \in {"map_stack", "unmap_stack"}
       THEN task[t].stack = 0 /\ task[t].state = "NEW"
       ELSE FullStack(t) /\ task[t].state = IF call.op = "reap" THEN "TERMINATED" ELSE "READY"

\* A transaction on a task has it in hand as the statement requires.
Hand == InHand => Subject(call.task)

(* A creation that has not reached its task finds object and tid unused.   *)
Fresh ==
  pc = "task_create" \/ (pc = "process_create" /\ call.op = "create") =>
     ~task_registry_contains(call.task) /\ task_registry[call.tid] = NULL

\* The registries index objects by their own identities.
TaskTable ==
  \A i \in Tid : task_registry[i] # NULL => task[task_registry[i]].id = i

ProcessTable ==
  \A i \in Pid : process_registry[i] # NULL => process[process_registry[i]].id = i

(* A slot of the stack area is empty when nobody is registered for it.     *)
Slots ==
  \A i \in Tid : task_registry[i] = NULL =>
     mapped[i] = NoPages \/ (InHand /\ i = task[call.task].id)

(* A transaction that owns its process finds it without other members.     *)
Owner ==
  pc \notin {"idle", "process_create"} /\ call.owns_process =>
     /\ process_registry_contains(call.process)
     /\ process[call.process].state = IF pc = "process_destroy" THEN "TERMINATED" ELSE "ACTIVE"
     /\ Len(process[call.process].tasks) = IF Joined THEN 1 ELSE 0

\* No task is queued, pending or a member twice.
Queues == Distinct(runqueue) /\ Distinct(pending) /\ \A p \in Process : Distinct(process[p].tasks)

\* No transaction had to give up half way.
Unbroken == result # "broken" /\ pc # "halted"

\* The inductive invariant behind AllOrNothing and ImplementsOwnership.
OwnInv ==
  /\ Types /\ Settled /\ Hand /\ Fresh /\ TaskTable /\ ProcessTable /\ Slots /\ Owner /\ Queues
  /\ Unbroken

(* What the steps need of the two counts: a registry that holds an entry   *)
(* does not count none, and the queue of terminated tasks has room for a   *)
(* live task that is not in it.                                            *)
Room ==
  /\ \A t \in Task : task_registry_contains(t) => task_registry_active_count # 0
  /\ \A p \in Process : process_registry_contains(p) => process_registry_count # 0
  /\ ~InHand => \A t \in Task : task_registry_contains(t) /\ t \notin Elems(pending) =>
                  Len(pending) < TASK_MAX_TASKS

-----------------------------------------------------------------------------
(* A step that leaves the owners of a task alone.                          *)
LEMMA Undisturbed ==
  ASSUME NEW t \in Task, Whole(t), task'[t] = task[t],
         task_registry_contains(t)' <=> task_registry_contains(t),
         task_registry_contains(t) => mapped'[task[t].id] = mapped[task[t].id],
         \A p \in Process : t \in Members(p)' <=> t \in Members(p),
         \A p \in Process : process_registry_contains(p) /\ t \in Members(p) => process_registry_contains(p)',
         t \in Elems(runqueue)' <=> t \in Elems(runqueue),
         t \in Elems(pending)' <=> t \in Elems(pending)
  PROVE  Whole(t)'
  BY Zenon DEF Whole, AllOwn, NoneOwns, InProcess, NoProcess, FullStack

\* Without a change of identity the task registry means the same,
LEMMA TaskTableKept ==
  ASSUME Types, TaskTable, task_registry' = task_registry,
         \A t \in Task : task'[t].id = task[t].id
  PROVE  TaskTable' /\ \A t \in Task : task_registry_contains(t)' <=> task_registry_contains(t)
  <1>1. \A i \in Tid : task_registry[i] # NULL => task_registry[i] \in Task
    BY Zenon DEF Types, TaskTypes
  <1> QED BY Zenon, <1>1 DEF TaskTable, task_registry_contains

\* and so does the process registry.
LEMMA ProcessTableKept ==
  ASSUME Types, ProcessTable, process_registry' = process_registry,
         \A p \in Process : process'[p].id = process[p].id
  PROVE  ProcessTable' /\ \A p \in Process : process_registry_contains(p)' <=> process_registry_contains(p)
  <1>1. \A i \in Pid : process_registry[i] # NULL => process_registry[i] \in Process
    BY Zenon DEF Types, ProcessTypes
  <1> QED BY Zenon, <1>1 DEF ProcessTable, process_registry_contains

(* A call that starts or is refused outside a transaction on a task.       *)
LEMMA Outside ==
  ASSUME OwnInv, ~InHand, UNCHANGED <<task, process, tables, runqueue, pending, memory>>
  PROVE  Settled' /\ TaskTable' /\ ProcessTable' /\ Slots' /\ Queues'
  <1>1. TaskTable' /\ ProcessTable' /\ Queues'
    BY Zenon DEF OwnInv, TaskTable, ProcessTable, Queues, Distinct, tables
  <1>2. Slots'
    BY Zenon DEF OwnInv, Slots, tables, memory
  <1>3. ASSUME NEW t \in Task PROVE Whole(t)'
    BY Zenon, Undisturbed DEF OwnInv, Settled, tables, memory, task_registry_contains,
                       process_registry_contains, Members
  <1> QED BY Zenon, <1>1, <1>2, <1>3 DEF Settled

\* Nobody owns anything when the kernel starts.
LEMMA InitOwn == WellOrdered /\ Init => OwnInv
  <1> SUFFICES ASSUME WellOrdered, Init PROVE OwnInv
    OBVIOUS
  <1>0. Types
    BY Zenon, InitTypes
  <1>1. \A t \in Task : task[t] = ZeroTask
    BY Zenon DEF Init
  <1>2. \A p \in Process : process[p].tasks = <<>>
    BY Zenon DEF Init, ZeroProcess
  <1>3. Elems(<<>>) = {}
    BY DEF Elems
  <1>4. Settled
    <2> SUFFICES ASSUME NEW t \in Task PROVE Whole(t)
      BY Zenon DEF Settled
    <2>1. ~task_registry_contains(t)
      BY <1>1, Tids DEF task_registry_contains, ZeroTask
    <2>2. NoneOwns(t)
      BY Zenon, <1>1, <1>2, <1>3 DEF Init, NoneOwns, NoProcess, Members, ZeroTask
    <2> QED BY Zenon, <2>1, <2>2 DEF Whole
  <1>5. TaskTable /\ ProcessTable
    BY Zenon DEF Init, TaskTable, ProcessTable
  <1>6. Hand /\ Fresh /\ Slots /\ Owner /\ Unbroken
    BY Zenon DEF Init, Hand, InHand, Fresh, Slots, Owner, Unbroken
  <1>7. Queues
    BY <1>2 DEF Init, Queues, Distinct
  <1> QED BY Zenon, <1>0, <1>4, <1>5, <1>6, <1>7 DEF OwnInv

\* Membership depends on the processes only,
LEMMA SameProcesses ==
  ASSUME UNCHANGED <<process, process_registry>>
  PROVE  \A p \in Process : /\ Members(p)' = Members(p)
                            /\ process_registry_contains(p)' <=> process_registry_contains(p)
  BY Zenon DEF Members, process_registry_contains

\* and registration on the tasks only.
LEMMA SameTasks ==
  ASSUME UNCHANGED <<task, task_registry>>
  PROVE  \A t \in Task : task_registry_contains(t)' <=> task_registry_contains(t)
  BY Zenon DEF task_registry_contains

-----------------------------------------------------------------------------
(* Ownership: the calls that start or refuse a transaction.                *)

\* A call that is refused leaves every owner as it was.
LEMMA RefusedOwn ==
  ASSUME OwnInv, Types', ~InHand, UNCHANGED <<task, process, tables, runqueue, pending, memory>>,
         NEW r, r # "broken", Return(r)
  PROVE  OwnInv'
  <1>1. pc' = "idle" /\ result' = r
    BY Zenon DEF Return
  <1>2. Hand' /\ Fresh' /\ Owner' /\ Unbroken'
    BY Zenon, <1>1 DEF Hand, InHand, Fresh, Owner, Unbroken
  <1> QED BY Zenon, <1>2, Outside DEF OwnInv

\* The step, if it starts a creation, asks for a tid that nobody holds.
FreshTid == pc = "idle" /\ call'.op = "create" => task_registry[call'.tid] = NULL

\* A creation starts with a task object and a tid that nobody uses.
LEMMA CreateOwn ==
  ASSUME OwnInv, Types', NEW p \in Process, NEW t \in Task, NEW tid \in Tid, FreshTid,
         \/ execution_create_task(p, t, tid)
         \/ \E pid \in Pid : execution_create_kernel_task(p, t, pid, tid)
  PROVE  OwnInv'
  <1>1. /\ pc = "idle" /\ UNCHANGED <<task, process, tables, runqueue, pending, memory>>
        /\ Unowned(t)
    BY Zenon DEF execution_create_task, execution_create_kernel_task
  <1>2. CASE Return("refused")
    BY Zenon, <1>1, <1>2, RefusedOwn DEF InHand
  <1>3. CASE ~Return("refused")
    <2>1. /\ call'.op = "create" /\ call'.task = t /\ call'.tid = tid /\ UNCHANGED result
          /\ pc' = "process_create" \/ (pc' = "task_create" /\ ~call'.owns_process)
      BY Zenon, <1>3 DEF execution_create_task, execution_create_kernel_task, NoCall
    <2>2. Fresh'
      BY Zenon, <1>1, <2>1 DEF FreshTid, Fresh, Unowned, tables, task_registry_contains
    <2>3. Hand' /\ Owner' /\ Unbroken'
      BY Zenon, <2>1 DEF OwnInv, Hand, InHand, Owner, Unbroken
    <2> QED BY Zenon, <1>1, <2>2, <2>3, Outside DEF OwnInv, InHand
  <1> QED BY Zenon, <1>2, <1>3

\* A call on a process alone takes no task in hand.
LEMMA ProcessCallOwn ==
  ASSUME OwnInv, Types', NEW p \in Process,
         \/ TerminateProcess(p) \/ DestroyProcess(p)
         \/ \E pid \in Pid, as \in AddressSpace : CreateProcess(p, pid, as)
  PROVE  OwnInv'
  <1>1. /\ pc = "idle" /\ UNCHANGED <<task, process, tables, runqueue, pending, memory, result>>
        /\ call'.op # "create" /\ ~call'.owns_process
        /\ pc' \in {"process_create", "terminate", "process_destroy"}
    BY Zenon DEF TerminateProcess, DestroyProcess, CreateProcess, NoCall
  <1>2. Hand' /\ Fresh' /\ Owner' /\ Unbroken'
    BY Zenon, <1>1 DEF OwnInv, Hand, InHand, Fresh, Owner, Unbroken
  <1> QED BY Zenon, <1>1, <1>2, Outside DEF OwnInv, InHand

\* What a teardown starts from.
LEMMA TeardownCall ==
  ASSUME NEW op, NEW p, NEW t, NEW owns, NEW from, StartTeardown(op, p, t, owns, from)
  PROVE  /\ call'.op = op /\ call'.process = p /\ call'.task = t /\ call'.owns_process = owns
         /\ call'.registered = TRUE /\ call'.attached = (task[t].process # NULL)
         /\ pc' = from /\ result' = result
  BY Zenon DEF StartTeardown, NoCall

\* execution_destroy_* takes a READY unit in hand with all its owners.
LEMMA DestroyOwn ==
  ASSUME OwnInv, Types', NEW p \in Process, NEW t \in Task,
         execution_destroy_task(p, t) \/ execution_destroy_kernel_task(p, t)
  PROVE  OwnInv'
  <1>1. pc = "idle" /\ UNCHANGED <<task, process, tables, runqueue, pending, memory>>
    BY Zenon DEF execution_destroy_task, execution_destroy_kernel_task
  <1>2. CASE Return("refused")
    BY Zenon, <1>1, <1>2, RefusedOwn DEF InHand
  <1>3. ASSUME NEW owns \in BOOLEAN, execution_preflight_destroy_task(p, t),
               StartTeardown("destroy", p, t, owns, "remove"),
               owns => process[p].state = "ACTIVE" /\ Len(process[p].tasks) = 1
        PROVE  OwnInv'
    <2>1. /\ call'.op = "destroy" /\ call'.process = p /\ call'.task = t /\ call'.owns_process = owns
          /\ pc' = "remove" /\ result' = result
      BY Zenon, <1>3, TeardownCall
    <2>2. AllOwn(t) /\ task[t].process = p /\ task[t].state = "READY" /\ task_registry[task[t].id] = t
      BY Zenon, <1>1, <1>3 DEF OwnInv, Settled, InHand, Whole, execution_preflight_destroy_task,
                        task_registry_contains
    <2>3. InProcess(t, p) /\ FullStack(t) /\ t \in Elems(runqueue) /\ t \notin Elems(pending)
      BY Zenon, <2>2 DEF AllOwn
    <2>4. InProcess(t, p)' /\ FullStack(t)'
      BY Zenon, <1>1, <2>3, SameProcesses DEF InProcess, FullStack, tables, memory
    <2>5. Subject(t)'
      BY Zenon, <1>1, <2>1, <2>2, <2>3, <2>4 DEF Subject, FullStack, Joined, Listed, tables, memory
    <2>6. Owner'
      BY Zenon, <1>1, <1>3, <2>1, <2>4 DEF Owner, Joined, InProcess
    <2>7. Hand' /\ Fresh' /\ Unbroken'
      BY Zenon, <2>1, <2>5 DEF OwnInv, Hand, Fresh, Unbroken
    <2> QED BY Zenon, <1>1, <2>6, <2>7, Outside DEF OwnInv, InHand
  <1> QED BY Zenon, <1>2, <1>3 DEF execution_destroy_task, execution_destroy_kernel_task

\* lifecycle_reap_one takes the head of the pending ring in hand.
LEMMA ReapOwn ==
  ASSUME OwnInv, Types', lifecycle_reap_one
  PROVE  OwnInv'
  <1> DEFINE t == Head(pending)
             p == task[t].process
  <1>1. /\ pc = "idle" /\ UNCHANGED <<task, process, tables, runqueue, pending, memory>>
        /\ pending # <<>>
    BY Zenon DEF lifecycle_reap_one
  <1>2. CASE Return("refused")
    BY Zenon, <1>1, <1>2, RefusedOwn DEF InHand
  <1>3. CASE /\ task[t].state = "TERMINATED" /\ t \notin Elems(runqueue) /\ task_registry_contains(t)
             /\ StartTeardown("reap", p, t, FALSE, "detach")
    <2>1. /\ call'.op = "reap" /\ call'.process = p /\ call'.task = t /\ call'.owns_process = FALSE
          /\ call'.registered = TRUE /\ call'.attached = (p # NULL)
          /\ pc' = "detach" /\ result' = result
      BY Zenon, <1>3, TeardownCall
    <2>2. t \in Task
      BY Zenon, <1>1, HeadTaken DEF OwnInv, Types, TaskTypes
    <2>3. AllOwn(t) /\ task_registry[task[t].id] = t
      BY Zenon, <1>1, <1>3, <2>2 DEF OwnInv, Settled, InHand, Whole, task_registry_contains
    <2>4. InProcess(t, p) /\ FullStack(t) /\ p # NULL
      BY Zenon, <2>3, Nulls DEF AllOwn, InProcess
    <2>5. InProcess(t, p)' /\ FullStack(t)'
      BY Zenon, <1>1, <2>4, SameProcesses DEF InProcess, FullStack, tables, memory
    <2>6. Subject(t)'
      BY Zenon, <1>1, <1>3, <2>1, <2>3, <2>4, <2>5 DEF Subject, FullStack, Joined, Listed, tables, memory
    <2>7. Hand' /\ Fresh' /\ Unbroken' /\ Owner'
      BY Zenon, <1>1, <2>1, <2>6 DEF OwnInv, Hand, Fresh, Unbroken, Owner
    <2> QED BY Zenon, <1>1, <2>7, Outside DEF OwnInv, InHand
  <1> QED BY Zenon, <1>2, <1>3 DEF lifecycle_reap_one

-----------------------------------------------------------------------------
(* Ownership: the statements of a transaction.                             *)

(* Outside a transaction on a task only registered processes have members. *)
LEMMA MembersRegistered ==
  ASSUME OwnInv, ~InHand, NEW t \in Task, NEW p \in Process, t \in Members(p)
  PROVE  process_registry_contains(p)
  BY Zenon DEF OwnInv, Settled, Whole, AllOwn, NoneOwns, InProcess, NoProcess

(* A process that is not registered is rewritten.                          *)
LEMMA ProcessRewritten ==
  ASSUME Types, ProcessTable, NEW p \in Process, ~process_registry_contains(p), NEW r, Turns(p, r)
  PROVE  /\ \A i \in Pid : process_registry[i] # p
         /\ \A i \in Pid : process_registry[i] # NULL => process'[process_registry[i]].id = i
  <1>1. \A i \in Pid : process_registry[i] # NULL => process_registry[i] \in Process
    BY Zenon DEF Types, ProcessTypes
  <1>2. \A i \in Pid : process_registry[i] # p
    BY Zenon, Nulls DEF ProcessTable, process_registry_contains
  <1> QED BY Zenon, <1>1, <1>2 DEF ProcessTable, Turns

\* process_create, for a caller or on behalf of a creation.
LEMMA process_createOwn == ASSUME OwnInv, Types', process_create PROVE OwnInv'
  <1> DEFINE fields == [id |-> call.pid, state |-> "ACTIVE",
                        address_space |-> call.address_space, tasks |-> <<>>]
  <1>0. /\ Types /\ ~InHand /\ pc = "process_create"
        /\ UNCHANGED <<task, task_registry, task_registry_active_count, runqueue, pending, memory>>
    BY Zenon DEF process_create, OwnInv, InHand
  <1>1. PICK p \in Process : p = call.process /\ call.pid \in Pid
    BY Zenon, <1>0, ProcessCreated
  <1>2. CASE Return("refused") /\ UNCHANGED ProcessVars
    BY Zenon, <1>0, <1>2, RefusedOwn DEF ProcessVars, tables
  <1>3. ASSUME NEW r, Turns(p, r), r.tasks = <<>>, ~process_registry_contains(p),
               \A q \in Process : q # p /\ process_registry_contains(q) => process_registry_contains(q)'
        PROVE  Settled' /\ TaskTable' /\ Slots' /\ Queues'
    <2>1. TaskTable' /\ Slots'
      BY Zenon, <1>0 DEF OwnInv, TaskTable, Slots, memory
    <2>2. \A q \in Process : q # p => process'[q] = process[q]
      BY Zenon, <1>3 DEF Turns
    <2>3. process'[p].tasks = <<>>
      BY Zenon, <1>3 DEF Turns
    <2>4. Queues'
      BY <1>0, <2>2, <2>3 DEF OwnInv, Queues, Distinct
    <2>5. ASSUME NEW t \in Task PROVE Whole(t)'
      <3>1. t \notin Members(p)
        BY Zenon, <1>0, <1>1, <1>3, MembersRegistered
      <3>2. t \notin Members(p)'
        BY <2>3 DEF Members, Elems
      <3>3. \A q \in Process : q # p => Members(q)' = Members(q)
        BY Zenon, <2>2 DEF Members
      <3>4. Whole(t)
        BY Zenon, <1>0 DEF OwnInv, Settled
      <3>5. task_registry_contains(t)' <=> task_registry_contains(t)
        BY Zenon, <1>0 DEF task_registry_contains
      <3> QED BY Zenon, <1>0, <1>3, <3>1, <3>2, <3>3, <3>4, <3>5, Undisturbed DEF memory
    <2> QED BY Zenon, <2>1, <2>4, <2>5 DEF Settled
  <1>4. CASE /\ ~process_registry_contains(p) /\ Return("refused") /\ Turns(p, ZeroProcess)
             /\ UNCHANGED <<process_registry, process_registry_count>>
    <2>1. ProcessTable'
      BY Zenon, <1>0, <1>1, <1>4, ProcessRewritten DEF OwnInv, ProcessTable
    <2>2. \A q \in Process : q # p /\ process_registry_contains(q) => process_registry_contains(q)'
      BY Zenon, <1>4 DEF process_registry_contains, Turns
    <2>3. ZeroProcess.tasks = <<>>
      BY Zenon DEF ZeroProcess
    <2>4. Settled' /\ TaskTable' /\ Slots' /\ Queues'
      BY Zenon, <1>3, <1>4, <2>2, <2>3
    <2>5. Hand' /\ Fresh' /\ Owner' /\ Unbroken'
      BY Zenon, <1>4 DEF Return, Hand, InHand, Fresh, Owner, Unbroken
    <2> QED BY Zenon, <2>1, <2>4, <2>5 DEF OwnInv
  <1>5. CASE /\ ~process_registry_contains(p) /\ process_registry[call.pid] = NULL
             /\ Turns(p, fields)
             /\ process_registry' = [process_registry EXCEPT ![call.pid] = p]
             /\ process_registry_count' = process_registry_count + 1
             /\ \/ call.op = "process" /\ Return("ok")
                \/ call.op = "create" /\ pc' = "task_create" /\ UNCHANGED <<call, result>>
    <2>1. process'[p].id = call.pid /\ process'[p].state = "ACTIVE" /\ process'[p].tasks = <<>>
      BY <1>5 DEF Turns
    <2>2. /\ process_registry'[call.pid] = p
          /\ \A i \in Pid : i # call.pid => process_registry'[i] = process_registry[i]
      BY Zenon, <1>0, <1>1, <1>5 DEF Types, ProcessTypes
    <2>3. ProcessTable'
      <3>1. \A i \in Pid : process_registry[i] # NULL => process'[process_registry[i]].id = i
        BY Zenon, <1>0, <1>1, <1>5, ProcessRewritten DEF OwnInv
      <3> QED BY Zenon, <2>1, <2>2, <3>1 DEF ProcessTable
    <2>4. \A q \in Process : q # p /\ process_registry_contains(q) => process_registry_contains(q)'
      BY <1>5, <2>2, Nulls DEF process_registry_contains, Turns
    <2>5. Settled' /\ TaskTable' /\ Slots' /\ Queues'
      <3> HIDE DEF fields
      <3>1. fields.tasks = <<>>
        BY Zenon DEF fields
      <3> QED BY Zenon, <1>3, <1>5, <2>4, <3>1
    <2>6. process_registry_contains(p)'
      BY Zenon, <1>0, <1>1, <2>1, <2>2 DEF process_registry_contains
    <2>7. CASE call.op = "process" /\ Return("ok")
      BY Zenon, <2>3, <2>5, <2>7 DEF OwnInv, Return, Hand, InHand, Fresh, Owner, Unbroken
    <2>8. CASE call.op = "create" /\ pc' = "task_create" /\ UNCHANGED <<call, result>>
      <3>1. Fresh'
        BY Zenon, <1>0, <2>8 DEF OwnInv, Fresh, task_registry_contains
      <3>2. Owner'
        BY Zenon, <1>1, <2>1, <2>6, <2>8 DEF Owner, Joined
      <3>3. Hand' /\ Unbroken'
        BY Zenon, <2>8 DEF OwnInv, Hand, InHand, Unbroken
      <3> QED BY Zenon, <2>3, <2>5, <3>1, <3>2, <3>3 DEF OwnInv
    <2> QED BY Zenon, <1>5, <2>7, <2>8
  <1> QED BY Zenon, <1>0, <1>1, <1>2, <1>4, <1>5, ProcessCreated

\* task_create takes the task in hand, without an owner yet.
LEMMA task_createOwn == ASSUME OwnInv, Types', task_create PROVE OwnInv'
  <1> DEFINE t == call.task
  <1>0. /\ Types /\ ~InHand /\ pc = "task_create" /\ pc' = "map_stack"
        /\ UNCHANGED <<process, tables, runqueue, pending, memory, call, result>>
    BY Zenon DEF task_create, OwnInv, InHand
  <1>1. t \in Task /\ call.tid \in Tid /\ call.op = "create" /\ ~call.registered /\ ~call.attached
    BY Zenon, <1>0 DEF Types, Control
  <1>2. ~task_registry_contains(t) /\ task_registry[call.tid] = NULL
    BY Zenon, <1>0 DEF OwnInv, Fresh
  <1>3. /\ task'[t].id = call.tid /\ task'[t].state = "NEW" /\ task'[t].process = NULL
        /\ task'[t].stack = 0 /\ task'[t].pages = NoPages
        /\ \A u \in Task : u # t => task'[u] = task[u]
    BY <1>0, NewTask DEF Becomes
  <1>4. NoneOwns(t)
    BY Zenon, <1>0, <1>1, <1>2 DEF OwnInv, Settled, Whole
  <1>5. mapped[call.tid] = NoPages
    BY Zenon, <1>0, <1>1, <1>2 DEF OwnInv, Slots
  <1>6. ASSUME NEW u \in Task, u # t PROVE Whole(u)'
    <2>1. Whole(u) /\ task'[u] = task[u]
      BY Zenon, <1>0, <1>3, <1>6 DEF OwnInv, Settled
    <2>2. task_registry_contains(u)' <=> task_registry_contains(u)
      BY Zenon, <1>0, <2>1 DEF task_registry_contains, tables
    <2> QED BY Zenon, <1>0, <2>1, <2>2, Undisturbed, SameProcesses DEF tables, memory
  <1>7. Subject(t)'
    <2>1. NoProcess(t)'
      BY Zenon, <1>0, <1>3, <1>4, SameProcesses DEF NoneOwns, NoProcess, tables
    <2> QED BY Zenon, <1>0, <1>1, <1>2, <1>3, <1>4, <1>5, <2>1, Nulls
            DEF Subject, NoneOwns, Joined, Listed, tables, memory
  <1>8. TaskTable'
    <2>1. \A i \in Tid : task_registry[i] # NULL => task_registry[i] \in Task /\ task_registry[i] # t
      BY Zenon, <1>0, <1>2 DEF OwnInv, TaskTable, Types, TaskTypes, task_registry_contains
    <2> QED BY Zenon, <1>0, <1>3, <2>1 DEF OwnInv, TaskTable, tables
  <1>9. Slots'
    BY Zenon, <1>0 DEF OwnInv, Slots, tables, memory
  <1>10. ProcessTable' /\ Queues'
    BY Zenon, <1>0 DEF OwnInv, ProcessTable, Queues, Distinct, tables
  <1>11. Owner'
    BY Zenon, <1>0, <1>1 DEF OwnInv, Owner, Joined, process_registry_contains, tables
  <1>12. Settled' /\ Hand' /\ Fresh' /\ Unbroken'
    BY Zenon, <1>0, <1>6, <1>7 DEF OwnInv, Settled, Hand, InHand, Fresh, Unbroken
  <1> QED BY Zenon, <1>8, <1>9, <1>10, <1>11, <1>12 DEF OwnInv

(* The stack of the task in hand grows, shrinks or is bound.               *)
LEMMA MapStackPageOwn == ASSUME OwnInv, Types', MapStackPage PROVE OwnInv'
  <1>0. /\ Types /\ InHand /\ pc = "map_stack" /\ pc' = "map_stack"
        /\ UNCHANGED <<process, tables, runqueue, pending, others, call, result>>
    BY Zenon DEF MapStackPage, OwnInv, InHand
  <1>1. PICK t \in Task, s \in Tid, n \in Page :
          t = call.task /\ s = call.tid /\ n = NextPage
    BY Zenon, <1>0, NewPage
  <1>2. Subject(t)
    BY Zenon, <1>0, <1>1 DEF OwnInv, Hand
  <1>3. /\ task[t].id = s /\ mapped[s] = task[t].pages
        /\ task_registry[s] = NULL
        /\ NoProcess(t) /\ t \notin Elems(runqueue) /\ t \notin Elems(pending)
        /\ task[t].stack = 0 /\ task[t].state = "NEW" /\ call.op = "create"
        /\ ~Joined' /\ ~Listed'
    BY Zenon, <1>0, <1>1, <1>2 DEF Subject, Joined, Listed, Types, Control
  <1>4. /\ task'[t].id = s /\ task'[t].state = "NEW" /\ task'[t].process = task[t].process
        /\ task'[t].stack = 0 /\ task'[t].pages = [task[t].pages EXCEPT ![n] = pmm_alloc_frame]
        /\ \A u \in Task : u # t => task'[u] = task[u]
    BY <1>0, <1>1, <1>3, NewPage DEF SetPages, Becomes
  <1>5. /\ mapped'[s] = [mapped[s] EXCEPT ![n] = pmm_alloc_frame]
        /\ \A i \in Tid : i # s => mapped'[i] = mapped[i]
    BY Zenon, <1>0, <1>1 DEF MapStackPage, Types, MemoryTypes
  <1>6. ASSUME NEW u \in Task, u # t PROVE Whole(u)'
    <2>1. Whole(u) /\ task'[u] = task[u]
      BY Zenon, <1>1, <1>4, <1>6 DEF OwnInv, Settled
    <2>2. task_registry_contains(u)' <=> task_registry_contains(u)
      BY Zenon, <1>0, <2>1 DEF task_registry_contains, tables
    <2>3. task_registry_contains(u) => mapped'[task[u].id] = mapped[task[u].id]
      BY Zenon, <1>3, <1>5, Nulls DEF task_registry_contains
    <2> QED BY Zenon, <1>0, <2>1, <2>2, <2>3, Undisturbed, SameProcesses DEF tables
  <1>7. Subject(t)'
    <2>1. NoProcess(t)'
      BY Zenon, <1>0, <1>3, <1>4, SameProcesses DEF NoProcess, tables
    <2> QED BY SMTT(90), <1>0, <1>1, <1>3, <1>4, <1>5, <2>1 DEF Subject, tables
  <1>8. TaskTable' /\ ProcessTable' /\ Queues'
    <2>1. \A u \in Task : task'[u].id = task[u].id
      BY Zenon, <1>3, <1>4
    <2> QED BY Zenon, <1>0, <2>1, TaskTableKept, ProcessTableKept DEF OwnInv, Queues, Distinct, tables
  <1>9. Slots'
    BY SMTT(30), <1>0, <1>1, <1>3, <1>4, <1>5 DEF OwnInv, Slots, InHand, tables
  <1>10. Owner'
    BY Zenon, <1>0 DEF OwnInv, Owner, Joined, process_registry_contains, tables
  <1>11. Settled' /\ Hand' /\ Fresh' /\ Unbroken'
    BY Zenon, <1>0, <1>1, <1>6, <1>7 DEF OwnInv, Settled, Hand, InHand, Fresh, Unbroken
  <1> QED BY Zenon, <1>8, <1>9, <1>10, <1>11 DEF OwnInv

\* A page that cannot be mapped starts the rollback.
LEMMA MapStackFailsOwn == ASSUME OwnInv, Types', MapStackFails PROVE OwnInv'
  <1>0. /\ Types /\ InHand /\ pc = "map_stack" /\ pc' = "unmap_stack"
        /\ UNCHANGED <<task, process, tables, runqueue, pending, memory, call, result>>
    BY Zenon DEF MapStackFails, OwnInv, InHand
  <1>1. PICK t \in Task : t = call.task /\ call.op = "create"
    BY Zenon, <1>0 DEF Types, Control
  <1>2. Subject(t)
    BY Zenon, <1>0, <1>1 DEF OwnInv, Hand
  <1>3. NoProcess(t)'
    BY Zenon, <1>0, <1>2, SameProcesses DEF Subject, NoProcess, Joined, tables
  <1>4. Subject(t)'
    BY Zenon, <1>0, <1>1, <1>2, <1>3 DEF Subject, Joined, Listed, tables, memory
  <1>5. ASSUME NEW u \in Task, u # t PROVE Whole(u)'
    BY Zenon, <1>0, <1>1, <1>5, Undisturbed, SameProcesses, SameTasks DEF OwnInv, Settled, tables, memory
  <1>6. TaskTable' /\ ProcessTable' /\ Queues' /\ Slots'
    BY Zenon, <1>0 DEF OwnInv, TaskTable, ProcessTable, Queues, Distinct, Slots, InHand, tables, memory
  <1>7. Owner'
    BY Zenon, <1>0 DEF OwnInv, Owner, Joined, process_registry_contains, tables
  <1>8. Settled' /\ Hand' /\ Fresh' /\ Unbroken'
    BY Zenon, <1>0, <1>1, <1>4, <1>5 DEF OwnInv, Settled, Hand, InHand, Fresh, Unbroken
  <1> QED BY Zenon, <1>6, <1>7, <1>8 DEF OwnInv

\* The rollback leaves neither pages nor mappings.
LEMMA MapStackRollbackOwn == ASSUME OwnInv, Types', MapStackRollback PROVE OwnInv'
  <1>0. /\ Types /\ InHand /\ pc = "unmap_stack"
        /\ UNCHANGED <<process, tables, runqueue, pending, others>>
        /\ \/ call.owns_process /\ pc' = "terminate" /\ UNCHANGED <<call, result>>
           \/ pc' = "idle" /\ result' = "refused"
    BY Zenon DEF MapStackRollback, OwnInv, InHand, Return
  <1>1. PICK t \in Task, s \in Tid : t = call.task /\ s = call.tid
    BY Zenon, <1>0, RolledBack
  <1>2. Subject(t)
    BY Zenon, <1>0, <1>1 DEF OwnInv, Hand
  <1>3. /\ task[t].id = s /\ task_registry[s] = NULL /\ call.op = "create"
        /\ NoProcess(t) /\ t \notin Elems(runqueue) /\ t \notin Elems(pending)
        /\ task[t].stack = 0 /\ task[t].state = "NEW"
    BY Zenon, <1>0, <1>1, <1>2 DEF Subject, Joined, Listed, Types, Control
  <1>4. /\ task'[t].id = s /\ task'[t].state = "NEW" /\ task'[t].process = task[t].process
        /\ task'[t].stack = 0 /\ task'[t].pages = NoPages
        /\ \A u \in Task : u # t => task'[u] = task[u]
    BY <1>0, <1>1, <1>3, RolledBack DEF SetPages, Becomes
  <1>5. mapped'[s] = NoPages /\ \A i \in Tid : i # s => mapped'[i] = mapped[i]
    BY Zenon, <1>0, <1>1, RolledBack
  <1>6. ASSUME NEW u \in Task, u # t PROVE Whole(u)'
    <2>1. Whole(u) /\ task'[u] = task[u]
      BY Zenon, <1>1, <1>4, <1>6 DEF OwnInv, Settled
    <2>2. task_registry_contains(u)' <=> task_registry_contains(u)
      BY Zenon, <1>0, <2>1 DEF task_registry_contains, tables
    <2>3. task_registry_contains(u) => mapped'[task[u].id] = mapped[task[u].id]
      BY Zenon, <1>3, <1>5, Nulls DEF task_registry_contains
    <2> QED BY Zenon, <1>0, <2>1, <2>2, <2>3, Undisturbed, SameProcesses DEF tables
  <1>7. Whole(t)'
    <2>1. NoProcess(t)'
      BY Zenon, <1>0, <1>3, <1>4, SameProcesses DEF NoProcess, tables
    <2>2. ~task_registry_contains(t)'
      BY Zenon, <1>0, <1>3, <1>4, Nulls DEF task_registry_contains, tables
    <2> QED BY Zenon, <1>0, <1>3, <1>4, <2>1, <2>2 DEF Whole, NoneOwns
  <1>8. TaskTable' /\ ProcessTable' /\ Queues'
    <2>1. \A u \in Task : task'[u].id = task[u].id
      BY Zenon, <1>3, <1>4
    <2> QED BY Zenon, <1>0, <2>1, TaskTableKept, ProcessTableKept DEF OwnInv, Queues, Distinct, tables
  <1>9. Slots'
    BY Zenon, <1>0, <1>1, <1>3, <1>4, <1>5 DEF OwnInv, Slots, InHand, tables
  <1>10. Owner'
    BY Zenon, <1>0 DEF OwnInv, Owner, Joined, process_registry_contains, tables
  <1>11. Settled' /\ Hand' /\ Fresh' /\ Unbroken'
    BY Zenon, <1>0, <1>6, <1>7 DEF OwnInv, Settled, Hand, InHand, Fresh, Unbroken
  <1> QED BY Zenon, <1>8, <1>9, <1>10, <1>11 DEF OwnInv

\* A complete stack is bound to the task.
LEMMA MapStackDoneOwn == ASSUME OwnInv, Types', MapStackDone PROVE OwnInv'
  <1>0. /\ Types /\ InHand /\ pc = "map_stack" /\ pc' = "register" /\ StackComplete
        /\ UNCHANGED <<process, tables, runqueue, pending, memory, call, result>>
    BY Zenon DEF MapStackDone, OwnInv, InHand
  <1>1. PICK t \in Task, s \in Tid : t = call.task /\ s = call.tid
    BY Zenon, <1>0 DEF Types, Control
  <1>2. Subject(t)
    BY Zenon, <1>0, <1>1 DEF OwnInv, Hand
  <1>3. /\ task[t].id = s /\ mapped[s] = task[t].pages
        /\ task_registry[s] = NULL /\ call.op = "create"
        /\ NoProcess(t) /\ t \notin Elems(runqueue) /\ t \notin Elems(pending)
        /\ ~Joined' /\ ~Listed'
    BY Zenon, <1>0, <1>1, <1>2 DEF Subject, Joined, Listed, Types, Control
  <1>4. /\ task'[t].id = s /\ task'[t].state = "READY" /\ task'[t].process = task[t].process
        /\ task'[t].stack = s /\ task'[t].pages = task[t].pages
        /\ \A u \in Task : u # t => task'[u] = task[u]
    BY SMTT(30), <1>0, <1>1, <1>3, BoundStack DEF Becomes
  <1>5. ASSUME NEW u \in Task, u # t PROVE Whole(u)'
    <2>1. Whole(u) /\ task'[u] = task[u]
      BY Zenon, <1>1, <1>4, <1>5 DEF OwnInv, Settled
    <2>2. task_registry_contains(u)' <=> task_registry_contains(u)
      BY Zenon, <1>0, <2>1 DEF task_registry_contains, tables
    <2> QED BY Zenon, <1>0, <2>1, <2>2, Undisturbed, SameProcesses DEF tables, memory
  <1>6. Subject(t)'
    <2>1. NoProcess(t)'
      BY Zenon, <1>0, <1>3, <1>4, SameProcesses DEF NoProcess, tables
    <2>2. FullStack(t)'
      BY Zenon, <1>0, <1>1, <1>3, <1>4 DEF FullStack, StackComplete, memory
    <2> QED BY Zenon, <1>0, <1>1, <1>3, <1>4, <2>1, <2>2 DEF Subject, tables, memory
  <1>7. TaskTable' /\ ProcessTable' /\ Queues'
    <2>1. \A u \in Task : task'[u].id = task[u].id
      BY Zenon, <1>3, <1>4
    <2> QED BY Zenon, <1>0, <2>1, TaskTableKept, ProcessTableKept DEF OwnInv, Queues, Distinct, tables
  <1>8. Slots'
    BY Zenon, <1>0, <1>1, <1>3, <1>4 DEF OwnInv, Slots, InHand, tables, memory
  <1>9. Owner'
    BY Zenon, <1>0 DEF OwnInv, Owner, Joined, process_registry_contains, tables
  <1>10. Settled' /\ Hand' /\ Fresh' /\ Unbroken'
    BY Zenon, <1>0, <1>1, <1>5, <1>6 DEF OwnInv, Settled, Hand, InHand, Fresh, Unbroken
  <1> QED BY Zenon, <1>7, <1>8, <1>9, <1>10 DEF OwnInv

-----------------------------------------------------------------------------
(* Startup.  kernel_runtime.c drives one process and two tasks through     *)
(* the transactions above; StartInv says which units exist at each of its  *)
(* statements, and the lemmas that follow show that every statement, and   *)
(* every step of a transaction it has called, preserves it.                *)

\* The runtime's process with the members s.
Home(s) ==
  /\ process_registry_contains(kernel)
  /\ process[kernel].address_space = KERNEL_AS
  /\ process[kernel].tasks = s

\* ... which admits tasks.
ActiveHome(s) == Home(s) /\ process[kernel].state = "ACTIVE"

\* Between two calls the tasks of s, and only they, are published units.
Units(s) ==
  /\ pc = "idle"
  /\ runqueue = s
  /\ \A t \in Task : task_registry_contains(t) <=> t \in Elems(s)
  /\ \A t \in Elems(s) : task[t].state = "READY"
  /\ IF s = <<>> THEN ~process_registry_contains(kernel) ELSE ActiveHome(s)

\* The creation of t, when the tasks of s are published units.
Creation(t, tid, s) ==
  /\ call.op = "create" /\ call.process = kernel /\ call.task = t /\ call.tid = tid
  /\ call.owns_process <=> s = <<>>
  /\ runqueue = s
  /\ \A u \in Task \ {t} : task_registry_contains(u) <=> u \in Elems(s)
  /\ \A u \in Elems(s) : task[u].state = "READY"
  /\ \/ pc \in {"task_create", "map_stack", "register", "attach"} /\ ActiveHome(s)
     \/ pc = "unmap_stack" /\ ActiveHome(s) /\ cause
     \/ pc = "add" /\ ActiveHome(Append(s, t))

\* kernel_runtime_create_task for the first task is about to create the process.
CreationOfHome ==
  /\ pc = "process_create"
  /\ call.op = "create" /\ call.process = kernel /\ call.task = root
  /\ call.tid = KERNEL_RUNTIME_TASK_TID /\ call.pid = KERNEL_RUNTIME_PID
  /\ call.address_space = KERNEL_AS /\ call.owns_process
  /\ runqueue = <<>>
  /\ \A t \in Task : ~task_registry_contains(t)
  /\ ~process_registry_contains(kernel)

\* The end of a teardown: the process goes after its task.
EndOfHome ==
  /\ call.op \in {"create", "destroy"} /\ call.owns_process /\ call.process = kernel
  /\ runqueue = <<>>
  /\ \A t \in Task : ~task_registry_contains(t)
  /\ \/ pc = "terminate" /\ ActiveHome(<<>>)
     \/ pc = "process_destroy" /\ Home(<<>>)

\* The rollback takes the root task down while no reaper exists.
Withdrawal ==
  /\ call.op = "destroy" /\ call.owns_process /\ call.process = kernel /\ call.task = root
  /\ call.registered /\ call.attached
  /\ ~task_registry_contains(reaper)
  /\ \/ pc = "remove" /\ runqueue = <<root>> /\ ActiveHome(<<root>>)
     \/ pc = "detach" /\ runqueue = <<>> /\ ActiveHome(<<root>>)
     \/ pc \in {"unregister", "destroy"} /\ runqueue = <<>> /\ ActiveHome(<<>>)

\* The publication flags of kernel_runtime.c.
Flags(r, p, i) == root_published = r /\ reaper_published = p /\ initialized = i

\* kernel_runtime_init is not running, or has created nothing yet.
Resting ==
  /\ at \in {"off", "clock", "domains", "create_root"} /\ Units(<<>>) /\ Flags(FALSE, FALSE, FALSE)
  /\ at = "off" /\ attempts > 0 => cause

\* The first kernel_runtime_create_task is in progress or has returned.
RootInHand ==
  /\ at = "root_created" /\ Flags(FALSE, FALSE, FALSE)
  /\ \/ result = "ok" /\ Units(<<root>>)
     \/ result = "refused" /\ cause /\ Units(<<>>)
     \/ CreationOfHome
     \/ Creation(root, KERNEL_RUNTIME_TASK_TID, <<>>)
     \/ call.op = "create" /\ cause /\ EndOfHome

\* Between the first and the second, or about to withdraw the first.
RootAlone ==
  /\ at \in {"create_reaper", "undo_reaper", "undo_root"} /\ Units(<<root>>) /\ Flags(TRUE, FALSE, FALSE)
  /\ at # "create_reaper" => cause

\* The second kernel_runtime_create_task.
ReaperInHand ==
  /\ at = "reaper_created" /\ Flags(TRUE, FALSE, FALSE)
  /\ \/ result = "ok" /\ Units(<<root, reaper>>)
     \/ result = "refused" /\ cause /\ Units(<<root>>)
     \/ Creation(reaper, KERNEL_REAPER_TASK_TID, <<root>>)

\* execution_destroy_process_unit in the rollback.
RootLeaves ==
  /\ at = "root_undone" /\ Flags(TRUE, FALSE, FALSE) /\ cause
  /\ \/ result = "ok" /\ Units(<<>>)
     \/ Withdrawal
     \/ call.op = "destroy" /\ EndOfHome

\* kernel_runtime_init has returned true, and kernel_runtime_start was called.
Complete == at = "ready" /\ Units(<<root, reaper>>) /\ Flags(TRUE, TRUE, TRUE)
Started == at = "started" /\ pc = "idle" /\ Flags(TRUE, TRUE, TRUE)

(* The inductive invariant of initialization and its rollback: at every    *)
(* statement of kernel_runtime_init exactly the units it has created so    *)
(* far exist, and it is on a failing path only for a cause.                *)
StartInv ==
  /\ pending = <<>>
  /\ \/ Resting \/ RootInHand \/ RootAlone \/ ReaperInHand \/ RootLeaves \/ Complete \/ Started

-----------------------------------------------------------------------------
(* The constants of the runtime.                                           *)
LEMMA RuntimeObjects ==
  ASSUME StartupObjects
  PROVE  /\ kernel \in Process /\ \A p \in Process : p = kernel
         /\ root \in Task /\ reaper \in Task /\ root # reaper /\ \A t \in Task : t = root \/ t = reaper
         /\ KERNEL_RUNTIME_TASK_TID \in Tid /\ KERNEL_REAPER_TASK_TID \in Tid /\ KERNEL_RUNTIME_PID \in Pid
         /\ KERNEL_RUNTIME_TASK_TID # KERNEL_REAPER_TASK_TID
  <1>1. /\ kernel \in Process /\ \A p \in Process : p = kernel
        /\ root \in Task /\ reaper \in Task /\ root # reaper /\ \A t \in Task : t = root \/ t = reaper
    BY Zenon DEF StartupObjects
  <1>2. TASK_MAX_TASKS >= 2
    BY Zenon DEF StartupObjects
  <1>3. 1 \in Tid /\ 2 \in Tid /\ 1 \in Pid /\ 1 # 2
    BY <1>2, Sizes DEF Tid, Pid
  <1> QED BY Zenon, <1>1, <1>3 DEF KERNEL_RUNTIME_TASK_TID, KERNEL_REAPER_TASK_TID, KERNEL_RUNTIME_PID

\* Sequences are equal element by element.
LEMMA SameSeq ==
  ASSUME NEW p \in Seq(Task), NEW q \in Seq(Task), Len(p) = Len(q), \A i \in 1..Len(p) : p[i] = q[i]
  PROVE  p = q
  OBVIOUS

\* The lists of units that the runtime builds.
LEMMA Lists ==
  ASSUME StartupObjects
  PROVE  /\ <<>> \in Seq(Task) /\ <<root>> \in Seq(Task) /\ <<root, reaper>> \in Seq(Task)
         /\ Elems(<<>>) = {} /\ Elems(<<root>>) = {root} /\ Elems(<<root, reaper>>) = {root, reaper}
         /\ Append(<<>>, root) = <<root>> /\ Append(<<root>>, reaper) = <<root, reaper>>
         /\ Len(<<>>) = 0 /\ Len(<<root>>) = 1 /\ Len(<<root, reaper>>) = 2
         /\ <<>> # <<root>> /\ <<>> # <<root, reaper>> /\ <<root>> # <<root, reaper>>
         /\ Head(<<root, reaper>>) = root
  <1>0. root \in Task /\ reaper \in Task
    BY Zenon, RuntimeObjects
  <1>6. <<>> \in Seq(Task) /\ <<root>> \in Seq(Task) /\ <<root, reaper>> \in Seq(Task)
    BY <1>0
  <1>7. Append(<<>>, root) = <<root>> /\ Append(<<root>>, reaper) = <<root, reaper>>
    <2> DEFINE a == Append(<<>>, root)
               b == <<root>>
               c == Append(<<root>>, reaper)
               d == <<root, reaper>>
    <2>1. a \in Seq(Task) /\ Len(a) = 1 /\ a[1] = root
      BY <1>0
    <2>2. b \in Seq(Task) /\ Len(b) = 1 /\ b[1] = root
      BY <1>0
    <2>3. c \in Seq(Task) /\ Len(c) = 2 /\ c[1] = root /\ c[2] = reaper
      BY <1>0
    <2>4. d \in Seq(Task) /\ Len(d) = 2 /\ d[1] = root /\ d[2] = reaper
      BY <1>0
    <2> HIDE DEF a, b, c, d
    <2>5. a = b /\ c = d
      BY <2>1, <2>2, <2>3, <2>4, SameSeq
    <2> QED BY Zenon, <2>5 DEF a, b, c, d
  <1>8. Len(<<>>) = 0 /\ Len(<<root>>) = 1 /\ Len(<<root, reaper>>) = 2
    OBVIOUS
  <1>9. Head(<<root, reaper>>) = root
    BY <1>6
  <1>2. Elems(<<>>) = {}
    BY DEF Elems
  <1>3. Elems(<<root>>) = {root}
    BY DEF Elems
  <1>4. Elems(<<root, reaper>>) = {root, reaper}
    BY DEF Elems
  <1>5. <<>> # <<root>> /\ <<>> # <<root, reaper>> /\ <<root>> # <<root, reaper>>
    BY <1>8
  <1> QED BY Zenon, <1>2, <1>3, <1>4, <1>5, <1>6, <1>7, <1>8, <1>9

\* A step on t leaves the registration of the other task alone.
LEMMA OtherKept ==
  ASSUME NEW t \in Task, UNCHANGED task_registry, \A u \in Task : u # t => task'[u] = task[u]
  PROVE  \A u \in Task \ {t} : task_registry_contains(u)' <=> task_registry_contains(u)
  BY Zenon DEF task_registry_contains

\* The runtime's process depends on the processes only.
LEMMA HomeKept ==
  ASSUME UNCHANGED <<process, process_registry>>, NEW s
  PROVE  (Home(s)' <=> Home(s)) /\ (ActiveHome(s)' <=> ActiveHome(s))
  BY Zenon DEF Home, ActiveHome, process_registry_contains

\* What the runtime needs of the counts: a registry with a free entry is not
\* full, and an empty one counts none.
Countable ==
  /\ \A i \in Tid : task_registry[i] = NULL => task_registry_active_count < TASK_MAX_TASKS
  /\ (\A i \in Tid : task_registry[i] = NULL) => task_registry_active_count = 0
  /\ (\A i \in Pid : process_registry[i] = NULL) => process_registry_count = 0

\* A sequence without elements.
LEMMA NoElems == ASSUME NEW q \in Seq(Task), Elems(q) = {} PROVE q = <<>>
  <1>1. Len(q) \in Nat /\ (Len(q) > 0 => q[1] \in Elems(q))
    BY DEF Elems
  <1> QED BY <1>1

\* Nobody is registered: the registries are empty, and so are their counts.
LEMMA EmptyTables ==
  ASSUME StartupObjects, OwnInv, Countable, \A t \in Task : ~task_registry_contains(t), ~process_registry_contains(kernel)
  PROVE  /\ task_registry = [i \in Tid |-> NULL] /\ task_registry_active_count = 0
         /\ process_registry = [i \in Pid |-> NULL] /\ process_registry_count = 0
  <1>0. Types /\ TaskTable /\ ProcessTable
    BY Zenon DEF OwnInv
  <1>1. \A i \in Tid : task_registry[i] = NULL
    BY Zenon, <1>0 DEF Types, TaskTypes, TaskTable, task_registry_contains
  <1>2. \A i \in Pid : process_registry[i] = NULL
    BY Zenon, <1>0, RuntimeObjects DEF Types, ProcessTypes, ProcessTable, process_registry_contains
  <1>3. task_registry = [i \in Tid |-> NULL] /\ process_registry = [i \in Pid |-> NULL]
    BY Zenon, <1>0, <1>1, <1>2 DEF Types, TaskTypes, ProcessTypes
  <1>5. task_registry_active_count = 0 /\ process_registry_count = 0
    BY Zenon, <1>1, <1>2 DEF Countable
  <1> QED BY Zenon, <1>3, <1>5


-----------------------------------------------------------------------------
(* A creation.  The lists of units it may start from.                      *)
Before(s, t) ==
  /\ s \in Seq(Task) /\ t \notin Elems(s) /\ Elems(s) \subseteq Task
  /\ Len(s) < PROCESS_MAX_TASKS /\ Len(s) < RUNQUEUE_MAX_TASKS
  /\ Append(s, t) # <<>> /\ Elems(Append(s, t)) = Elems(s) \cup {t}

\* The two lists that a creation extends.
LEMMA RuntimeLists == ASSUME StartupObjects PROVE Before(<<>>, root) /\ Before(<<root>>, reaper)
  <1>1. PROCESS_MAX_TASKS > 1 /\ RUNQUEUE_MAX_TASKS > 1
    BY ExecutionAssumption DEF StartupObjects
  <1>2. 0 < PROCESS_MAX_TASKS /\ 0 < RUNQUEUE_MAX_TASKS /\ 1 < PROCESS_MAX_TASKS /\ 1 < RUNQUEUE_MAX_TASKS
    BY <1>1, ExecutionAssumption
  <1>3. {} \subseteq Task /\ {root} \subseteq Task /\ root \notin {} /\ reaper \notin {root}
        /\ {root} = {} \cup {root} /\ {root, reaper} = {root} \cup {reaper}
    BY Zenon, RuntimeObjects
  <1> QED BY Zenon, <1>2, <1>3, Lists DEF Before

\* The statements that work on the task alone.
LEMMA CreationKept ==
  ASSUME NEW t \in Task, NEW tid \in Tid, NEW s, Before(s, t), Creation(t, tid, s), ActiveHome(s),
         UNCHANGED <<process, process_registry, task_registry, call, runqueue>>,
         \A u \in Task : u # t => task'[u] = task[u],
         \/ pc' \in {"map_stack", "register"}
         \/ pc' = "unmap_stack" /\ cause'
  PROVE  Creation(t, tid, s)'
  <1>1. ActiveHome(s)'
    BY Zenon, HomeKept
  <1>2. \A u \in Task \ {t} : task_registry_contains(u)' <=> task_registry_contains(u)
    BY Zenon, OtherKept
  <1>3. \A u \in Elems(s) : task'[u] = task[u]
    BY Zenon DEF Before
  <1> QED BY Zenon, <1>1, <1>2, <1>3 DEF Creation

\* Building the task and its stack: a page that cannot be mapped is a reason
\* to fail, because the slot was empty.
LEMMA BuildStep ==
  ASSUME OwnInv, NEW t \in Task, NEW tid \in Tid, NEW s, Before(s, t), Creation(t, tid, s), ActiveHome(s),
         task_create \/ MapStackPage \/ MapStackFails \/ MapStackDone,
         cause' = (cause \/ (/\ pc = "map_stack" /\ pc' = "unmap_stack"
                             /\ mapped[call.tid][NextPage] = NULL))
  PROVE  Creation(t, tid, s)'
  <1>0. Types /\ call.task = t /\ call.tid = tid
    BY Zenon DEF OwnInv, Creation
  <1>1. UNCHANGED <<process, process_registry, task_registry, call, runqueue>>
    BY Zenon DEF task_create, MapStackPage, MapStackFails, MapStackDone, tables
  <1>2. \A u \in Task : u # t => task'[u] = task[u]
    <2>1. CASE task_create
      BY Zenon, <1>0, <2>1, NewTask DEF Becomes
    <2>2. CASE MapStackPage
      BY Zenon, <1>0, <2>2, NewPage DEF SetPages, Becomes
    <2>3. CASE MapStackFails
      BY Zenon, <2>3 DEF MapStackFails
    <2>4. CASE MapStackDone
      BY Zenon, <1>0, <2>4, BoundStack DEF Becomes
    <2> QED BY Zenon, <2>1, <2>2, <2>3, <2>4
  <1>3. CASE task_create \/ MapStackPage \/ MapStackDone
    <2>1. pc' \in {"map_stack", "register"}
      BY Zenon, <1>3 DEF task_create, MapStackPage, MapStackDone
    <2> QED BY Zenon, <1>1, <1>2, <2>1, CreationKept
  <1>4. CASE MapStackFails
    <2>1. pc = "map_stack" /\ pc' = "unmap_stack" /\ ~StackComplete /\ InHand
      BY Zenon, <1>4 DEF MapStackFails, InHand
    <2>2. task[t].pages[NextPage] = NULL
      BY Zenon, <1>0, <2>1, FirstMissingPage DEF Types
    <2>3. mapped[tid] = task[t].pages
      BY Zenon, <1>0, <2>1 DEF OwnInv, Hand, Subject
    <2>4. cause'
      BY Zenon, <1>0, <2>1, <2>2, <2>3
    <2> QED BY Zenon, <1>1, <1>2, <2>1, <2>4, CreationKept
  <1> QED BY Zenon, <1>3, <1>4

\* The rollback returns to what there was, or goes on to the process.
LEMMA RollbackStep ==
  ASSUME StartupObjects, OwnInv, NEW t \in Task, NEW tid \in Tid, NEW s, Before(s, t), Creation(t, tid, s),
         MapStackRollback, cause' = cause,
         \A u \in Task : u = t \/ u \in Elems(s) \/ s = <<>>
  PROVE  \/ s # <<>> /\ result' = "refused" /\ cause' /\ Units(s)'
         \/ s = <<>> /\ call'.op = "create" /\ cause' /\ EndOfHome'
  <1>0. Types /\ call.task = t /\ call.tid = tid /\ pc = "unmap_stack" /\ cause /\ InHand /\ ActiveHome(s)
    BY Zenon DEF OwnInv, Creation, MapStackRollback, InHand
  <1>1. /\ \A u \in Task : u # t => task'[u] = task[u]
        /\ task'[t].id = task[t].id
    BY <1>0, RolledBack DEF SetPages, Becomes
  <1>2. UNCHANGED <<process, process_registry, task_registry, runqueue>>
    BY Zenon DEF MapStackRollback, tables
  <1>3. ~task_registry_contains(t)
    BY <1>0, Nulls DEF OwnInv, Hand, Subject, Listed, task_registry_contains
  <1>4. \A u \in Task : task_registry_contains(u)' <=> task_registry_contains(u)
    BY Zenon, <1>1, <1>2 DEF task_registry_contains
  <1>5. \A u \in Task : task_registry_contains(u)' <=> u \in Elems(s)
    BY Zenon, <1>3, <1>4 DEF Creation, Before
  <1>6. \A u \in Elems(s) : task'[u].state = "READY"
    BY Zenon, <1>1 DEF Creation, Before
  <1>7. ActiveHome(s)' /\ runqueue' = s
    BY Zenon, <1>0, <1>2, HomeKept DEF Creation
  <1>8. CASE s = <<>>
    <2>1. call' = call /\ pc' = "terminate" /\ call.op = "create" /\ call.process = kernel /\ call.owns_process
      BY Zenon, <1>8 DEF MapStackRollback, Creation
    <2> QED BY Zenon, <1>0, <1>5, <1>7, <1>8, <2>1, Lists DEF EndOfHome
  <1>9. CASE s # <<>>
    <2>1. pc' = "idle" /\ result' = "refused"
      BY Zenon, <1>9 DEF MapStackRollback, Creation, Return
    <2> QED BY Zenon, <1>0, <1>5, <1>6, <1>7, <1>9, <2>1 DEF Units
  <1> QED BY Zenon, <1>8, <1>9

\* Registration finds the tid unused and room in the registry.
LEMMA RegisterStep ==
  ASSUME OwnInv, Countable, NEW t \in Task, NEW tid \in Tid, NEW s, Before(s, t), Creation(t, tid, s),
         task_registry_register
  PROVE  Creation(t, tid, s)'
  <1>0. Types /\ call.task = t /\ call.tid = tid /\ pc = "register" /\ InHand /\ ActiveHome(s)
    BY Zenon DEF OwnInv, Creation, task_registry_register, InHand
  <1>1. task_registry[tid] = NULL /\ task[t].id = tid
    BY <1>0 DEF OwnInv, Hand, Subject, Listed
  <1>2. task_registry_active_count < TASK_MAX_TASKS
    BY Zenon, <1>1 DEF Countable
  <1>3. /\ task_registry' = [task_registry EXCEPT ![tid] = t]
        /\ call' = [call EXCEPT !.registered = TRUE] /\ pc' = "attach"
        /\ UNCHANGED <<task, process, process_registry, runqueue>>
    BY Zenon, <1>0, <1>1, <1>2 DEF task_registry_register
  <1>4. \A u \in Task \ {t} : task_registry_contains(u)' <=> task_registry_contains(u)
    <2>1. \A i \in Tid : task_registry'[i] = IF i = tid THEN t ELSE task_registry[i]
      BY Zenon, <1>0, <1>3 DEF Types, TaskTypes
    <2> QED BY Zenon, <1>1, <1>3, <2>1, Nulls DEF task_registry_contains
  <1>5. call'.op = call.op /\ call'.process = call.process /\ call'.task = call.task /\ call'.tid = call.tid
        /\ call'.owns_process = call.owns_process
    BY Zenon, <1>0, <1>3 DEF Types, Control, CallRecord
  <1>6. ActiveHome(s)'
    BY Zenon, <1>0, <1>3, HomeKept
  <1> QED BY Zenon, <1>3, <1>4, <1>5, <1>6 DEF Creation

\* The process has room for a member.
LEMMA AttachStep ==
  ASSUME StartupObjects, OwnInv, NEW t \in Task, NEW tid \in Tid, NEW s, Before(s, t), Creation(t, tid, s),
         process_attach_task
  PROVE  Creation(t, tid, s)'
  <1>0. Types /\ call.task = t /\ call.process = kernel /\ pc = "attach" /\ InHand /\ ActiveHome(s)
    BY Zenon DEF OwnInv, Creation, process_attach_task, InHand
  <1>1. NoProcess(t)
    BY <1>0 DEF OwnInv, Hand, Subject, Joined
  <1>2. task[t].process = NULL /\ t \notin Elems(process[kernel].tasks)
    BY Zenon, <1>1, RuntimeObjects DEF NoProcess, Members
  <1>3. /\ process_registry_contains(kernel) /\ process[kernel].state = "ACTIVE"
        /\ process[kernel].tasks = s /\ Len(process[kernel].tasks) < PROCESS_MAX_TASKS
    BY Zenon, <1>0 DEF ActiveHome, Home, Before
  <1>4. /\ SetMembers(kernel, Append(s, t)) /\ SetOwner(t, kernel)
        /\ call' = [call EXCEPT !.attached = TRUE] /\ pc' = "add"
    BY Zenon, <1>0, <1>2, <1>3, Attached
  <1>5. UNCHANGED <<process_registry, task_registry, runqueue>>
    BY Zenon DEF process_attach_task, tables
  <1>6. call'.op = call.op /\ call'.process = call.process /\ call'.task = call.task /\ call'.tid = call.tid
        /\ call'.owns_process = call.owns_process
    BY Zenon, <1>0, <1>4 DEF Types, Control, CallRecord
  <1>7. \A u \in Task : u # t => task'[u] = task[u]
    BY Zenon, <1>4 DEF SetOwner, Becomes
  <1>8. \A u \in Task \ {t} : task_registry_contains(u)' <=> task_registry_contains(u)
    BY Zenon, <1>5, <1>7, OtherKept
  <1>9. \A u \in Elems(s) : task'[u] = task[u]
    BY Zenon, <1>7 DEF Before
  <1>10. ActiveHome(Append(s, t))'
    <2>1. /\ process'[kernel].id = process[kernel].id /\ process'[kernel].state = process[kernel].state
          /\ process'[kernel].address_space = process[kernel].address_space
          /\ process'[kernel].tasks = Append(s, t)
      BY <1>4 DEF SetMembers, Turns
    <2> QED BY Zenon, <1>0, <1>5, <2>1 DEF ActiveHome, Home, process_registry_contains
  <1> QED BY Zenon, <1>4, <1>5, <1>6, <1>8, <1>9, <1>10 DEF Creation

\* The run queue has room: the unit is published.
LEMMA AddStep ==
  ASSUME OwnInv, NEW t \in Task, NEW tid \in Tid, NEW s, Before(s, t), Creation(t, tid, s),
         scheduler_add
  PROVE  result' = "ok" /\ Units(Append(s, t))'
  <1>0. Types /\ call.task = t /\ pc = "add" /\ InHand /\ ActiveHome(Append(s, t)) /\ call.op = "create"
    BY Zenon DEF OwnInv, Creation, scheduler_add, InHand
  <1>1. /\ task[t].state = "READY" /\ t \notin Elems(runqueue)
        /\ task[t].id \in Tid /\ task_registry[task[t].id] = t
    BY <1>0 DEF OwnInv, Hand, Subject, Listed
  <1>2. runqueue = s /\ Len(runqueue) < RUNQUEUE_MAX_TASKS
    BY Zenon DEF Creation, Before
  <1>3. /\ runqueue' = Append(s, t) /\ SetMode(t, "MANAGED") /\ Return("ok")
    BY Zenon, <1>0, <1>1, <1>2, Admitted
  <1>4. UNCHANGED <<process, process_registry, task_registry>>
    BY Zenon DEF scheduler_add, tables
  <1>5. /\ \A u \in Task : u # t => task'[u] = task[u]
        /\ task'[t].id = task[t].id /\ task'[t].state = "READY"
    BY <1>1, <1>3 DEF SetMode, Becomes
  <1>6. \A u \in Task : task_registry_contains(u)' <=> u \in Elems(Append(s, t))
    <2>1. \A u \in Task : task_registry_contains(u)' <=> task_registry_contains(u)
      BY Zenon, <1>4, <1>5 DEF task_registry_contains
    <2>2. task_registry_contains(t)
      BY Zenon, <1>1 DEF task_registry_contains
    <2> QED BY Zenon, <2>1, <2>2 DEF Creation, Before
  <1>7. \A u \in Elems(Append(s, t)) : task'[u].state = "READY"
    BY Zenon, <1>5 DEF Creation, Before
  <1>8. ActiveHome(Append(s, t))'
    BY Zenon, <1>0, <1>4, HomeKept
  <1> QED BY Zenon, <1>3, <1>6, <1>7, <1>8 DEF Units, Before, Return


\* Neither the object nor the address space nor the pid has an owner.
LEMMA HomeStep ==
  ASSUME StartupObjects, OwnInv, Countable, CreationOfHome, process_create
  PROVE  Creation(root, KERNEL_RUNTIME_TASK_TID, <<>>)'
  <1>0. Types /\ call.process = kernel /\ call.pid = KERNEL_RUNTIME_PID /\ KERNEL_RUNTIME_PID \in Pid
    BY Zenon, RuntimeObjects DEF OwnInv, CreationOfHome
  <1>1. \A i \in Pid : process_registry[i] = NULL
    BY Zenon, EmptyTables DEF CreationOfHome
  <1>2. process_registry_find_by_address_space(call.address_space) = {}
    BY Zenon, <1>1, Nulls DEF process_registry_find_by_address_space
  <1>3. process_registry[call.pid] = NULL
    BY Zenon, <1>0, <1>1
  <1> DEFINE fields == [id |-> call.pid, state |-> "ACTIVE",
                        address_space |-> call.address_space, tasks |-> <<>>]
  <1>4. /\ process' = [process EXCEPT ![kernel] = fields]
        /\ process_registry' = [process_registry EXCEPT ![call.pid] = kernel]
        /\ pc' = "task_create" /\ call' = call
        /\ UNCHANGED <<task, task_registry, runqueue>>
    BY Zenon, <1>0, <1>2, <1>3 DEF CreationOfHome, process_create
  <1>5. process'[kernel] = fields /\ process_registry'[KERNEL_RUNTIME_PID] = kernel
    BY Zenon, <1>0, <1>4, RuntimeObjects DEF Types, ProcessTypes
  <1> HIDE DEF fields
  <1>6. /\ fields.id = call.pid /\ fields.state = "ACTIVE" /\ fields.address_space = call.address_space
        /\ fields.tasks = <<>>
    BY Zenon DEF fields
  <1>7. ActiveHome(<<>>)'
    BY Zenon, <1>0, <1>5, <1>6 DEF CreationOfHome, ActiveHome, Home, process_registry_contains
  <1>8. \A t \in Task : ~task_registry_contains(t)'
    BY Zenon, <1>4 DEF CreationOfHome, task_registry_contains
  <1> QED BY Zenon, <1>4, <1>7, <1>8, Lists DEF CreationOfHome, Creation

\* The process is ended and unregistered: nothing is left.
LEMMA EndStep ==
  ASSUME StartupObjects, OwnInv, OwnInv', EndOfHome, process_terminate \/ process_destroy
  PROVE  \/ EndOfHome' /\ call' = call
         \/ result' = Outcome /\ Units(<<>>)'
  <1>0. Types /\ call.process = kernel /\ call.op \in {"create", "destroy"} /\ result' # "broken"
    BY Zenon DEF OwnInv, EndOfHome, Unbroken
  <1>1. ~ProcessCallFails
    BY Zenon, <1>0 DEF ProcessCallFails, Broken, Return
  <1>2. UNCHANGED <<task, task_registry, runqueue>>
    BY Zenon DEF process_terminate, process_destroy, tables
  <1>3. \A t \in Task : ~task_registry_contains(t)'
    BY Zenon, <1>2 DEF EndOfHome, task_registry_contains
  <1>4. CASE process_terminate
    <2>1. /\ SetProcessState(kernel, "TERMINATED") /\ pc' = "process_destroy" /\ UNCHANGED <<call, result>>
      BY Zenon, <1>0, <1>1, <1>4, ProcessTerminated
    <2>2. ActiveHome(<<>>) /\ UNCHANGED process_registry
      BY Zenon, <1>4 DEF EndOfHome, process_terminate, tables
    <2>3. /\ process'[kernel].id = process[kernel].id
          /\ process'[kernel].address_space = process[kernel].address_space
          /\ process'[kernel].tasks = process[kernel].tasks
      BY <2>1 DEF SetProcessState, Turns
    <2>4. Home(<<>>)'
      BY Zenon, <2>2, <2>3 DEF ActiveHome, Home, process_registry_contains
    <2> QED BY Zenon, <1>2, <1>3, <2>1, <2>4 DEF EndOfHome
  <1>5. CASE process_destroy
    <2>1. Turns(kernel, ZeroProcess) /\ Return(Outcome)
      BY Zenon, <1>0, <1>1, <1>5, ProcessDestroyed
    <2>2. process'[kernel].id = 0
      BY <2>1 DEF Turns, ZeroProcess
    <2>3. ~process_registry_contains(kernel)'
      BY Zenon, <2>2, Pids DEF process_registry_contains
    <2> QED BY Zenon, <1>2, <1>3, <2>1, <2>3, Lists DEF EndOfHome, Units, Return
  <1> QED BY Zenon, <1>4, <1>5

\* kernel_runtime_rollback takes the root unit down, statement by statement.
LEMMA WithdrawalStep ==
  ASSUME StartupObjects, OwnInv, OwnInv', Withdrawal,
         runqueue_remove \/ process_detach_task \/ task_registry_unregister \/ task_destroy
  PROVE  /\ call' = call
         /\ Withdrawal' \/ EndOfHome'
  <1>0. /\ Types /\ call.process = kernel /\ call.task = root /\ result' # "broken" /\ InHand
        /\ call.owns_process
        /\ root \in Task /\ reaper \in Task /\ root # reaper /\ \A t \in Task : t = root \/ t = reaper
    BY Zenon, RuntimeObjects DEF OwnInv, Withdrawal, Unbroken, InHand
  <1>1. ~Broken
    BY Zenon, <1>0 DEF Broken, Return
  <1>2. CASE runqueue_remove
    <2>1. /\ runqueue' = WithoutTask(runqueue, root) /\ pc' = "detach"
          /\ UNCHANGED <<call, task, process, task_registry, process_registry>>
          /\ pc = "remove" /\ runqueue = <<root>> /\ root \in Elems(runqueue)
      BY Zenon, <1>0, <1>1, <1>2 DEF Withdrawal, runqueue_remove, tables
    <2>2. WellOrdered /\ runqueue \in Seq(Task) /\ Distinct(runqueue) /\ Elems(runqueue) = {root}
      BY Zenon, <1>0, <2>1, Lists DEF OwnInv, Queues, Types, TaskTypes
    <2>5. Elems(WithoutTask(runqueue, root)) = {root} \ {root} /\ WithoutTask(runqueue, root) \in Seq(Task)
      BY Zenon, <2>1, <2>2, Removed
    <2>3. runqueue' = <<>>
      BY Zenon, <2>1, <2>5, NoElems
    <2>4. ~task_registry_contains(reaper)' /\ ActiveHome(<<root>>)'
      BY Zenon, <2>1, HomeKept DEF Withdrawal, task_registry_contains
    <2> QED BY Zenon, <2>1, <2>3, <2>4 DEF Withdrawal
  <1>3. CASE process_detach_task
    <2>1. PICK i \in 1..Len(process[kernel].tasks) :
             /\ process[kernel].tasks[i] = root
             /\ SetMembers(kernel, SwapOut(process[kernel].tasks, i))
             /\ SetOwner(root, NULL)
             /\ pc' = "unregister" /\ UNCHANGED <<call, result>>
      BY Zenon, <1>0, <1>1, <1>3, Detached
    <2>2. /\ pc = "detach" /\ runqueue = <<>> /\ ActiveHome(<<root>>)
          /\ UNCHANGED <<runqueue, task_registry, process_registry>>
      BY Zenon, <1>3 DEF Withdrawal, process_detach_task, tables
    <2>3. process[kernel].tasks = <<root>>
      BY Zenon, <2>2 DEF ActiveHome, Home
    <2>4. SwapOut(process[kernel].tasks, i) = <<>>
      <3> DEFINE q == SwapOut(process[kernel].tasks, i)
      <3>1. process[kernel].tasks \in Seq(Task) /\ Len(process[kernel].tasks) = 1
        BY Zenon, <2>3, Lists
      <3>2. q \in Seq(Task) /\ Len(q) = 1 - 1
        BY Zenon, <3>1, SwappedOut
      <3> HIDE DEF q
      <3>3. q = <<>>
        BY <3>2
      <3> QED BY Zenon, <3>3 DEF q
    <2>5. /\ process'[kernel].id = process[kernel].id /\ process'[kernel].state = process[kernel].state
          /\ process'[kernel].address_space = process[kernel].address_space
          /\ process'[kernel].tasks = <<>>
      BY <2>1, <2>4 DEF SetMembers, Turns
    <2>6. ActiveHome(<<>>)'
      BY Zenon, <2>2, <2>5 DEF ActiveHome, Home, process_registry_contains
    <2>7. task'[reaper] = task[reaper]
      BY Zenon, <1>0, <2>1 DEF SetOwner, Becomes
    <2>8. ~task_registry_contains(reaper)'
      BY Zenon, <2>2, <2>7 DEF Withdrawal, task_registry_contains
    <2> QED BY Zenon, <2>1, <2>2, <2>6, <2>8 DEF Withdrawal
  <1>4. CASE task_registry_unregister
    <2>1. /\ pc = "unregister" /\ pc' = "destroy" /\ call' = call
          /\ task_registry' = [task_registry EXCEPT ![task[root].id] = NULL]
          /\ UNCHANGED <<task, process, process_registry, runqueue>>
      <3>1. pc = "unregister" /\ call.registered /\ UNCHANGED <<task, process, process_registry, runqueue>>
        BY Zenon, <1>4 DEF Withdrawal, task_registry_unregister
      <3>2. \/ ~call.registered
            \/ /\ pc' = "destroy" /\ call' = call
               /\ task_registry' = [task_registry EXCEPT ![task[call.task].id] = NULL]
            \/ Broken
        BY <1>4 DEF task_registry_unregister
      <3> QED BY Zenon, <1>0, <1>1, <3>1, <3>2
    <2>2. ActiveHome(<<>>) /\ runqueue = <<>>
      BY Zenon, <2>1 DEF Withdrawal
    <2>3. task[reaper].id \in Tid /\ task_registry[task[reaper].id] # reaper =>
             task_registry'[task[reaper].id] # reaper
      BY <1>0, <2>1, Nulls DEF Types, TaskTypes
    <2>5. ~task_registry_contains(reaper)
      BY Zenon DEF Withdrawal
    <2>4. ~task_registry_contains(reaper)' /\ ActiveHome(<<>>)'
      BY Zenon, <2>1, <2>2, <2>3, <2>5, HomeKept DEF task_registry_contains
    <2> QED BY Zenon, <2>1, <2>2, <2>4 DEF Withdrawal
  <1>5. CASE task_destroy
    <2>0. pc = "destroy" /\ runqueue = <<>> /\ ActiveHome(<<>>)
      BY Zenon, <1>5 DEF Withdrawal, task_destroy
    <2>1. /\ Retire(root) /\ pc' = "terminate" /\ call' = call
          /\ UNCHANGED <<process, process_registry, task_registry, runqueue>>
      BY Zenon, <1>0, <1>1, <1>5, Destroyed DEF task_destroy, tables
    <2>2. ~task_registry_contains(root)
      BY SMTT(90), <1>0, <2>0, Nulls DEF OwnInv, Hand, Subject, Listed, task_registry_contains
    <2>3. task'[reaper] = task[reaper] /\ task'[root].id = task[root].id
      <3>1. task'[reaper] = task[reaper]
        BY Zenon, <1>0, <2>1 DEF Retire, Becomes
      <3>2. task'[root].id = task[root].id
        BY Zenon, <2>1, RetiredId
      <3> QED BY Zenon, <3>1, <3>2
    <2>4. ~task_registry_contains(root)' /\ ~task_registry_contains(reaper)'
      BY Zenon, <2>1, <2>2, <2>3 DEF Withdrawal, task_registry_contains
    <2>5. ActiveHome(<<>>)'
      BY Zenon, <2>0, <2>1, HomeKept
    <2>6. call.op = "destroy"
      BY Zenon DEF Withdrawal
    <2>7. \A t \in Task : ~task_registry_contains(t)'
      BY Zenon, <1>0, <2>4
    <2> QED BY Zenon, <1>0, <2>0, <2>1, <2>5, <2>6, <2>7 DEF EndOfHome
  <1> QED BY Zenon, <1>2, <1>3, <1>4, <1>5


-----------------------------------------------------------------------------
(* The statements of kernel_runtime_init and its rollback.                 *)

\* A transaction step finds a call in progress.
LEMMA InProgress ==
  ASSUME Transaction PROVE pc # "idle"
  BY Zenon DEF Transaction, process_create, task_create, MapStackPage, MapStackFails, MapStackRollback,
       MapStackDone, task_registry_register, process_attach_task, scheduler_add, runqueue_remove,
       process_detach_task, SkipDetach, task_registry_unregister, task_destroy, process_terminate,
       process_destroy

\* Which statement runs where.
LEMMA AtStatement ==
  ASSUME Transaction
  PROVE  /\ pc = "process_create" => process_create
         /\ pc \in {"task_create", "map_stack"} =>
               task_create \/ MapStackPage \/ MapStackFails \/ MapStackDone
         /\ pc = "unmap_stack" => MapStackRollback
         /\ pc = "register" => task_registry_register
         /\ pc = "attach" => process_attach_task
         /\ pc = "add" => scheduler_add
         /\ pc = "remove" => runqueue_remove
         /\ pc = "detach" /\ call.attached => process_detach_task
         /\ pc = "unregister" => task_registry_unregister
         /\ pc = "destroy" => task_destroy
         /\ pc \in {"terminate", "process_destroy"} => process_terminate \/ process_destroy
  BY Zenon DEF Transaction, process_create, task_create, MapStackPage, MapStackFails, MapStackRollback,
       MapStackDone, task_registry_register, process_attach_task, scheduler_add, runqueue_remove,
       process_detach_task, SkipDetach, task_registry_unregister, task_destroy, process_terminate,
       process_destroy

\* Any step of a creation.
LEMMA CreationStep ==
  ASSUME StartupObjects, OwnInv, Countable, NEW t \in Task, NEW tid \in Tid, NEW s, Before(s, t), Creation(t, tid, s),
         s = <<>> \/ \A u \in Task : u = t \/ u \in Elems(s),
         Transaction,
         cause' = (cause \/ (/\ pc = "map_stack" /\ pc' = "unmap_stack"
                             /\ mapped[call.tid][NextPage] = NULL))
  PROVE  \/ Creation(t, tid, s)'
         \/ result' = "ok" /\ Units(Append(s, t))'
         \/ s # <<>> /\ result' = "refused" /\ cause' /\ Units(s)'
         \/ s = <<>> /\ call'.op = "create" /\ cause' /\ EndOfHome'
  <1>1. CASE pc \in {"task_create", "map_stack"}
    <2>1. ActiveHome(s)
      BY Zenon, <1>1 DEF Creation
    <2>2. task_create \/ MapStackPage \/ MapStackFails \/ MapStackDone
      BY Zenon, <1>1, AtStatement
    <2> QED BY Zenon, <2>1, <2>2, BuildStep
  <1>2. CASE pc = "unmap_stack"
    <2>1. MapStackRollback /\ cause' = cause
      BY Zenon, <1>2, AtStatement DEF Creation
    <2>2. \A u \in Task : u = t \/ u \in Elems(s) \/ s = <<>>
      BY Zenon
    <2> QED BY Zenon, <2>1, <2>2, RollbackStep
  <1>3. CASE pc = "register"
    BY Zenon, <1>3, AtStatement, RegisterStep
  <1>4. CASE pc = "attach"
    BY Zenon, <1>4, AtStatement, AttachStep
  <1>5. CASE pc = "add"
    BY Zenon, <1>5, AtStatement, AddStep
  <1> QED BY Zenon, <1>1, <1>2, <1>3, <1>4, <1>5 DEF Creation

\* A call in progress goes on.
LEMMA CallStep ==
  ASSUME StartupObjects, OwnInv, OwnInv', Countable, StartInv, ExecutionStep PROVE StartInv'
  <1>0. /\ Transaction /\ pc # "idle" /\ UNCHANGED <<at, root_published, reaper_published, initialized>>
        /\ cause' = (cause \/ (/\ pc = "map_stack" /\ pc' = "unmap_stack"
                               /\ mapped[call.tid][NextPage] = NULL))
    BY Zenon, InProgress DEF ExecutionStep, flags
  <1>1. pending' = <<>>
    <2>1. pending = <<>>
      BY Zenon DEF StartInv
    <2>2. ~task_destroy => UNCHANGED pending
      BY Zenon, <1>0 DEF Transaction, process_create, task_create, MapStackPage, MapStackFails,
         MapStackRollback, MapStackDone, task_registry_register, process_attach_task, scheduler_add,
         runqueue_remove, process_detach_task, SkipDetach, task_registry_unregister, process_terminate,
         process_destroy
    <2>3. task_destroy => call.op # "reap"
      BY Zenon, <2>1 DEF OwnInv, Types, Control
    <2>4. task_destroy => UNCHANGED pending
      BY Zenon, <2>3 DEF task_destroy
    <2> QED BY Zenon, <2>1, <2>2, <2>4
  <1>2. \A r, p, i : Flags(r, p, i)' <=> Flags(r, p, i)
    BY Zenon, <1>0 DEF Flags
  <1>3. \A s : ~Units(s)
    BY Zenon, <1>0 DEF Units
  <1>4. ASSUME EndOfHome, cause
        PROVE  /\ cause'
               /\ \/ EndOfHome' /\ call'.op = call.op
                  \/ result' = Outcome /\ Units(<<>>)'
    <2>1. process_terminate \/ process_destroy
      BY Zenon, <1>0, <1>4, AtStatement DEF EndOfHome
    <2> QED BY Zenon, <1>0, <1>4, <2>1, EndStep
  <1>5. CASE RootInHand
    <2>1. CASE CreationOfHome
      <3>1. process_create
        BY Zenon, <1>0, <2>1, AtStatement DEF CreationOfHome
      <3> QED BY Zenon, <1>0, <1>1, <1>2, <1>5, <2>1, <3>1, HomeStep DEF RootInHand, StartInv
    <2>2. CASE Creation(root, KERNEL_RUNTIME_TASK_TID, <<>>)
      <3>1. \/ Creation(root, KERNEL_RUNTIME_TASK_TID, <<>>)'
            \/ result' = "ok" /\ Units(Append(<<>>, root))'
            \/ call'.op = "create" /\ cause' /\ EndOfHome'
        BY Zenon, <1>0, <2>2, CreationStep, RuntimeLists, RuntimeObjects
      <3> QED BY Zenon, <1>0, <1>1, <1>2, <1>5, <3>1, Lists DEF RootInHand, StartInv
    <2>3. CASE call.op = "create" /\ cause /\ EndOfHome
      <3>1. Outcome = "refused"
        BY Zenon, <2>3 DEF Outcome
      <3> QED BY Zenon, <1>0, <1>1, <1>2, <1>4, <1>5, <2>3, <3>1 DEF RootInHand, StartInv
    <2> QED BY Zenon, <1>3, <1>5, <2>1, <2>2, <2>3 DEF RootInHand
  <1>6. CASE ReaperInHand
    <2>1. Creation(reaper, KERNEL_REAPER_TASK_TID, <<root>>)
      BY Zenon, <1>3, <1>6 DEF ReaperInHand
    <2>2. \A u \in Task : u = reaper \/ u \in Elems(<<root>>)
      BY Zenon, RuntimeObjects, Lists
    <2>3. \/ Creation(reaper, KERNEL_REAPER_TASK_TID, <<root>>)'
          \/ result' = "ok" /\ Units(Append(<<root>>, reaper))'
          \/ result' = "refused" /\ cause' /\ Units(<<root>>)'
      BY Zenon, <1>0, <2>1, <2>2, CreationStep, RuntimeLists, RuntimeObjects, Lists
    <2> QED BY Zenon, <1>0, <1>1, <1>2, <1>6, <2>3, Lists DEF ReaperInHand, StartInv
  <1>7. CASE RootLeaves
    <2>1. CASE Withdrawal
      <3>1. runqueue_remove \/ process_detach_task \/ task_registry_unregister \/ task_destroy
        BY Zenon, <1>0, <2>1, AtStatement DEF Withdrawal
      <3>2. call'.op = "destroy" /\ (Withdrawal' \/ EndOfHome')
        BY Zenon, <2>1, <3>1, WithdrawalStep DEF Withdrawal
      <3> QED BY Zenon, <1>0, <1>1, <1>2, <1>7, <3>2 DEF RootLeaves, StartInv
    <2>2. CASE call.op = "destroy" /\ EndOfHome
      <3>1. Outcome = "ok"
        BY Zenon, <2>2 DEF Outcome
      <3> QED BY Zenon, <1>0, <1>1, <1>2, <1>4, <1>7, <2>2, <3>1 DEF RootLeaves, StartInv
    <2> QED BY Zenon, <1>3, <1>7, <2>1, <2>2 DEF RootLeaves
  <1> QED BY Zenon, <1>0, <1>3, <1>5, <1>6, <1>7 DEF StartInv, Resting, RootAlone, Complete, Started


\* The root task is not registered under the tid of the reaper.
TidsApart == task_registry[KERNEL_REAPER_TASK_TID] # root

\* The empty domains are as process_registry_init, task_registry_init,
\* scheduler_init and lifecycle_init leave them.
LEMMA DomainsAreEmpty ==
  ASSUME StartupObjects, OwnInv, Countable, StartInv, InitDomains PROVE UNCHANGED vars
  <1>1. Units(<<>>) /\ pending = <<>>
    BY Zenon DEF StartInv, InitDomains, Resting, RootInHand, RootAlone, ReaperInHand, RootLeaves,
       Complete, Started
  <1>2. \A t \in Task : ~task_registry_contains(t)
    BY Zenon, <1>1, Lists DEF Units
  <1>3. /\ task_registry = [i \in Tid |-> NULL] /\ task_registry_active_count = 0
        /\ process_registry = [i \in Pid |-> NULL] /\ process_registry_count = 0
    BY Zenon, <1>1, <1>2, EmptyTables DEF Units
  <1> QED BY Zenon, <1>1, <1>3 DEF InitDomains, Units, vars, tables

\* Every step of the runtime is a step of the execution layer or none, and a
\* creation asks for a tid that nobody holds.
LEMMA RuntimeIsACaller ==
  ASSUME StartupObjects, OwnInv, Countable, StartInv, TidsApart, [StartupNext \/ kernel_runtime_start]_allVars
  PROVE  [Next]_vars /\ FreshTid
  <1>0. /\ Types /\ kernel \in Process /\ root \in Task /\ reaper \in Task
        /\ KERNEL_RUNTIME_TASK_TID \in Tid /\ KERNEL_REAPER_TASK_TID \in Tid /\ KERNEL_RUNTIME_PID \in Pid
    BY Zenon, RuntimeObjects DEF OwnInv
  <1>1. ASSUME pc # "idle" \/ call' = NoCall PROVE FreshTid
    <2>1. NoCall.op # "create"
      BY Zenon DEF NoCall
    <2> QED BY Zenon, <1>1, <2>1 DEF FreshTid
  <1>2. pc = "idle" => call = NoCall
    BY Zenon, <1>0 DEF Types, Control
  <1>3. CASE UNCHANGED vars
    <2>1. call' = call
      BY Zenon, <1>3 DEF vars
    <2> QED BY Zenon, <1>1, <1>2, <1>3, <2>1
  <1>4. CASE ExecutionStep
    <2>1. Transaction /\ pc # "idle"
      BY Zenon, <1>4, InProgress DEF ExecutionStep
    <2> QED BY Zenon, <1>1, <2>1 DEF Next
  <1>5. CASE Others \/ kernel_runtime_start
    <2>1. OthersAllocate \/ OthersFree \/ TaskRuns
      BY Zenon, <1>5 DEF Others, kernel_runtime_start
    <2>2. call' = call
      BY Zenon, <2>1 DEF OthersAllocate, OthersFree, TaskRuns
    <2> QED BY Zenon, <1>1, <1>2, <2>1, <2>2 DEF Next
  <1>6. CASE CreateRoot
    <2>1. execution_create_kernel_task(kernel, root, KERNEL_RUNTIME_PID, KERNEL_RUNTIME_TASK_TID)
      BY Zenon, <1>6 DEF CreateRoot
    <2>2. Units(<<>>)
      BY Zenon, <1>6 DEF CreateRoot, Returned, StartInv, Resting, RootInHand, RootAlone, ReaperInHand,
         RootLeaves, Complete, Started
    <2>3. \A t \in Task : ~task_registry_contains(t)
      BY Zenon, <2>2, Lists DEF Units
    <2>4. task_registry[KERNEL_RUNTIME_TASK_TID] = NULL
      BY Zenon, <1>0, <2>2, <2>3, EmptyTables DEF Units
    <2>5. call'.tid = KERNEL_RUNTIME_TASK_TID
      BY Zenon, <2>1 DEF execution_create_kernel_task, NoCall
    <2> QED BY Zenon, <1>0, <2>1, <2>4, <2>5 DEF Next, FreshTid
  <1>7. CASE CreateReaper
    <2>1. execution_create_task(kernel, reaper, KERNEL_REAPER_TASK_TID)
      BY Zenon, <1>7 DEF CreateReaper
    <2>2. Units(<<root>>)
      BY Zenon, <1>7 DEF CreateReaper, Returned, StartInv, Resting, RootInHand, RootAlone, ReaperInHand,
         RootLeaves, Complete, Started
    <2>3. ~task_registry_contains(reaper) /\ task_registry_contains(root) /\ root # reaper
      BY Zenon, <2>2, RuntimeObjects, Lists DEF Units
    <2>4. call' = NoCall \/ call'.tid = KERNEL_REAPER_TASK_TID
      BY Zenon, <2>1 DEF execution_create_task, NoCall, Return
    <2>5. task_registry[KERNEL_REAPER_TASK_TID] = NULL
      <3> SUFFICES ASSUME task_registry[KERNEL_REAPER_TASK_TID] # NULL PROVE FALSE
        OBVIOUS
      <3> DEFINE t == task_registry[KERNEL_REAPER_TASK_TID]
      <3>1. t \in Task /\ task[t].id = KERNEL_REAPER_TASK_TID
        BY Zenon, <1>0 DEF OwnInv, TaskTable, Types, TaskTypes
      <3>2. task_registry_contains(t)
        BY Zenon, <1>0, <3>1 DEF task_registry_contains
      <3> QED BY Zenon, <2>3, <3>1, <3>2, RuntimeObjects DEF TidsApart
    <2> QED BY Zenon, <1>0, <1>1, <2>1, <2>4, <2>5 DEF Next, FreshTid
  <1>8. CASE UndoReaper \/ UndoRoot
    <2>1. \/ UNCHANGED vars
          \/ execution_destroy_task(kernel, reaper) \/ execution_destroy_kernel_task(kernel, root)
      BY Zenon, <1>8 DEF UndoReaper, UndoRoot
    <2>2. ASSUME execution_destroy_task(kernel, reaper) \/ execution_destroy_kernel_task(kernel, root)
          PROVE  call' = NoCall \/ call'.op = "destroy"
      BY Zenon, <2>2, TeardownCall DEF execution_destroy_task, execution_destroy_kernel_task, Return
    <2> QED BY Zenon, <1>0, <1>1, <1>3, <2>1, <2>2 DEF Next, FreshTid
  <1>9. CASE InitDomains
    BY Zenon, <1>3, <1>9, DomainsAreEmpty
  <1>10. CASE \/ \E fail \in BOOLEAN : kernel_runtime_init(fail)
              \/ \E works \in BOOLEAN : clock_source_init(works)
              \/ RootCreated \/ ReaperCreated \/ Undone \/ UNCHANGED allVars
    BY Zenon, <1>3, <1>10 DEF kernel_runtime_init, clock_source_init, RootCreated, ReaperCreated, Undone,
       allVars
  <1> QED BY Zenon, <1>4, <1>5, <1>6, <1>7, <1>8, <1>9, <1>10 DEF StartupNext, RuntimeStep


\* Only a registration enters a task, under the tid of the call.
LEMMA TidsApartStep ==
  ASSUME StartupObjects, OwnInv, StartInv, TidsApart, [Next]_vars PROVE TidsApart'
  <1>0. /\ Types /\ KERNEL_RUNTIME_TASK_TID \in Tid /\ KERNEL_REAPER_TASK_TID \in Tid
        /\ KERNEL_RUNTIME_TASK_TID # KERNEL_REAPER_TASK_TID /\ root # reaper /\ NULL # root
    BY Zenon, RuntimeObjects, Nulls DEF OwnInv
  <1>1. CASE UNCHANGED task_registry
    BY Zenon, <1>1 DEF TidsApart
  <1>2. CASE task_registry_register
    <2>1. pc = "register" /\ (UNCHANGED task_registry \/ task_registry' = [task_registry EXCEPT ![call.tid] = call.task])
      BY Zenon, <1>2 DEF task_registry_register
    <2>2. \/ call.task = root /\ call.tid = KERNEL_RUNTIME_TASK_TID
          \/ call.task = reaper /\ call.tid = KERNEL_REAPER_TASK_TID
      BY Zenon, <2>1 DEF StartInv, Resting, RootInHand, RootAlone, ReaperInHand, RootLeaves, Complete,
         Started, Units, CreationOfHome, Creation, EndOfHome, Withdrawal
    <2>3. CASE task_registry' = [task_registry EXCEPT ![call.tid] = call.task]
      BY <1>0, <2>2, <2>3 DEF TidsApart, Types, TaskTypes
    <2> QED BY Zenon, <1>1, <2>1, <2>3
  <1>3. CASE task_registry_unregister
    <2>1. \/ UNCHANGED task_registry
          \/ task_registry_contains(call.task) /\ task_registry' = [task_registry EXCEPT ![task[call.task].id] = NULL]
      BY <1>3 DEF task_registry_unregister
    <2>2. CASE /\ task_registry_contains(call.task)
               /\ task_registry' = [task_registry EXCEPT ![task[call.task].id] = NULL]
      BY <1>0, <2>2 DEF TidsApart, Types, TaskTypes
    <2> QED BY Zenon, <1>1, <2>1, <2>2
  <1>4. CASE Transaction
    BY Zenon, <1>1, <1>2, <1>3, <1>4
       DEF Transaction, process_create, task_create, MapStackPage, MapStackFails, MapStackRollback,
           MapStackDone, process_attach_task, scheduler_add, runqueue_remove, process_detach_task,
           SkipDetach, task_destroy, process_terminate, process_destroy, tables
  <1>5. CASE Next /\ ~Transaction
    BY Zenon, <1>1, <1>5
       DEF Next, execution_create_task, execution_create_kernel_task, execution_destroy_task,
           execution_destroy_kernel_task, TerminateProcess, DestroyProcess, CreateProcess,
           lifecycle_reap_one, TaskRuns, TaskExits, OthersAllocate, OthersFree, tables
  <1>6. CASE UNCHANGED vars
    BY Zenon, <1>1, <1>6 DEF vars, tables
  <1> QED BY Zenon, <1>4, <1>5, <1>6

\* The units do not depend on what the runtime keeps for itself.
LEMMA UnitsKept ==
  ASSUME UNCHANGED <<task, process, task_registry, process_registry, runqueue, pc>>, NEW s
  PROVE  Units(s)' <=> Units(s)
  BY Zenon, HomeKept DEF Units, task_registry_contains, process_registry_contains

\* The published units, by the statement of the runtime.
LEMMA WhatThereIs ==
  ASSUME StartInv, pc = "idle"
  PROVE  /\ at \in {"off", "clock", "domains", "create_root"} => Resting
         /\ at = "root_created" =>
              /\ Flags(FALSE, FALSE, FALSE)
              /\ (result = "ok" /\ Units(<<root>>)) \/ (result = "refused" /\ cause /\ Units(<<>>))
         /\ at \in {"create_reaper", "undo_reaper", "undo_root"} => RootAlone
         /\ at = "reaper_created" =>
              /\ Flags(TRUE, FALSE, FALSE)
              /\ \/ result = "ok" /\ Units(<<root, reaper>>)
                 \/ result = "refused" /\ cause /\ Units(<<root>>)
         /\ at = "root_undone" => Flags(TRUE, FALSE, FALSE) /\ cause /\ result = "ok" /\ Units(<<>>)
         /\ at = "ready" => Complete
         /\ at # "reaper_undone"
  BY Zenon DEF StartInv, Resting, RootInHand, RootAlone, ReaperInHand, RootLeaves, Complete,
     Started, CreationOfHome, Creation, EndOfHome, Withdrawal

\* The statements of the runtime that call nothing.
LEMMA LocalStep ==
  ASSUME StartupObjects, StartInv, UNCHANGED vars,
         \/ \E fail \in BOOLEAN : kernel_runtime_init(fail)
         \/ \E works \in BOOLEAN : clock_source_init(works)
         \/ InitDomains \/ RootCreated \/ ReaperCreated \/ UndoReaper \/ Undone
  PROVE  StartInv'
  <1>0. /\ UNCHANGED <<task, process, task_registry, process_registry, runqueue, pc, pending, result>>
        /\ pending = <<>>
    BY Zenon DEF vars, tables, StartInv
  <1>1. \A s : Units(s)' <=> Units(s)
    BY Zenon, <1>0, UnitsKept
  <1>2. CASE \E fail \in BOOLEAN : kernel_runtime_init(fail)
    <2>1. /\ at \in {"off", "ready"} /\ UNCHANGED <<root_published, reaper_published, initialized>>
          /\ (initialized /\ at' = at) \/ (~initialized /\ at' = "clock")
      BY Zenon, <1>2 DEF kernel_runtime_init, flags
    <2>2. Resting \/ Complete
      BY Zenon, <2>1 DEF StartInv, Resting, RootInHand, RootAlone, ReaperInHand, RootLeaves, Complete, Started
    <2>3. CASE Resting
      BY Zenon, <1>0, <1>1, <2>1, <2>3 DEF Resting, Flags, StartInv
    <2>4. CASE Complete
      BY Zenon, <1>0, <1>1, <2>1, <2>4 DEF Complete, Flags, StartInv
    <2> QED BY Zenon, <2>2, <2>3, <2>4
  <1>3. CASE \E works \in BOOLEAN : clock_source_init(works)
    <2>1. /\ at = "clock" /\ UNCHANGED <<root_published, reaper_published, initialized>>
          /\ (at' = "domains") \/ (at' = "off" /\ cause')
      BY Zenon, <1>3 DEF clock_source_init, flags, Leave
    <2>2. Resting
      BY Zenon, <2>1 DEF StartInv, Resting, RootInHand, RootAlone, ReaperInHand, RootLeaves, Complete, Started
    <2> QED BY Zenon, <1>0, <1>1, <2>1, <2>2 DEF Resting, Flags, StartInv
  <1>4. CASE InitDomains
    <2>1. at = "domains" /\ at' = "create_root" /\ UNCHANGED <<root_published, reaper_published, initialized>>
      BY Zenon, <1>4 DEF InitDomains, flags
    <2>2. Resting
      BY Zenon, <2>1 DEF StartInv, Resting, RootInHand, RootAlone, ReaperInHand, RootLeaves, Complete, Started
    <2> QED BY Zenon, <1>0, <1>1, <2>1, <2>2 DEF Resting, Flags, StartInv
  <1>5. CASE RootCreated
    <2>1. /\ at = "root_created" /\ pc = "idle" /\ UNCHANGED <<reaper_published, initialized>>
          /\ \/ result # "ok" /\ at' = "off" /\ UNCHANGED <<root_published, cause>>
             \/ /\ result = "ok" /\ root_published' = TRUE
                /\ (at' = "undo_reaper" /\ cause') \/ at' = "create_reaper"
      BY Zenon, <1>5 DEF RootCreated, Returned, Leave
    <2>2. Flags(FALSE, FALSE, FALSE)
      BY Zenon, <2>1, WhatThereIs
    <2>3. CASE result = "ok"
      <3>1. Units(<<root>>)'
        BY Zenon, <1>1, <2>1, <2>3, WhatThereIs
      <3>2. RootAlone'
        BY Zenon, <2>1, <2>2, <2>3, <3>1 DEF RootAlone, Flags
      <3> QED BY Zenon, <1>0, <3>2 DEF StartInv
    <2>4. CASE result # "ok"
      <3>1. Units(<<>>)' /\ cause
        BY Zenon, <1>1, <2>1, <2>4, WhatThereIs
      <3>2. Resting'
        BY Zenon, <2>1, <2>2, <2>4, <3>1 DEF Resting, Flags
      <3> QED BY Zenon, <1>0, <3>2 DEF StartInv
    <2> QED BY Zenon, <2>3, <2>4
  <1>6. CASE ReaperCreated
    <2>1. /\ at = "reaper_created" /\ pc = "idle" /\ UNCHANGED <<root_published, cause>>
          /\ reaper_published' = (result = "ok")
          /\ (result = "ok" /\ Composed => initialized' = TRUE /\ at' = "ready")
          /\ (result # "ok" => UNCHANGED initialized /\ at' = "undo_reaper")
      BY Zenon, <1>6 DEF ReaperCreated, Returned
    <2>2. Flags(TRUE, FALSE, FALSE)
      BY Zenon, <2>1, WhatThereIs
    <2>3. CASE result = "ok"
      <3>1. Units(<<root, reaper>>)
        BY Zenon, <2>1, <2>3, WhatThereIs
      <3>2. Composed
        BY Zenon, <3>1, Lists DEF Units, ActiveHome, Home, Composed
      <3>3. Complete'
        BY Zenon, <1>1, <2>1, <2>2, <2>3, <3>1, <3>2 DEF Complete, Flags
      <3> QED BY Zenon, <1>0, <3>3 DEF StartInv
    <2>4. CASE result # "ok"
      <3>1. Units(<<root>>)' /\ cause
        BY Zenon, <1>1, <2>1, <2>4, WhatThereIs
      <3>2. RootAlone'
        BY Zenon, <2>1, <2>2, <2>4, <3>1 DEF RootAlone, Flags
      <3> QED BY Zenon, <1>0, <3>2 DEF StartInv
    <2> QED BY Zenon, <2>3, <2>4
  <1>7. CASE UndoReaper
    <2>1. /\ at = "undo_reaper" /\ pc = "idle" /\ (~reaper_published => at' = "undo_root")
          /\ UNCHANGED <<root_published, reaper_published, initialized, cause>>
      BY Zenon, <1>7 DEF UndoReaper, Returned, flags
    <2>2. RootAlone
      BY Zenon, <2>1, WhatThereIs
    <2> QED BY Zenon, <1>0, <1>1, <2>1, <2>2 DEF RootAlone, Flags, StartInv
  <1>9. CASE Undone
    <2>1. /\ pc = "idle" /\ at \in {"reaper_undone", "root_undone"}
          /\ UNCHANGED <<initialized, cause>>
          /\ at = "root_undone" =>
                root_published' = (result # "ok") /\ at' = "off" /\ UNCHANGED reaper_published
      BY Zenon, <1>9 DEF Undone, Leave
    <2>2. at = "root_undone" /\ Flags(TRUE, FALSE, FALSE) /\ cause /\ result = "ok" /\ Units(<<>>)
      BY Zenon, <2>1, WhatThereIs
    <2>3. Resting'
      BY Zenon, <1>1, <2>1, <2>2 DEF Resting, Flags
    <2> QED BY Zenon, <1>0, <2>3 DEF StartInv
  <1> QED BY Zenon, <1>2, <1>3, <1>4, <1>5, <1>6, <1>7, <1>9


\* The statements of the runtime that call the execution layer.
LEMMA CallingStep ==
  ASSUME StartupObjects, OwnInv, StartInv, CreateRoot \/ CreateReaper \/ UndoRoot \/ (UndoReaper /\ ~UNCHANGED vars)
  PROVE  StartInv'
  <1>0. pending = <<>> /\ root \in Task /\ reaper \in Task /\ kernel \in Process
    BY Zenon, RuntimeObjects DEF StartInv
  <1>1. CASE CreateRoot
    <2>1. /\ at = "create_root" /\ pc = "idle" /\ at' = "root_created"
          /\ execution_create_kernel_task(kernel, root, KERNEL_RUNTIME_PID, KERNEL_RUNTIME_TASK_TID)
          /\ UNCHANGED <<root_published, reaper_published, initialized>>
      BY Zenon, <1>1 DEF CreateRoot, Returned, flags
    <2>2. Resting
      BY Zenon, <2>1, WhatThereIs
    <2>3. /\ call'.op = "create" /\ call'.process = kernel /\ call'.task = root
          /\ call'.tid = KERNEL_RUNTIME_TASK_TID /\ call'.pid = KERNEL_RUNTIME_PID
          /\ call'.address_space = KERNEL_AS /\ call'.owns_process
      BY Zenon, <2>1 DEF execution_create_kernel_task, NoCall
    <2>4. pc' = "process_create" /\ UNCHANGED <<task, process, task_registry, process_registry, runqueue, pending>>
      BY Zenon, <2>1 DEF execution_create_kernel_task, tables
    <2>5. CreationOfHome'
      BY Zenon, <2>2, <2>3, <2>4, Lists DEF Resting, Units, CreationOfHome, task_registry_contains,
         process_registry_contains
    <2>6. RootInHand'
      BY Zenon, <2>1, <2>2, <2>5 DEF RootInHand, Resting, Flags
    <2> QED BY Zenon, <1>0, <2>4, <2>6 DEF StartInv
  <1>2. CASE CreateReaper
    <2>1. /\ at = "create_reaper" /\ pc = "idle" /\ at' = "reaper_created"
          /\ execution_create_task(kernel, reaper, KERNEL_REAPER_TASK_TID)
          /\ UNCHANGED <<root_published, reaper_published, initialized>>
      BY Zenon, <1>2 DEF CreateReaper, Returned, flags
    <2>2. RootAlone
      BY Zenon, <2>1, WhatThereIs
    <2>3. Units(<<root>>) /\ ActiveHome(<<root>>)
      BY Zenon, <2>2, Lists DEF RootAlone, Units
    <2>4. /\ call' = [NoCall EXCEPT !.op = "create", !.process = kernel,
                                    !.task = reaper, !.tid = KERNEL_REAPER_TASK_TID]
          /\ pc' = "task_create"
      BY Zenon, <2>1, <2>3 DEF execution_create_task, ActiveHome, Home
    <2>5. /\ call'.op = "create" /\ call'.process = kernel /\ call'.task = reaper
          /\ call'.tid = KERNEL_REAPER_TASK_TID /\ call'.owns_process = FALSE
      BY Zenon, <2>4 DEF NoCall
    <2>6. UNCHANGED <<task, process, task_registry, process_registry, runqueue, pending>>
      BY Zenon, <2>1 DEF execution_create_task, tables
    <2>7. ActiveHome(<<root>>)'
      BY Zenon, <2>3, <2>6, HomeKept
    <2>8. Creation(reaper, KERNEL_REAPER_TASK_TID, <<root>>)'
      BY Zenon, <2>3, <2>4, <2>5, <2>6, <2>7, Lists DEF Units, Creation, task_registry_contains
    <2>9. ReaperInHand'
      BY Zenon, <2>1, <2>2, <2>8 DEF ReaperInHand, RootAlone, Flags
    <2> QED BY Zenon, <1>0, <2>6, <2>9 DEF StartInv
  <1>3. CASE UndoRoot
    <2>1. /\ at = "undo_root" /\ pc = "idle"
          /\ (root_published => execution_destroy_kernel_task(kernel, root) /\ at' = "root_undone")
          /\ UNCHANGED <<root_published, reaper_published, initialized, cause>>
      BY Zenon, <1>3 DEF UndoRoot, Returned, flags
    <2>2. RootAlone
      BY Zenon, <2>1, WhatThereIs
    <2>3. execution_destroy_kernel_task(kernel, root) /\ at' = "root_undone" /\ cause
      BY Zenon, <2>1, <2>2 DEF RootAlone, Flags
    <2>4. /\ ActiveHome(<<root>>) /\ runqueue = <<root>> /\ task[root].state = "READY"
          /\ task_registry_contains(root) /\ ~task_registry_contains(reaper)
      BY Zenon, <2>2, Lists, RuntimeObjects DEF RootAlone, Units
    <2>5. AllOwn(root)
      BY Zenon, <1>0, <2>1, <2>4 DEF OwnInv, Settled, Whole, InHand
    <2>6. /\ process[kernel].tasks = <<root>> /\ process[kernel].state = "ACTIVE"
          /\ process_registry_contains(kernel)
      BY Zenon, <2>4 DEF ActiveHome, Home
    <2>7. task[root].process = kernel
      BY Zenon, <2>5, RuntimeObjects DEF AllOwn, InProcess
    <2>8. execution_preflight_destroy_task(kernel, root) /\ Len(process[kernel].tasks) = 1
      BY Zenon, <2>4, <2>5, <2>6, <2>7, Lists
         DEF AllOwn, FullStack, execution_preflight_destroy_task, task_validate_reclaim
    <2>9. StartTeardown("destroy", kernel, root, TRUE, "remove")
      BY Zenon, <2>3, <2>6, <2>8 DEF execution_destroy_kernel_task
    <2>10. /\ call'.op = "destroy" /\ call'.process = kernel /\ call'.task = root /\ call'.owns_process
           /\ call'.registered /\ call'.attached /\ pc' = "remove"
      BY Zenon, <1>0, <2>7, <2>9, TeardownCall, Nulls
    <2>11. UNCHANGED <<task, process, task_registry, process_registry, runqueue, pending>>
      BY Zenon, <2>3 DEF execution_destroy_kernel_task, tables
    <2>12. ActiveHome(<<root>>)'
      BY Zenon, <2>4, <2>11, HomeKept
    <2>13. Withdrawal'
      BY Zenon, <2>4, <2>10, <2>11, <2>12 DEF Withdrawal, task_registry_contains
    <2>14. RootLeaves'
      BY Zenon, <2>1, <2>2, <2>3, <2>13 DEF RootLeaves, RootAlone, Flags
    <2> QED BY Zenon, <1>0, <2>11, <2>14 DEF StartInv
  <1>4. CASE UndoReaper /\ ~UNCHANGED vars
    <2>1. at = "undo_reaper" /\ pc = "idle" /\ reaper_published
      BY Zenon, <1>4 DEF UndoReaper, Returned
    <2> QED BY Zenon, <2>1, WhatThereIs DEF RootAlone, Flags
  <1> QED BY Zenon, <1>1, <1>2, <1>3, <1>4

\* The kernel's other work between attempts, and the start.
LEMMA OutsideStep ==
  ASSUME StartupObjects, StartInv, Others \/ kernel_runtime_start
  PROVE  StartInv'
  <1>1. CASE Others
    <2>1. /\ at = "off" /\ (OthersAllocate \/ OthersFree)
          /\ UNCHANGED <<at, root_published, reaper_published, initialized, attempts, cause>>
      BY Zenon, <1>1 DEF Others, startupVars, flags
    <2>2. pc = "idle" /\ UNCHANGED <<task, process, task_registry, process_registry, runqueue, pc, pending>>
      BY Zenon, <2>1 DEF OthersAllocate, OthersFree, tables
    <2>3. Resting
      BY Zenon, <2>1, <2>2, WhatThereIs
    <2>4. Resting'
      BY Zenon, <2>1, <2>2, <2>3, UnitsKept DEF Resting, Flags
    <2> QED BY Zenon, <2>2, <2>4 DEF StartInv
  <1>2. CASE kernel_runtime_start
    <2>1. /\ at = "ready" /\ pc = "idle" /\ UNCHANGED <<pc, pending, root_published, reaper_published, initialized>>
          /\ Head(runqueue) = root => at' = "started"
      BY Zenon, <1>2 DEF kernel_runtime_start, TaskRuns, flags
    <2>2. Complete
      BY Zenon, <2>1, WhatThereIs
    <2>3. Started'
      BY Zenon, <2>1, <2>2, Lists DEF Complete, Units, Started, Flags
    <2> QED BY Zenon, <2>1, <2>3 DEF StartInv
  <1> QED BY Zenon, <1>1, <1>2
=============================================================================
