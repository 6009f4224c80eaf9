------------------------ MODULE ExecutionStepProofs -------------------------
(***************************************************************************)
(* OwnInv is preserved by publication, by every statement of a teardown,   *)
(* and by the steps between the transactions.  Then what each step does to *)
(* the published units, the abstract state of Ownership.                   *)
(***************************************************************************)
EXTENDS ExecutionInvariants

(* Publication.                                                            *)
LEMMA task_registry_registerOwn == ASSUME OwnInv, Types', task_registry_register PROVE OwnInv'
  <1>0. /\ Types /\ InHand /\ pc = "register"
        /\ UNCHANGED <<task, process, process_registry, process_registry_count, runqueue, pending,
                       memory, result>>
    BY Zenon DEF task_registry_register, OwnInv, InHand
  <1>1. PICK t \in Task, s \in Tid : t = call.task /\ s = call.tid
    BY Zenon, <1>0 DEF Types, Control
  <1>2. Subject(t)
    BY Zenon, <1>0, <1>1 DEF OwnInv, Hand
  <1>3. /\ task[t].id = s /\ mapped[s] = task[t].pages
        /\ task_registry[s] = NULL /\ call.op = "create" /\ ~call.registered /\ ~call.attached
        /\ NoProcess(t) /\ t \notin Elems(runqueue) /\ t \notin Elems(pending)
        /\ FullStack(t) /\ task[t].state = "READY"
    BY Zenon, <1>0, <1>1, <1>2 DEF Subject, Joined, Listed, Types, Control
  <1>4. NoProcess(t)' /\ FullStack(t)'
    BY Zenon, <1>0, <1>3, SameProcesses DEF NoProcess, FullStack, memory
  <1>5. ProcessTable' /\ Queues'
    BY Zenon, <1>0 DEF OwnInv, ProcessTable, Queues, Distinct
  <1>6. CASE pc' = "detach" /\ UNCHANGED <<task_registry, task_registry_active_count, call>>
    <2>1. ASSUME NEW u \in Task, u # t PROVE Whole(u)'
      BY Zenon, <1>0, <1>1, <1>6, <2>1, Undisturbed, SameProcesses, SameTasks DEF OwnInv, Settled, memory
    <2>2. Subject(t)'
      BY Zenon, <1>0, <1>1, <1>3, <1>4, <1>6 DEF Subject, Joined, Listed, memory
    <2>3. TaskTable' /\ Slots'
      BY Zenon, <1>0, <1>6 DEF OwnInv, TaskTable, Slots, InHand, memory
    <2>4. Owner'
      BY Zenon, <1>0, <1>3, <1>6 DEF OwnInv, Owner, Joined, process_registry_contains
    <2>5. Settled' /\ Hand' /\ Fresh' /\ Unbroken'
      BY Zenon, <1>0, <1>1, <1>6, <2>1, <2>2 DEF OwnInv, Settled, Hand, InHand, Fresh, Unbroken
    <2> QED BY Zenon, <1>5, <2>3, <2>4, <2>5 DEF OwnInv
  <1>7. CASE /\ task_registry' = [task_registry EXCEPT ![call.tid] = call.task]
             /\ task_registry_active_count' = task_registry_active_count + 1
             /\ call' = [call EXCEPT !.registered = TRUE]
             /\ pc' = "attach"
    <2>1. /\ call'.op = call.op /\ call'.task = t /\ call'.tid = s /\ call'.process = call.process
          /\ call'.owns_process = call.owns_process /\ call'.attached = call.attached
      BY Zenon, <1>0, <1>1, <1>7 DEF Types, Control, CallRecord
    <2>2. task_registry'[s] = t /\ \A i \in Tid : i # s => task_registry'[i] = task_registry[i]
      BY Zenon, <1>0, <1>1, <1>7 DEF Types, TaskTypes
    <2>3. ASSUME NEW u \in Task, u # t PROVE Whole(u)'
      <3>1. Whole(u)
        BY Zenon, <1>1, <2>3 DEF OwnInv, Settled
      <3>2. task_registry_contains(u)' <=> task_registry_contains(u)
        BY Zenon, <1>0, <1>3, <2>2, <2>3, Nulls DEF task_registry_contains
      <3> QED BY Zenon, <1>0, <3>1, <3>2, Undisturbed, SameProcesses DEF memory
    <2>4. Subject(t)'
      BY Zenon, <1>0, <1>3, <1>4, <1>7, <2>1, <2>2 DEF Subject, Joined, Listed, memory
    <2>5. TaskTable'
      BY Zenon, <1>0, <1>3, <1>7, <2>2 DEF OwnInv, TaskTable
    <2>6. Slots'
      BY SMTT(30), <1>0, <1>1, <1>3, <2>1, <2>2, <1>7 DEF OwnInv, Slots, InHand, memory
    <2>7. Owner'
      BY Zenon, <1>0, <1>7, <2>1 DEF OwnInv, Owner, Joined, process_registry_contains
    <2>8. Settled' /\ Hand' /\ Fresh' /\ Unbroken'
      BY Zenon, <1>0, <1>7, <2>1, <2>3, <2>4 DEF OwnInv, Settled, Hand, InHand, Fresh, Unbroken
    <2> QED BY Zenon, <1>5, <2>5, <2>6, <2>7, <2>8 DEF OwnInv
  <1> QED BY Zenon, <1>6, <1>7 DEF task_registry_register

\* process_attach_task joins the task to its process, or starts the teardown.
LEMMA process_attach_taskOwn == ASSUME OwnInv, Types', process_attach_task PROVE OwnInv'
  <1>0. /\ Types /\ InHand /\ pc = "attach"
        /\ UNCHANGED <<tables, runqueue, pending, memory, result>>
    BY Zenon DEF process_attach_task, OwnInv, InHand
  <1>1. PICK t \in Task, p \in Process, s \in Tid : t = call.task /\ p = call.process /\ s = call.tid
    BY Zenon, <1>0 DEF Types, Control
  <1>2. Subject(t)
    BY Zenon, <1>0, <1>1 DEF OwnInv, Hand
  <1>3. /\ task[t].id = s /\ mapped[s] = task[t].pages
        /\ task_registry[s] = t /\ call.op = "create" /\ call.registered /\ ~call.attached
        /\ NoProcess(t) /\ t \notin Elems(runqueue) /\ t \notin Elems(pending)
        /\ FullStack(t) /\ task[t].state = "READY"
    BY Zenon, <1>0, <1>1, <1>2 DEF Subject, Joined, Listed, Types, Control
  <1>4. CASE UNCHANGED <<task, process, call>> /\ pc' = "detach"
    <2>1. ASSUME NEW u \in Task, u # t PROVE Whole(u)'
      BY Zenon, <1>0, <1>1, <1>4, <2>1, Undisturbed, SameProcesses, SameTasks DEF OwnInv, Settled, tables, memory
    <2>2. NoProcess(t)' /\ FullStack(t)'
      BY Zenon, <1>0, <1>3, <1>4, SameProcesses DEF NoProcess, FullStack, tables, memory
    <2>3. Subject(t)'
      BY Zenon, <1>0, <1>1, <1>3, <1>4, <2>2 DEF Subject, Joined, Listed, tables, memory
    <2>4. TaskTable' /\ ProcessTable' /\ Slots' /\ Queues'
      BY <1>0, <1>4 DEF OwnInv, TaskTable, ProcessTable, Queues, Distinct, Slots, InHand, tables, memory
    <2>5. Owner'
      BY Zenon, <1>0, <1>3, <1>4 DEF OwnInv, Owner, Joined, process_registry_contains, tables
    <2>6. Settled' /\ Hand' /\ Fresh' /\ Unbroken'
      BY Zenon, <1>0, <1>1, <1>4, <2>1, <2>3 DEF OwnInv, Settled, Hand, InHand, Fresh, Unbroken
    <2> QED BY Zenon, <2>4, <2>5, <2>6 DEF OwnInv
  <1>5. CASE /\ process_registry_contains(p) /\ process[p].state = "ACTIVE" /\ t \notin Members(p)
             /\ SetMembers(p, Append(process[p].tasks, t))
             /\ SetOwner(t, p)
             /\ call' = [call EXCEPT !.attached = TRUE] /\ pc' = "add"
    <2>1. /\ call'.op = call.op /\ call'.task = t /\ call'.tid = s /\ call'.process = p
          /\ call'.owns_process = call.owns_process
      BY Zenon, <1>0, <1>1, <1>5 DEF Types, Control, CallRecord
    <2>2. /\ task'[t].id = s /\ task'[t].state = "READY" /\ task'[t].process = p
          /\ task'[t].stack = task[t].stack /\ task'[t].pages = task[t].pages
          /\ \A u \in Task : u # t => task'[u] = task[u]
      BY <1>3, <1>5 DEF SetOwner, Becomes
    <2>3. /\ process'[p].id = process[p].id /\ process'[p].state = "ACTIVE"
          /\ process'[p].tasks = Append(process[p].tasks, t)
          /\ \A q \in Process : q # p => process'[q] = process[q]
      BY <1>5 DEF SetMembers, Turns
    <2>4. process[p].tasks \in Seq(Task) /\ Distinct(process[p].tasks)
      BY Zenon, <1>0 DEF Types, ProcessTypes, ProcessRecord, OwnInv, Queues
    <2>5. /\ Members(p)' = Members(p) \cup {t} /\ Distinct(process'[p].tasks)
          /\ Len(process'[p].tasks) = Len(process[p].tasks) + 1
      BY SMTT(30), <1>5, <2>3, <2>4, Appended DEF Members
    <2>6. \A q \in Process : q # p => Members(q)' = Members(q)
      BY Zenon, <2>3 DEF Members
    <2>7. /\ ProcessTable'
          /\ \A q \in Process : process_registry_contains(q)' <=> process_registry_contains(q)
      BY Zenon, <1>0, <2>3, ProcessTableKept DEF OwnInv, tables
    <2>8. TaskTable' /\ \A u \in Task : task_registry_contains(u)' <=> task_registry_contains(u)
      <3>1. \A u \in Task : task'[u].id = task[u].id
        BY Zenon, <1>3, <2>2
      <3> QED BY Zenon, <1>0, <3>1, TaskTableKept DEF OwnInv, tables
    <2>9. ASSUME NEW u \in Task, u # t PROVE Whole(u)'
      <3>1. Whole(u) /\ task'[u] = task[u]
        BY Zenon, <1>1, <2>2, <2>9 DEF OwnInv, Settled
      <3>2. \A q \in Process : u \in Members(q)' <=> u \in Members(q)
        BY Zenon, <2>5, <2>6, <2>9
      <3> QED BY Zenon, <1>0, <2>7, <2>8, <3>1, <3>2, Undisturbed DEF memory
    <2>10. InProcess(t, p)'
      BY Zenon, <1>3, <1>5, <2>2, <2>5, <2>6, <2>7 DEF InProcess, NoProcess
    <2>11. FullStack(t)'
      BY Zenon, <1>0, <1>3, <2>2 DEF FullStack, memory
    <2>12. Subject(t)'
      BY SMTT(30), <1>0, <1>3, <1>5, <2>1, <2>2, <2>10, <2>11 DEF Subject, Joined, Listed, tables, memory
    <2>13. Queues'
      BY Zenon, <1>0, <2>3, <2>5 DEF OwnInv, Queues, Distinct
    <2>14. Slots'
      BY <1>0, <1>1, <1>3, <1>5, <2>1, <2>2 DEF OwnInv, Slots, InHand, tables, memory
    <2>15. Owner'
      <3>1. call.owns_process => Len(process[p].tasks) = 0
        BY Zenon, <1>0, <1>1, <1>3 DEF OwnInv, Owner, Joined
      <3>2. process_registry_contains(call.process)'
        BY Zenon, <1>5, <2>1, <2>7 DEF process_registry_contains
      <3>3. call.owns_process => Len(process'[p].tasks) = 1
        BY <2>5, <3>1
      <3>4. Joined' /\ pc' # "process_destroy"
        BY Zenon, <1>5 DEF Joined
      <3> QED BY Zenon, <2>1, <2>3, <3>2, <3>3, <3>4 DEF Owner
    <2>16. Settled' /\ Hand' /\ Fresh' /\ Unbroken'
      BY Zenon, <1>0, <1>5, <2>1, <2>9, <2>12 DEF OwnInv, Settled, Hand, InHand, Fresh, Unbroken
    <2> QED BY Zenon, <2>7, <2>8, <2>13, <2>14, <2>15, <2>16 DEF OwnInv
  <1> QED BY Zenon, <1>0, <1>1, <1>4, <1>5, Attached DEF Members

\* scheduler_add lets go of a task with all its owners, or starts the teardown.
LEMMA scheduler_addOwn == ASSUME OwnInv, Types', scheduler_add PROVE OwnInv'
  <1>0. /\ Types /\ InHand /\ pc = "add"
        /\ UNCHANGED <<process, tables, pending, memory>>
    BY Zenon DEF scheduler_add, OwnInv, InHand
  <1>1. PICK t \in Task, p \in Process, s \in Tid : t = call.task /\ p = call.process /\ s = call.tid
    BY Zenon, <1>0 DEF Types, Control
  <1>2. Subject(t)
    BY Zenon, <1>0, <1>1 DEF OwnInv, Hand
  <1>3. /\ task[t].id = s /\ mapped[s] = task[t].pages
        /\ task_registry[s] = t /\ call.op = "create" /\ call.registered /\ call.attached
        /\ InProcess(t, p) /\ t \notin Elems(runqueue) /\ t \notin Elems(pending)
        /\ FullStack(t) /\ task[t].state = "READY"
    BY Zenon, <1>0, <1>1, <1>2 DEF Subject, Joined, Listed, Types, Control
  <1>4. ProcessTable'
    BY Zenon, <1>0 DEF OwnInv, ProcessTable, tables
  <1>5. CASE UNCHANGED <<runqueue, task, call, result>> /\ pc' = "detach"
    <2>1. ASSUME NEW u \in Task, u # t PROVE Whole(u)'
      BY Zenon, <1>0, <1>1, <1>5, <2>1, Undisturbed, SameProcesses, SameTasks DEF OwnInv, Settled, tables, memory
    <2>2. InProcess(t, p)' /\ FullStack(t)'
      BY Zenon, <1>0, <1>3, <1>5, SameProcesses DEF InProcess, FullStack, tables, memory
    <2>3. Subject(t)'
      BY Zenon, <1>0, <1>1, <1>3, <1>5, <2>2 DEF Subject, Joined, Listed, tables, memory
    <2>4. TaskTable' /\ Slots' /\ Queues'
      BY SMTT(30), <1>0, <1>5 DEF OwnInv, TaskTable, Queues, Distinct, Slots, InHand, tables, memory
    <2>5. Owner'
      BY Zenon, <1>0, <1>3, <1>5 DEF OwnInv, Owner, Joined, process_registry_contains, tables
    <2>6. Settled' /\ Hand' /\ Fresh' /\ Unbroken'
      BY Zenon, <1>0, <1>1, <1>5, <2>1, <2>3 DEF OwnInv, Settled, Hand, InHand, Fresh, Unbroken
    <2> QED BY Zenon, <1>4, <2>4, <2>5, <2>6 DEF OwnInv
  <1>6. CASE /\ runqueue' = Append(runqueue, t)
             /\ SetMode(t, "MANAGED")
             /\ Return("ok")
    <2>1. /\ task'[t].id = s /\ task'[t].state = "READY" /\ task'[t].process = task[t].process
          /\ task'[t].stack = task[t].stack /\ task'[t].pages = task[t].pages
          /\ task'[t].mode = "MANAGED"
          /\ \A u \in Task : u # t => task'[u] = task[u]
      BY SMTT(30), <1>3, <1>6 DEF SetMode, Becomes
    <2>2. Elems(runqueue') = Elems(runqueue) \cup {t} /\ Distinct(runqueue')
      BY Zenon, <1>0, <1>3, <1>6, Appended DEF Types, TaskTypes, OwnInv, Queues
    <2>3. TaskTable' /\ \A u \in Task : task_registry_contains(u)' <=> task_registry_contains(u)
      <3>1. \A u \in Task : task'[u].id = task[u].id
        BY SMTT(30), <1>3, <2>1
      <3> QED BY Zenon, <1>0, <3>1, TaskTableKept DEF OwnInv, tables
    <2>4. ASSUME NEW u \in Task, u # t PROVE Whole(u)'
      <3>1. Whole(u) /\ task'[u] = task[u]
        BY Zenon, <1>1, <2>1, <2>4 DEF OwnInv, Settled
      <3> QED BY Zenon, <1>0, <2>2, <2>3, <2>4, <3>1, Undisturbed, SameProcesses DEF tables, memory
    <2>5. Whole(t)'
      <3>1. InProcess(t, p)' /\ FullStack(t)' /\ task'[t].process = p
        BY SMTT(30), <1>0, <1>3, <2>1, SameProcesses DEF InProcess, FullStack, tables, memory
      <3>2. task_registry_contains(t)'
        BY Zenon, <1>0, <1>3, <2>1 DEF task_registry_contains, tables
      <3> QED BY Zenon, <1>0, <1>3, <2>1, <2>2, <3>1, <3>2 DEF Whole, AllOwn
    <2>6. Slots'
      BY SMTT(30), <1>0, <1>1, <1>3, <2>1, Nulls DEF OwnInv, Slots, tables, memory
    <2>7. Queues'
      BY Zenon, <1>0, <2>2 DEF OwnInv, Queues
    <2>8. Settled' /\ Hand' /\ Fresh' /\ Owner' /\ Unbroken'
      BY Zenon, <1>6, <2>4, <2>5 DEF Settled, Return, Hand, InHand, Fresh, Owner, Unbroken
    <2> QED BY Zenon, <1>4, <2>3, <2>6, <2>7, <2>8 DEF OwnInv
  <1> QED BY Zenon, <1>0, <1>1, <1>5, <1>6, Admitted

(* Withdrawal.                                                             *)
LEMMA runqueue_removeOwn == ASSUME OwnInv, Types', runqueue_remove PROVE OwnInv'
  <1>0. /\ Types /\ InHand /\ pc = "remove"
        /\ UNCHANGED <<task, process, tables, pending, memory>>
    BY Zenon DEF runqueue_remove, OwnInv, InHand
  <1>1. PICK t \in Task, p \in Process : t = call.task /\ p = call.process
    BY Zenon, <1>0 DEF Types, Control
  <1>2. Subject(t) /\ call.op = "destroy" /\ call.registered /\ call.attached
    BY Zenon, <1>0, <1>1 DEF OwnInv, Hand, Types, Control
  <1>3. /\ task[t].id \in Tid /\ mapped[task[t].id] = task[t].pages /\ task_registry[task[t].id] = t
        /\ InProcess(t, p) /\ t \in Elems(runqueue) /\ t \notin Elems(pending)
        /\ FullStack(t) /\ task[t].state = "READY"
    BY Zenon, <1>0, <1>1, <1>2 DEF Subject, Joined, Listed
  <1>4. /\ runqueue' = WithoutTask(runqueue, t)
        /\ pc' = "detach" /\ UNCHANGED <<call, result>>
    BY Zenon, <1>1, <1>3 DEF runqueue_remove
  <1>5. Elems(runqueue') = Elems(runqueue) \ {t} /\ Distinct(runqueue')
    BY Zenon, <1>0, <1>3, <1>4, Removed DEF Types, TaskTypes, OwnInv, Queues
  <1>6. ASSUME NEW u \in Task, u # t PROVE Whole(u)'
    <2>1. Whole(u)
      BY Zenon, <1>1, <1>6 DEF OwnInv, Settled
    <2> QED BY Zenon, <1>0, <1>5, <1>6, <2>1, Undisturbed, SameProcesses, SameTasks DEF tables, memory
  <1>7. InProcess(t, p)' /\ FullStack(t)'
    BY Zenon, <1>0, <1>3, SameProcesses DEF InProcess, FullStack, tables, memory
  <1>8. Subject(t)'
    BY Zenon, <1>0, <1>1, <1>2, <1>3, <1>4, <1>5, <1>7 DEF Subject, Joined, Listed, tables, memory
  <1>9. TaskTable' /\ ProcessTable' /\ Slots'
    BY Zenon, <1>0, <1>4 DEF OwnInv, TaskTable, ProcessTable, Slots, InHand, tables, memory
  <1>10. Queues'
    BY Zenon, <1>0, <1>5 DEF OwnInv, Queues
  <1>11. Owner'
    BY Zenon, <1>0, <1>2, <1>4 DEF OwnInv, Owner, Joined, process_registry_contains, tables
  <1>12. Settled' /\ Hand' /\ Fresh' /\ Unbroken'
    BY Zenon, <1>0, <1>1, <1>4, <1>6, <1>8 DEF OwnInv, Settled, Hand, InHand, Fresh, Unbroken
  <1> QED BY Zenon, <1>9, <1>10, <1>11, <1>12 DEF OwnInv

\* process_detach_task is never refused once a teardown is under way.
LEMMA process_detach_taskOwn == ASSUME OwnInv, Types', process_detach_task PROVE OwnInv'
  <1>0. /\ Types /\ InHand /\ pc = "detach" /\ call.attached
        /\ UNCHANGED <<tables, runqueue, pending, memory>>
    BY Zenon DEF process_detach_task, OwnInv, InHand
  <1>1. PICK t \in Task, p \in Process : t = call.task /\ p = call.process
    BY Zenon, <1>0, Detached
  <1>2. Subject(t)
    BY Zenon, <1>0, <1>1 DEF OwnInv, Hand
  <1>3. /\ task[t].id \in Tid /\ mapped[task[t].id] = task[t].pages
        /\ task_registry[task[t].id] = IF call.registered THEN t ELSE NULL
        /\ InProcess(t, p) /\ t \notin Elems(runqueue)
        /\ IF call.op = "reap" THEN pending # <<>> /\ Head(pending) = t ELSE t \notin Elems(pending)
        /\ FullStack(t) /\ task[t].state = IF call.op = "reap" THEN "TERMINATED" ELSE "READY"
    BY Zenon, <1>0, <1>1, <1>2 DEF Subject, Joined, Listed
  <1>4. PICK i \in 1..Len(process[p].tasks) :
          /\ process[p].tasks[i] = t
          /\ SetMembers(p, SwapOut(process[p].tasks, i))
          /\ SetOwner(t, NULL)
          /\ pc' = "unregister" /\ UNCHANGED <<call, result>>
    <2>1. /\ process_registry_contains(p) /\ t \in Elems(process[p].tasks) /\ task[t].process = p
      BY Zenon, <1>3 DEF InProcess, Members
    <2> QED BY Zenon, <1>0, <1>1, <2>1, Detached
  <1>5. /\ task'[t].id = task[t].id /\ task'[t].state = task[t].state /\ task'[t].process = NULL
        /\ task'[t].stack = task[t].stack /\ task'[t].pages = task[t].pages
        /\ \A u \in Task : u # t => task'[u] = task[u]
    BY <1>4 DEF SetOwner, Becomes
  <1>6. /\ process'[p].id = process[p].id /\ process'[p].state = process[p].state
        /\ process'[p].tasks = SwapOut(process[p].tasks, i)
        /\ \A q \in Process : q # p => process'[q] = process[q]
    BY <1>4 DEF SetMembers, Turns
  <1>7. process[p].tasks \in Seq(Task) /\ Distinct(process[p].tasks)
    BY Zenon, <1>0 DEF Types, ProcessTypes, ProcessRecord, OwnInv, Queues
  <1>8. /\ Members(p)' = Members(p) \ {t} /\ Distinct(process'[p].tasks)
        /\ Len(process'[p].tasks) = Len(process[p].tasks) - 1
    BY Zenon, <1>4, <1>6, <1>7, SwappedOut DEF Members
  <1>9. \A q \in Process : q # p => Members(q)' = Members(q)
    BY Zenon, <1>6 DEF Members
  <1>10. /\ ProcessTable'
         /\ \A q \in Process : process_registry_contains(q)' <=> process_registry_contains(q)
    BY Zenon, <1>0, <1>6, ProcessTableKept DEF OwnInv, tables
  <1>11. TaskTable' /\ \A u \in Task : task_registry_contains(u)' <=> task_registry_contains(u)
    <2>1. \A u \in Task : task'[u].id = task[u].id
      BY Zenon, <1>5
    <2> QED BY Zenon, <1>0, <2>1, TaskTableKept DEF OwnInv, tables
  <1>12. ASSUME NEW u \in Task, u # t PROVE Whole(u)'
    <2>1. Whole(u) /\ task'[u] = task[u]
      BY Zenon, <1>1, <1>5, <1>12 DEF OwnInv, Settled
    <2>2. \A q \in Process : u \in Members(q)' <=> u \in Members(q)
      BY Zenon, <1>8, <1>9, <1>12
    <2> QED BY Zenon, <1>0, <1>10, <1>11, <2>1, <2>2, Undisturbed DEF memory
  <1>13. NoProcess(t)'
    BY Zenon, <1>3, <1>5, <1>8, <1>9 DEF InProcess, NoProcess
  <1>14. FullStack(t)'
    BY Zenon, <1>0, <1>3, <1>5 DEF FullStack, memory
  <1>15. Subject(t)'
    BY Zenon, <1>0, <1>1, <1>3, <1>4, <1>5, <1>13, <1>14 DEF Subject, Joined, Listed, tables, memory
  <1>16. Queues'
    <2>1. \A q \in Process : Distinct(process'[q].tasks)
      BY Zenon, <1>6, <1>8 DEF OwnInv, Queues
    <2> QED BY Zenon, <1>0, <2>1 DEF OwnInv, Queues, Distinct
  <1>17. Slots'
    BY Zenon, <1>0, <1>1, <1>4, <1>5 DEF OwnInv, Slots, InHand, tables, memory
  <1>18. Owner'
    <2>1. call.owns_process => Len(process[p].tasks) = 1 /\ process[p].state = "ACTIVE"
      BY Zenon, <1>0, <1>1 DEF OwnInv, Owner, Joined
    <2>2. process_registry_contains(call.process)'
      BY Zenon, <1>1, <1>3, <1>4, <1>10 DEF process_registry_contains, InProcess
    <2> QED BY SMTT(30), <1>1, <1>4, <1>6, <1>8, <2>1, <2>2 DEF Owner, Joined
  <1>19. Settled' /\ Hand' /\ Fresh' /\ Unbroken'
    BY Zenon, <1>0, <1>1, <1>4, <1>12, <1>15 DEF OwnInv, Settled, Hand, InHand, Fresh, Unbroken
  <1> QED BY Zenon, <1>10, <1>11, <1>16, <1>17, <1>18, <1>19 DEF OwnInv

\* A teardown skips the detachment of a task that was never attached.
LEMMA SkipDetachOwn == ASSUME OwnInv, Types', SkipDetach PROVE OwnInv'
  <1>0. /\ Types /\ InHand /\ pc = "detach" /\ ~call.attached /\ pc' = "unregister"
        /\ UNCHANGED <<task, process, tables, runqueue, pending, memory, call, result>>
    BY Zenon DEF SkipDetach, OwnInv, InHand
  <1>1. PICK t \in Task : t = call.task
    BY Zenon, <1>0 DEF Types, Control
  <1>2. Subject(t)
    BY Zenon, <1>0, <1>1 DEF OwnInv, Hand
  <1>3. NoProcess(t)' /\ FullStack(t)'
    BY Zenon, <1>0, <1>2, SameProcesses DEF Subject, NoProcess, FullStack, Joined, tables, memory
  <1>4. Subject(t)'
    BY Zenon, <1>0, <1>1, <1>2, <1>3 DEF Subject, Joined, Listed, tables, memory
  <1>5. ASSUME NEW u \in Task, u # t PROVE Whole(u)'
    BY Zenon, <1>0, <1>1, <1>5, Undisturbed, SameProcesses, SameTasks DEF OwnInv, Settled, tables, memory
  <1>6. TaskTable' /\ ProcessTable' /\ Queues' /\ Slots'
    BY SMTT(30), <1>0 DEF OwnInv, TaskTable, ProcessTable, Queues, Distinct, Slots, InHand, tables, memory
  <1>7. Owner'
    BY Zenon, <1>0 DEF OwnInv, Owner, Joined, process_registry_contains, tables
  <1>8. Settled' /\ Hand' /\ Fresh' /\ Unbroken'
    BY Zenon, <1>0, <1>1, <1>4, <1>5 DEF OwnInv, Settled, Hand, InHand, Fresh, Unbroken
  <1> QED BY Zenon, <1>6, <1>7, <1>8 DEF OwnInv

\* task_registry_unregister takes out the task's own entry.
LEMMA task_registry_unregisterOwn ==
  ASSUME OwnInv, Room, Types', task_registry_unregister
  PROVE  OwnInv'
  <1>0. /\ Types /\ InHand /\ pc = "unregister"
        /\ UNCHANGED <<task, process, process_registry, process_registry_count, runqueue, pending, memory>>
    BY Zenon DEF task_registry_unregister, OwnInv, InHand
  <1>1. PICK t \in Task : t = call.task
    BY Zenon, <1>0 DEF Types, Control
  <1>2. Subject(t)
    BY Zenon, <1>0, <1>1 DEF OwnInv, Hand
  <1>3. PICK s \in Tid :
        /\ s = task[t].id /\ mapped[s] = task[t].pages
        /\ task_registry[s] = IF call.registered THEN t ELSE NULL
        /\ NoProcess(t) /\ t \notin Elems(runqueue)
        /\ IF call.op = "reap" THEN pending # <<>> /\ Head(pending) = t ELSE t \notin Elems(pending)
        /\ FullStack(t) /\ task[t].state = IF call.op = "reap" THEN "TERMINATED" ELSE "READY"
    BY Zenon, <1>0, <1>1, <1>2 DEF Subject, Joined, Listed
  <1>4. NoProcess(t)' /\ FullStack(t)'
    BY Zenon, <1>0, <1>3, SameProcesses DEF NoProcess, FullStack, memory
  <1>5. ProcessTable' /\ Queues'
    BY Zenon, <1>0 DEF OwnInv, ProcessTable, Queues, Distinct
  <1>7. /\ pc' = "destroy" /\ UNCHANGED <<call, result>>
        /\ \/ ~call.registered /\ UNCHANGED <<task_registry, task_registry_active_count>>
           \/ /\ call.registered
              /\ task_registry' = [task_registry EXCEPT ![s] = NULL]
              /\ task_registry_active_count' = task_registry_active_count - 1
    <2>1. call.registered => task_registry_contains(call.task) /\ task_registry_active_count # 0
      BY Zenon, <1>1, <1>3 DEF task_registry_contains, Room
    <2> QED BY Zenon, <1>1, <1>3, <2>1 DEF task_registry_unregister
  <1>8. task_registry'[s] = NULL /\ \A i \in Tid : i # s => task_registry'[i] = task_registry[i]
    BY Zenon, <1>0, <1>3, <1>7 DEF Types, TaskTypes
  <1>9. ASSUME NEW u \in Task, u # t PROVE Whole(u)'
    <2>1. Whole(u)
      BY Zenon, <1>1, <1>9 DEF OwnInv, Settled
    <2>2. task_registry_contains(u)' <=> task_registry_contains(u)
      BY SMTT(30), <1>0, <1>3, <1>8, <1>9, Nulls DEF task_registry_contains
    <2> QED BY Zenon, <1>0, <2>1, <2>2, Undisturbed, SameProcesses DEF memory
  <1>10. Subject(t)'
    BY Zenon, <1>0, <1>1, <1>3, <1>4, <1>7, <1>8 DEF Subject, Joined, Listed, memory
  <1>11. TaskTable'
    BY Zenon, <1>0, <1>7, <1>8 DEF OwnInv, TaskTable
  <1>12. Slots'
    BY SMTT(30), <1>0, <1>1, <1>3, <1>7, <1>8 DEF OwnInv, Slots, InHand, memory
  <1>13. Owner'
    BY Zenon, <1>0, <1>7 DEF OwnInv, Owner, Joined, process_registry_contains
  <1>14. Settled' /\ Hand' /\ Fresh' /\ Unbroken'
    BY Zenon, <1>0, <1>1, <1>7, <1>9, <1>10 DEF OwnInv, Settled, Hand, InHand, Fresh, Unbroken
  <1> QED BY Zenon, <1>5, <1>11, <1>12, <1>13, <1>14 DEF OwnInv

\* task_destroy finds no owner left, and leaves a task nobody owns.
LEMMA task_destroyOwn == ASSUME OwnInv, Types', task_destroy PROVE OwnInv'
  <1>0. /\ Types /\ InHand /\ pc = "destroy"
        /\ UNCHANGED <<process, tables, runqueue, others>>
    BY Zenon DEF task_destroy, OwnInv, InHand
  <1>1. PICK t \in Task : t = call.task
    BY Zenon, <1>0 DEF Types, Control
  <1>2. Subject(t)
    BY Zenon, <1>0, <1>1 DEF OwnInv, Hand
  <1>3. PICK s \in Tid :
        /\ s = task[t].id /\ mapped[s] = task[t].pages /\ task_registry[s] = NULL
        /\ NoProcess(t) /\ t \notin Elems(runqueue)
        /\ IF call.op = "reap" THEN pending # <<>> /\ Head(pending) = t ELSE t \notin Elems(pending)
        /\ FullStack(t) /\ task[t].state \in {"READY", "TERMINATED"} /\ task[t].stack = s
    BY Zenon, <1>0, <1>1, <1>2 DEF Subject, Joined, Listed, FullStack
  <1>4. /\ mapped' = [mapped EXCEPT ![s] = NoPages]
        /\ Retire(t)
        /\ pending' = IF call.op = "reap" THEN Tail(pending) ELSE pending
        /\ \/ call.owns_process /\ pc' = "terminate" /\ UNCHANGED <<call, result>>
           \/ ~call.owns_process /\ pc' = "idle" /\ result' = Outcome
    <2>1. task_validate_reclaim(t) /\ task[t].process = NULL /\ ~task_registry_contains(t)
      BY Zenon, <1>3, Nulls DEF task_validate_reclaim, NoProcess, task_registry_contains
    <2>2. s # 0
      BY Zenon, <1>3, Tids
    <2> QED BY Zenon, <1>0, <1>1, <1>3, <2>1, <2>2, Destroyed DEF Return
  <1>5. /\ task'[t].id = s /\ task'[t].state = "TERMINATED" /\ task'[t].process = NULL
        /\ task'[t].stack = 0 /\ task'[t].pages = NoPages
        /\ \A u \in Task : u # t => task'[u] = task[u]
    BY SMTT(30), <1>3, <1>4 DEF Retire, Becomes, NoProcess
  <1>6. mapped'[s] = NoPages /\ \A i \in Tid : i # s => mapped'[i] = mapped[i]
    BY Zenon, <1>0, <1>3, <1>4 DEF Types, MemoryTypes
  <1>7. Elems(pending') = Elems(pending) \ {t} /\ Distinct(pending')
    <2>1. CASE call.op = "reap"
      BY Zenon, <1>0, <1>3, <1>4, <2>1, HeadTaken DEF Types, TaskTypes, OwnInv, Queues
    <2>2. CASE call.op # "reap"
      BY Zenon, <1>3, <1>4, <2>2 DEF OwnInv, Queues
    <2> QED BY Zenon, <2>1, <2>2
  <1>8. TaskTable' /\ ProcessTable' /\ \A u \in Task : task_registry_contains(u)' <=> task_registry_contains(u)
    <2>1. \A u \in Task : task'[u].id = task[u].id
      BY Zenon, <1>3, <1>5
    <2> QED BY Zenon, <1>0, <2>1, TaskTableKept, ProcessTableKept DEF OwnInv, tables
  <1>9. ASSUME NEW u \in Task, u # t PROVE Whole(u)'
    <2>1. Whole(u) /\ task'[u] = task[u]
      BY Zenon, <1>1, <1>5, <1>9 DEF OwnInv, Settled
    <2>2. task_registry_contains(u) => mapped'[task[u].id] = mapped[task[u].id]
      BY Zenon, <1>3, <1>6, Nulls DEF task_registry_contains
    <2> QED BY Zenon, <1>0, <1>7, <1>8, <1>9, <2>1, <2>2, Undisturbed, SameProcesses DEF tables
  <1>10. Whole(t)'
    <2>1. NoProcess(t)'
      BY Zenon, <1>0, <1>3, <1>5, SameProcesses DEF NoProcess, tables
    <2>2. ~task_registry_contains(t)'
      BY Zenon, <1>0, <1>3, <1>5, Nulls DEF task_registry_contains, tables
    <2> QED BY Zenon, <1>0, <1>3, <1>5, <1>7, <2>1, <2>2 DEF Whole, NoneOwns
  <1>11. Slots'
    BY Zenon, <1>0, <1>1, <1>3, <1>6 DEF OwnInv, Slots, tables
  <1>12. Queues'
    BY Zenon, <1>0, <1>7 DEF OwnInv, Queues
  <1>13. Owner'
    BY Zenon, <1>0, <1>4 DEF OwnInv, Owner, Joined, process_registry_contains, tables
  <1>14. Settled' /\ Hand' /\ Fresh' /\ Unbroken'
    BY Zenon, <1>4, <1>9, <1>10 DEF OwnInv, Settled, Hand, InHand, Fresh, Unbroken, Outcome
  <1> QED BY Zenon, <1>8, <1>11, <1>12, <1>13, <1>14 DEF OwnInv

\* process_terminate ends the process of a teardown, or one a caller names.
LEMMA process_terminateOwn == ASSUME OwnInv, Types', process_terminate PROVE OwnInv'
  <1>0. /\ Types /\ ~InHand /\ pc = "terminate"
        /\ UNCHANGED <<task, tables, runqueue, pending, memory>>
    BY Zenon DEF process_terminate, OwnInv, InHand
  <1>1. PICK p \in Process : p = call.process
    BY Zenon, <1>0, ProcessTerminated
  <1>2. CASE /\ ~process_registry_contains(p) \/ process[p].state # "ACTIVE"
             /\ ProcessCallFails /\ UNCHANGED process
    <2>1. ~call.owns_process
      BY Zenon, <1>0, <1>1, <1>2 DEF OwnInv, Owner
    <2>2. Return("refused")
      BY <1>0, <1>2, <2>1 DEF Types, Control, ProcessCallFails
    <2> QED BY Zenon, <1>0, <1>2, <2>2, RefusedOwn
  <1>3. CASE /\ process_registry_contains(p) /\ process[p].state = "ACTIVE"
             /\ SetProcessState(p, "TERMINATED")
             /\ \/ call.op = "terminate" /\ Return("ok")
                \/ call.op # "terminate" /\ pc' = "process_destroy" /\ UNCHANGED <<call, result>>
    <2>1. /\ process'[p].id = process[p].id /\ process'[p].state = "TERMINATED"
          /\ process'[p].tasks = process[p].tasks
          /\ \A q \in Process : q # p => process'[q] = process[q]
      BY <1>3 DEF SetProcessState, Turns
    <2>2. \A q \in Process : process'[q].id = process[q].id /\ process'[q].tasks = process[q].tasks
      BY Zenon, <2>1
    <2>3. \A q \in Process : Members(q)' = Members(q)
      BY Zenon, <2>2 DEF Members
    <2>4. /\ ProcessTable'
          /\ \A q \in Process : process_registry_contains(q)' <=> process_registry_contains(q)
      BY Zenon, <1>0, <2>2, ProcessTableKept DEF OwnInv, tables
    <2>5. ASSUME NEW u \in Task PROVE Whole(u)'
      <3>1. Whole(u)
        BY Zenon, <1>0 DEF OwnInv, Settled
      <3> QED BY SMTT(30), <1>0, <2>3, <2>4, <3>1, Undisturbed, SameTasks DEF tables, memory
    <2>6. TaskTable' /\ Slots'
      BY Zenon, <1>0 DEF OwnInv, TaskTable, Slots, tables, memory
    <2>7. Queues'
      BY <1>0, <2>2 DEF OwnInv, Queues, Distinct
    <2>8. CASE call.op = "terminate" /\ Return("ok")
      <3>1. Hand' /\ Fresh' /\ Owner' /\ Unbroken'
        BY Zenon, <2>8 DEF Return, Hand, InHand, Fresh, Owner, Unbroken
      <3> QED BY Zenon, <2>4, <2>5, <2>6, <2>7, <3>1 DEF OwnInv, Settled
    <2>9. CASE pc' = "process_destroy" /\ UNCHANGED <<call, result>>
      <3>1. Hand' /\ Fresh' /\ Unbroken'
        BY Zenon, <2>9 DEF OwnInv, Hand, InHand, Fresh, Unbroken
      <3>2. process_registry_contains(call.process)'
        BY <1>1, <1>3, <2>4, <2>9 DEF process_registry_contains
      <3>3. call.owns_process => Len(process'[p].tasks) = 0
        BY Zenon, <1>0, <1>1, <2>1 DEF OwnInv, Owner, Joined
      <3>4. ~Joined'
        BY Zenon, <2>9 DEF Joined
      <3>5. Owner'
        BY Zenon, <1>1, <2>1, <2>9, <3>2, <3>3, <3>4 DEF Owner
      <3> QED BY <2>4, <2>5, <2>6, <2>7, <3>1, <3>5 DEF OwnInv, Settled
    <2> QED BY Zenon, <1>3, <2>8, <2>9
  <1> QED BY SMTT(30), <1>0, <1>1, <1>2, <1>3, ProcessTerminated

\* process_destroy finds the process of a teardown without members.
LEMMA process_destroyOwn == ASSUME OwnInv, Room, Types', process_destroy PROVE OwnInv'
  <1>0. /\ Types /\ ~InHand /\ pc = "process_destroy"
        /\ UNCHANGED <<task, task_registry, task_registry_active_count, runqueue, pending, memory>>
    BY Zenon DEF process_destroy, OwnInv, InHand
  <1>1. PICK p \in Process : p = call.process
    BY Zenon, <1>0, ProcessDestroyed
  <1>2. process_registry_contains(p) => process_registry_count # 0
    BY Zenon DEF Room
  <1>3. CASE /\ \/ ~process_registry_contains(p) \/ process[p].state # "TERMINATED"
                \/ process[p].tasks # <<>> \/ process_registry_count = 0
             /\ ProcessCallFails /\ UNCHANGED ProcessVars
    <2>1. ~call.owns_process
      <3> SUFFICES ASSUME call.owns_process PROVE FALSE
        OBVIOUS
      <3>1. process_registry_contains(p) /\ process[p].state = "TERMINATED" /\ Len(process[p].tasks) = 0
        BY Zenon, <1>0, <1>1 DEF OwnInv, Owner, Joined
      <3>2. process[p].tasks \in Seq(Task)
        BY Zenon, <1>0 DEF Types, ProcessTypes, ProcessRecord
      <3>3. process[p].tasks = <<>>
        BY <3>1, <3>2
      <3> QED BY Zenon, <1>2, <1>3, <3>1, <3>3
    <2>2. Return("refused")
      BY SMTT(30), <1>0, <1>3, <2>1 DEF Types, Control, ProcessCallFails
    <2> QED BY Zenon, <1>0, <1>3, <2>2, RefusedOwn DEF ProcessVars, tables
  <1>4. CASE /\ process_registry_contains(p) /\ process[p].tasks = <<>>
             /\ process_registry' = [process_registry EXCEPT ![process[p].id] = NULL]
             /\ process_registry_count' = process_registry_count - 1
             /\ Turns(p, ZeroProcess) /\ Return(Outcome)
    <2>1. PICK s \in Pid : s = process[p].id /\ process_registry[s] = p
      BY Zenon, <1>4 DEF process_registry_contains
    <2>2. /\ process'[p].tasks = <<>>
          /\ \A q \in Process : q # p => process'[q] = process[q]
      BY <1>4 DEF Turns, ZeroProcess
    <2>3. process_registry'[s] = NULL /\ \A i \in Pid : i # s => process_registry'[i] = process_registry[i]
      BY Zenon, <1>0, <1>4, <2>1 DEF Types, ProcessTypes
    <2>4. \A q \in Process : q # p /\ process_registry_contains(q) => process_registry_contains(q)'
      BY Zenon, <2>1, <2>2, <2>3 DEF process_registry_contains
    <2>5. \A q \in Process : Members(q)' = Members(q)
      BY Zenon, <1>4, <2>2 DEF Members
    <2>6. ProcessTable'
      <3>3. ASSUME NEW i \in Pid, process_registry'[i] # NULL PROVE process'[process_registry'[i]].id = i
        <4>1. i # s /\ process_registry'[i] = process_registry[i]
          BY Zenon, <2>3, <3>3
        <4>2. process_registry[i] \in Process /\ process[process_registry[i]].id = i
          BY Zenon, <1>0, <3>3, <4>1 DEF Types, ProcessTypes, OwnInv, ProcessTable
        <4>3. process_registry[i] # p
          BY Zenon, <2>1, <4>1, <4>2
        <4> QED BY <2>2, <4>1, <4>2, <4>3
      <3> QED BY Zenon, <3>3 DEF ProcessTable
    <2>7. ASSUME NEW u \in Task PROVE Whole(u)'
      <3>1. Whole(u)
        BY Zenon, <1>0 DEF OwnInv, Settled
      <3>2. u \notin Members(p)
        BY <1>4 DEF Members, Elems
      <3> QED BY SMTT(30), <1>0, <2>4, <2>5, <3>1, <3>2, Undisturbed, SameTasks DEF memory
    <2>8. TaskTable' /\ Slots'
      BY Zenon, <1>0 DEF OwnInv, TaskTable, Slots, memory
    <2>9. Queues'
      BY <1>0, <2>2 DEF OwnInv, Queues, Distinct
    <2>10. Hand' /\ Fresh' /\ Owner' /\ Unbroken'
      BY Zenon, <1>4 DEF Return, Outcome, Hand, InHand, Fresh, Owner, Unbroken
    <2> QED BY SMTT(30), <2>6, <2>7, <2>8, <2>9, <2>10 DEF OwnInv, Settled
  <1> QED BY Zenon, <1>0, <1>1, <1>3, <1>4, ProcessDestroyed

-----------------------------------------------------------------------------
(* Ownership: between the transactions.                                    *)

\* A dispatched task leaves the run queue and the READY state together.
LEMMA TaskRunsOwn == ASSUME OwnInv, Types', TaskRuns PROVE OwnInv'
  <1>0. /\ Types /\ ~InHand /\ pc = "idle" /\ runqueue # <<>> /\ runqueue' = Tail(runqueue)
        /\ UNCHANGED <<process, tables, pending, memory, call, pc, result>>
    BY Zenon DEF TaskRuns, OwnInv, InHand
  <1>1. PICK t \in Task : t = Head(runqueue) /\ t \in Elems(runqueue)
    BY Zenon, <1>0, Dispatched
  <1>2. /\ task'[t].id = task[t].id /\ task'[t].state = "RUNNING" /\ task'[t].process = task[t].process
        /\ task'[t].stack = task[t].stack /\ task'[t].pages = task[t].pages /\ task'[t].mode = task[t].mode
        /\ \A u \in Task : u # t => task'[u] = task[u]
    BY SMTT(30), <1>0, <1>1, Dispatched DEF SetState, Becomes
  <1>3. Elems(runqueue') = Elems(runqueue) \ {t} /\ Distinct(runqueue')
    BY Zenon, <1>0, <1>1, HeadTaken DEF Types, TaskTypes, OwnInv, Queues
  <1>4. TaskTable' /\ \A u \in Task : task_registry_contains(u)' <=> task_registry_contains(u)
    <2>1. \A u \in Task : task'[u].id = task[u].id
      BY Zenon, <1>2
    <2> QED BY Zenon, <1>0, <2>1, TaskTableKept DEF OwnInv, tables
  <1>5. ASSUME NEW u \in Task, u # t PROVE Whole(u)'
    <2>1. Whole(u)
      BY Zenon, <1>0 DEF OwnInv, Settled
    <2> QED BY SMTT(30), <1>0, <1>2, <1>3, <1>4, <1>5, <2>1, Undisturbed, SameProcesses DEF tables, memory
  <1>6. task_registry_contains(t) /\ AllOwn(t)
    BY Zenon, <1>0, <1>1 DEF OwnInv, Settled, Whole, NoneOwns
  <1>7. Whole(t)'
    <2>1. InProcess(t, task[t].process)'
      BY Zenon, <1>0, <1>2, <1>6, SameProcesses DEF AllOwn, InProcess, tables
    <2>2. FullStack(t)'
      BY Zenon, <1>0, <1>2, <1>6 DEF AllOwn, FullStack, memory
    <2>3. t \notin Elems(runqueue)' /\ t \notin Elems(pending)'
      BY Zenon, <1>0, <1>1, <1>3, <1>6 DEF AllOwn
    <2>4. task_registry_contains(t)'
      BY Zenon, <1>4, <1>6
    <2> QED BY SMTT(30), <1>2, <1>6, <2>1, <2>2, <2>3, <2>4 DEF Whole, AllOwn
  <1>8. Settled'
    BY Zenon, <1>5, <1>7 DEF Settled
  <1>9. ProcessTable' /\ Slots' /\ Queues'
    BY Zenon, <1>0, <1>3 DEF OwnInv, ProcessTable, Slots, Queues, InHand, tables, memory
  <1>10. Hand' /\ Fresh' /\ Owner' /\ Unbroken'
    BY Zenon, <1>0 DEF OwnInv, Hand, InHand, Fresh, Owner, Unbroken
  <1> QED BY Zenon, <1>4, <1>8, <1>9, <1>10 DEF OwnInv

\* A task that exits enters the pending ring, which has room.
LEMMA TaskExitsOwn == ASSUME OwnInv, Room, Types', TaskExits PROVE OwnInv'
  <1>0. /\ Types /\ ~InHand /\ pc = "idle"
        /\ UNCHANGED <<process, tables, runqueue, memory, call>>
    BY Zenon DEF TaskExits, OwnInv, InHand
  <1>1. PICK t \in Task :
          /\ task[t].state = "RUNNING"
          /\ task' = [task EXCEPT ![t].state = "TERMINATED"]
          /\ IF lifecycle_publish_terminated_task(t)
               THEN pending' = Append(pending, t) /\ UNCHANGED <<pc, result>>
               ELSE pc' = "halted" /\ result' = "broken" /\ UNCHANGED pending
    BY Zenon DEF TaskExits
  <1>2. task_registry_contains(t) /\ AllOwn(t)
    BY Zenon, <1>0, <1>1 DEF OwnInv, Settled, Whole, NoneOwns
  <1>3. t \notin Elems(pending) /\ t \notin Elems(runqueue) /\ task[t].mode = "MANAGED"
    BY Zenon, <1>1, <1>2 DEF AllOwn
  <1>4. lifecycle_publish_terminated_task(t)
    BY Zenon, <1>0, <1>2, <1>3 DEF lifecycle_publish_terminated_task, Room, InHand
  <1>5. pending' = Append(pending, t) /\ UNCHANGED <<pc, result>>
    BY Zenon, <1>1, <1>4
  <1>6. SetState(t, "TERMINATED")
    BY Zenon, <1>0, <1>1, NewState DEF Types
  <1>7. /\ task'[t].id = task[t].id /\ task'[t].state = "TERMINATED" /\ task'[t].process = task[t].process
        /\ task'[t].stack = task[t].stack /\ task'[t].pages = task[t].pages /\ task'[t].mode = task[t].mode
        /\ \A u \in Task : u # t => task'[u] = task[u]
    BY <1>6 DEF SetState, Becomes
  <1>8. Elems(pending') = Elems(pending) \cup {t} /\ Distinct(pending')
    BY Zenon, <1>0, <1>3, <1>5, Appended DEF Types, TaskTypes, OwnInv, Queues
  <1>9. TaskTable' /\ \A u \in Task : task_registry_contains(u)' <=> task_registry_contains(u)
    <2>1. \A u \in Task : task'[u].id = task[u].id
      BY Zenon, <1>7
    <2> QED BY Zenon, <1>0, <2>1, TaskTableKept DEF OwnInv, tables
  <1>10. ASSUME NEW u \in Task, u # t PROVE Whole(u)'
    <2>1. Whole(u)
      BY Zenon, <1>0 DEF OwnInv, Settled
    <2> QED BY SMTT(30), <1>0, <1>7, <1>8, <1>9, <1>10, <2>1, Undisturbed, SameProcesses DEF tables, memory
  <1>11. Whole(t)'
    <2>1. InProcess(t, task[t].process)'
      BY Zenon, <1>0, <1>7, <1>2, SameProcesses DEF AllOwn, InProcess, tables
    <2>2. FullStack(t)'
      BY Zenon, <1>0, <1>7, <1>2 DEF AllOwn, FullStack, memory
    <2>3. t \notin Elems(runqueue)' /\ t \in Elems(pending)'
      BY Zenon, <1>0, <1>3, <1>8
    <2>4. task_registry_contains(t)'
      BY Zenon, <1>2, <1>9
    <2> QED BY SMTT(30), <1>2, <1>7, <2>1, <2>2, <2>3, <2>4 DEF Whole, AllOwn
  <1>12. Settled'
    BY Zenon, <1>10, <1>11 DEF Settled
  <1>13. ProcessTable' /\ Slots' /\ Queues'
    BY Zenon, <1>0, <1>5, <1>8 DEF OwnInv, ProcessTable, Slots, Queues, InHand, tables, memory
  <1>14. Hand' /\ Fresh' /\ Owner' /\ Unbroken'
    BY Zenon, <1>0, <1>5 DEF OwnInv, Hand, InHand, Fresh, Owner, Unbroken
  <1> QED BY <1>9, <1>12, <1>13, <1>14 DEF OwnInv

\* The rest of the kernel takes and returns frames that no stack has.
LEMMA OthersOwn == ASSUME OwnInv, Types', OthersAllocate \/ OthersFree PROVE OwnInv'
  <1>0. /\ ~InHand /\ pc = "idle"
        /\ UNCHANGED <<task, process, tables, runqueue, pending, mapped, call, pc, result>>
    BY Zenon DEF OthersAllocate, OthersFree, InHand
  <1>1. ASSUME NEW u \in Task PROVE Whole(u)'
    <2>1. Whole(u)
      BY Zenon, <1>0 DEF OwnInv, Settled
    <2> QED BY Zenon, <1>0, <2>1, Undisturbed, SameProcesses, SameTasks DEF tables
  <1>2. Settled'
    BY Zenon, <1>1 DEF Settled
  <1>3. TaskTable' /\ ProcessTable' /\ Slots' /\ Queues'
    BY Zenon, <1>0 DEF OwnInv, TaskTable, ProcessTable, Slots, Queues, Distinct, InHand, tables
  <1>4. Hand' /\ Fresh' /\ Owner' /\ Unbroken'
    BY Zenon, <1>0 DEF OwnInv, Hand, InHand, Fresh, Owner, Unbroken
  <1> QED BY Zenon, <1>2, <1>3, <1>4 DEF OwnInv

\* Every step keeps OwnInv, while the counts leave room.
LEMMA OwnStep == ASSUME FreshTid, OwnInv, Room, [Next]_vars PROVE OwnInv'
  <1>0. Types'
    BY Zenon, StepTypes DEF OwnInv
  <1>1. CASE UNCHANGED vars
    <2>1. UNCHANGED <<task, process, tables, runqueue, pending, memory, call, pc, result>>
      BY Zenon, <1>1 DEF vars
    <2>2. ASSUME NEW t \in Task PROVE Whole(t)' <=> Whole(t)
      BY Zenon, <2>1 DEF Whole, AllOwn, NoneOwns, InProcess, NoProcess, FullStack, Members,
                  task_registry_contains, process_registry_contains, tables, memory
    <2>3. Settled'
      BY Zenon, <2>1, <2>2 DEF OwnInv, Settled, InHand
    <2>4. Hand'
      BY Zenon, <2>1 DEF OwnInv, Hand, InHand, Subject, Joined, Listed, InProcess, NoProcess, FullStack,
                  Members, process_registry_contains, tables, memory
    <2>5. TaskTable' /\ ProcessTable' /\ Slots' /\ Queues' /\ Fresh' /\ Owner' /\ Unbroken'
      BY <2>1 DEF OwnInv, TaskTable, ProcessTable, Slots, Queues, Distinct, InHand, Fresh, Owner, Joined,
                  Unbroken, task_registry_contains, process_registry_contains, tables, memory
    <2> QED BY <1>0, <2>3, <2>4, <2>5 DEF OwnInv
  <1>2. CASE Transaction
    BY Zenon, <1>0, <1>2, process_createOwn, task_createOwn, MapStackPageOwn, MapStackFailsOwn,
       MapStackRollbackOwn, MapStackDoneOwn, task_registry_registerOwn, process_attach_taskOwn,
       scheduler_addOwn, runqueue_removeOwn, process_detach_taskOwn, SkipDetachOwn,
       task_registry_unregisterOwn, task_destroyOwn, process_terminateOwn, process_destroyOwn
       DEF Transaction
  <1>3. ASSUME NEW p \in Process, NEW t \in Task, NEW tid \in Tid,
               \/ execution_create_task(p, t, tid)
               \/ \E pid \in Pid : execution_create_kernel_task(p, t, pid, tid)
        PROVE  OwnInv'
    BY Zenon, <1>0, <1>3, CreateOwn
  <1>4. ASSUME NEW p \in Process, NEW t \in Task,
               execution_destroy_task(p, t) \/ execution_destroy_kernel_task(p, t)
        PROVE  OwnInv'
    BY Zenon, <1>0, <1>4, DestroyOwn
  <1>5. ASSUME NEW p \in Process,
               \/ TerminateProcess(p) \/ DestroyProcess(p)
               \/ \E pid \in Pid, as \in AddressSpace : CreateProcess(p, pid, as)
        PROVE  OwnInv'
    BY Zenon, <1>0, <1>5, ProcessCallOwn
  <1>6. CASE lifecycle_reap_one \/ TaskRuns \/ TaskExits \/ OthersAllocate \/ OthersFree
    BY <1>0, <1>6, ReapOwn, TaskRunsOwn, TaskExitsOwn, OthersOwn
  <1> QED BY Zenon, <1>1, <1>2, <1>3, <1>4, <1>5, <1>6 DEF Next

-----------------------------------------------------------------------------
(* Refinement: publication and withdrawal are atomic.                      *)

(* Which tasks are published, by the place of the transaction that has the *)
(* task in hand, and by the registry for the others.                       *)
Live(t) ==
  IF InHand /\ t = call.task
    THEN pc = "remove" \/ (pc = "detach" /\ call.op = "reap" /\ call.registered /\ call.attached)
    ELSE task_registry_contains(t)

\* The refinement mapping, read off the invariant.
LEMMA PublishedNow == ASSUME OwnInv, NEW t \in Task PROVE published[t] = IF Live(t) THEN task[t].id ELSE NULL
  <1> DEFINE Shown == /\ t \in Registered /\ task[t].process # NULL /\ t \in Members(task[t].process)
                      /\ t \in Elems(runqueue) \/ task[t].state # "READY"
  <1>1. published[t] = IF Shown THEN task[t].id ELSE NULL
    BY Zenon DEF published
  <1>2. CASE ~(InHand /\ t = call.task)
    <2>1. Whole(t)
      BY Zenon, <1>2 DEF OwnInv, Settled
    <2>2. Shown <=> task_registry_contains(t)
      BY Zenon, <2>1, Nulls DEF Registered, Whole, AllOwn, InProcess
    <2> QED BY <1>1, <1>2, <2>2 DEF Live
  <1>3. CASE InHand /\ t = call.task
    <2>1. Subject(t)
      BY Zenon, <1>3 DEF OwnInv, Hand
    <2>2. Shown <=> Live(t)
      <3>1. CASE pc \in {"map_stack", "unmap_stack", "register", "destroy"}
        BY <1>3, <2>1, <3>1, Nulls DEF Registered, task_registry_contains, Subject, Listed, Live
      <3>2. CASE pc = "attach"
        BY SMTT(30), <1>3, <2>1, <3>2, Nulls DEF Subject, Joined, NoProcess, Live
      <3>3. CASE pc = "add"
        BY <1>3, <2>1, <3>3 DEF Subject, Live, OwnInv, Types, Control
      <3>4. CASE pc = "remove"
        BY <1>3, <2>1, <3>4, Nulls DEF Subject, Listed, Joined, InProcess, Registered, task_registry_contains, Live
      <3>5. CASE pc = "detach"
        BY <1>3, <2>1, <3>5, Nulls
           DEF Subject, Listed, Joined, InProcess, NoProcess, Registered, task_registry_contains, Live
      <3>6. CASE pc = "unregister"
        BY <1>3, <2>1, <3>6 DEF Subject, Joined, NoProcess, Live
      <3> QED BY <1>3, <3>1, <3>2, <3>3, <3>4, <3>5, <3>6 DEF InHand
    <2> QED BY Zenon, <1>1, <2>2
  <1> QED BY Zenon, <1>2, <1>3

\* The published identities of all tasks.
Identities == \A t \in Task : published[t] = IF Live(t) THEN task[t].id ELSE NULL

\* They are what the mapping says, before a step
LEMMA Published == OwnInv => Identities
  BY Zenon, PublishedNow DEF Identities

\* and after it.
LEMMA PublishedNext == OwnInv' => Identities'
  BY Published, PTL

(* A step that changes the identity or the registration of one task alone. *)
LEMMA OneTask ==
  ASSUME OwnInv, OwnInv', NEW t \in Task, InHand => call.task = t, InHand' => call'.task = t,
         \A u \in Task : u # t => /\ task'[u].id = task[u].id
                                  /\ task_registry_contains(u)' <=> task_registry_contains(u)
  PROVE  /\ (Live(t)' <=> Live(t)) /\ (Live(t) => task'[t].id = task[t].id) => UNCHANGED published
         /\ /\ ~Live(t) /\ Live(t)' /\ task'[t].id \in Tid
            /\ \A u \in Task : u # t /\ task_registry_contains(u) => task[u].id # task'[t].id
            => Abstract!Publish(t, task'[t].id)
         /\ Live(t) /\ ~Live(t)' => Abstract!Withdraw(t)
  <1>1. \A u \in Task : published[u] = IF Live(u) THEN task[u].id ELSE NULL
    BY Zenon, Published DEF Identities
  <1>2. \A u \in Task : published'[u] = IF Live(u)' THEN task'[u].id ELSE NULL
    BY Zenon, PublishedNext DEF Identities
  <1>3. \A u \in Task : u # t => (Live(u) <=> task_registry_contains(u)) /\ (Live(u)' <=> Live(u))
    BY Zenon DEF Live
  <1>6. \A u \in Task : u # t => published'[u] = published[u]
    BY Zenon, <1>1, <1>2, <1>3
  <1>7. ASSUME NEW f, NEW g, NEW x, f = [u \in Task |-> f[u]], g = [u \in Task |-> g[u]],
               \A u \in Task : u # t => g[u] = f[u]
        PROVE  (g[t] = f[t] => g = f) /\ (g[t] = x => g = [f EXCEPT ![t] = x])
    <2>1. g[t] = f[t] => g = f
      BY Zenon, <1>7
    <2>2. g[t] = x => g = [f EXCEPT ![t] = x]
      BY Zenon, <1>7
    <2> QED BY Zenon, <2>1, <2>2
  <1>8. published = [u \in Task |-> published[u]] /\ published' = [u \in Task |-> published'[u]]
    BY Zenon DEF published
  <1>9. (published'[t] = published[t] => published' = published)
        /\ \A x : published'[t] = x => published' = [published EXCEPT ![t] = x]
    BY Zenon, <1>6, <1>7, <1>8
  <1>10. ASSUME Live(t)' <=> Live(t), Live(t) => task'[t].id = task[t].id PROVE UNCHANGED published
    BY Zenon, <1>1, <1>2, <1>9, <1>10
  <1>11. ASSUME ~Live(t), Live(t)', task'[t].id \in Tid,
                \A u \in Task : u # t /\ task_registry_contains(u) => task[u].id # task'[t].id
         PROVE  Abstract!Publish(t, task'[t].id)
    <2>1. published[t] = NULL /\ published'[t] = task'[t].id /\ task'[t].id # NULL
      BY Zenon, <1>1, <1>2, <1>11, Tids, Nulls
    <2>2. \A u \in Task : published[u] # task'[t].id
      BY <1>1, <1>3, <1>11, <2>1
    <2> QED BY Zenon, <1>9, <2>1, <2>2 DEF Abstract!Publish
  <1>12. ASSUME Live(t), ~Live(t)' PROVE Abstract!Withdraw(t)
    <2>1. task[t].id \in Tid
      BY Zenon, <1>12 DEF Live, OwnInv, Hand, Subject, task_registry_contains
    <2>2. published[t] # NULL /\ published'[t] = NULL
      BY Zenon, <1>1, <1>2, <1>12, <2>1, Tids, Nulls
    <2> QED BY Zenon, <1>9, <2>2 DEF Abstract!Withdraw
  <1> QED BY Zenon, <1>10, <1>11, <1>12

(* A step outside the transactions on tasks.                               *)
LEMMA Quiet ==
  ASSUME OwnInv, OwnInv', ~InHand, ~InHand', UNCHANGED task_registry,
         \A u \in Task : task'[u].id = task[u].id
  PROVE  UNCHANGED published
  <1>1. \A u \in Task : Live(u)' <=> Live(u)
    BY Zenon DEF Live, task_registry_contains
  <1>2. \A u \in Task : published'[u] = published[u]
    BY Zenon, <1>1, Published, PublishedNext DEF Identities
  <1>3. published = [u \in Task |-> published[u]] /\ published' = [u \in Task |-> published'[u]]
    BY Zenon DEF published
  <1> QED BY Zenon, <1>2, <1>3

(* The calls and the steps outside the transactions on tasks.              *)
LEMMA OutsideKeeps ==
  ASSUME OwnInv, OwnInv',
         \/ process_create \/ process_terminate \/ process_destroy \/ TaskRuns \/ TaskExits
         \/ OthersAllocate \/ OthersFree
         \/ \E p \in Process, t \in Task, tid \in Tid :
               \/ execution_create_task(p, t, tid)
               \/ \E pid \in Pid : execution_create_kernel_task(p, t, pid, tid)
         \/ \E p \in Process : TerminateProcess(p) \/ DestroyProcess(p)
         \/ \E p \in Process, pid \in Pid, as \in AddressSpace : CreateProcess(p, pid, as)
  PROVE  UNCHANGED published
  <1>0. Types
    BY Zenon DEF OwnInv
  <1>1. ASSUME UNCHANGED task, UNCHANGED task_registry, ~InHand, ~InHand' PROVE UNCHANGED published
    BY Zenon, <1>1, Quiet
  <1>2. CASE process_create
    <2>1. pc' \in {"idle", "task_create"} /\ ~InHand /\ UNCHANGED <<task, task_registry>>
      BY Zenon, <1>2 DEF process_create, Return, InHand
    <2> QED BY Zenon, <1>1, <2>1 DEF InHand
  <1>3. CASE process_terminate
    <2>1. pc' \in {"idle", "process_destroy"} /\ ~InHand /\ UNCHANGED <<task, task_registry>>
      BY Zenon, <1>3 DEF process_terminate, ProcessCallFails, Broken, Return, InHand, tables
    <2> QED BY Zenon, <1>1, <2>1 DEF InHand
  <1>4. CASE process_destroy
    <2>1. pc' = "idle" /\ ~InHand /\ UNCHANGED <<task, task_registry>>
      BY Zenon, <1>4 DEF process_destroy, ProcessCallFails, Broken, Return, InHand
    <2> QED BY Zenon, <1>1, <2>1 DEF InHand
  <1>5. CASE TaskRuns
    <2>1. UNCHANGED <<task_registry, pc>> /\ pc = "idle"
      BY Zenon, <1>5 DEF TaskRuns, tables
    <2>2. \A u \in Task : task'[u].id = task[u].id
      BY SMTT(30), <1>0, <1>5, Dispatched DEF SetState, Becomes
    <2> QED BY Zenon, <2>1, <2>2, Quiet DEF InHand
  <1>6. CASE TaskExits
    <2>1. UNCHANGED task_registry /\ pc = "idle" /\ pc' \in {"idle", "halted"}
      BY Zenon, <1>6 DEF TaskExits, tables
    <2>2. \A u \in Task : task'[u].id = task[u].id
      <3>1. PICK t \in Task :
              SetState(t, "TERMINATED")
        BY Zenon, <1>0, <1>6, Exited
      <3> QED BY <3>1 DEF SetState, Becomes
    <2> QED BY Zenon, <2>1, <2>2, Quiet DEF InHand
  <1>7. CASE OthersAllocate \/ OthersFree
    BY Zenon, <1>1, <1>7 DEF OthersAllocate, OthersFree, InHand, tables
  <1>8. ASSUME NEW p \in Process, NEW t \in Task, NEW tid \in Tid,
               \/ execution_create_task(p, t, tid)
               \/ \E pid \in Pid : execution_create_kernel_task(p, t, pid, tid)
        PROVE  UNCHANGED published
    <2>1. pc = "idle" /\ pc' \in {"idle", "process_create", "task_create"} /\ UNCHANGED <<task, task_registry>>
      BY Zenon, <1>8 DEF execution_create_task, execution_create_kernel_task, Return, tables
    <2> QED BY Zenon, <1>1, <2>1 DEF InHand
  <1>9. ASSUME NEW p \in Process,
               \/ TerminateProcess(p) \/ DestroyProcess(p)
               \/ \E pid \in Pid, as \in AddressSpace : CreateProcess(p, pid, as)
        PROVE  UNCHANGED published
    <2>1. pc = "idle" /\ pc' \in {"terminate", "process_destroy", "process_create"}
          /\ UNCHANGED <<task, task_registry>>
      BY Zenon, <1>9 DEF TerminateProcess, DestroyProcess, CreateProcess, tables
    <2> QED BY Zenon, <1>1, <2>1 DEF InHand
  <1> QED BY Zenon, <1>2, <1>3, <1>4, <1>5, <1>6, <1>7, <1>8, <1>9

(* A teardown takes up a published task.                                   *)
LEMMA TeardownKeeps ==
  ASSUME OwnInv, OwnInv',
         \/ lifecycle_reap_one
         \/ \E p \in Process, t \in Task :
               execution_destroy_task(p, t) \/ execution_destroy_kernel_task(p, t)
  PROVE  UNCHANGED published
  <1>0. pc = "idle" /\ ~InHand /\ UNCHANGED <<task, task_registry>>
    BY Zenon DEF lifecycle_reap_one, execution_destroy_task, execution_destroy_kernel_task, InHand, tables
  <1>1. ASSUME Return("refused") PROVE UNCHANGED published
    BY Zenon, <1>0, <1>1, Quiet DEF Return, InHand
  <1>2. ASSUME NEW t \in Task, task_registry_contains(t), pc' \in {"remove", "detach"}, call'.task = t,
               pc' = "detach" => call'.op = "reap" /\ call'.registered /\ call'.attached
        PROVE  UNCHANGED published
    <2>1. Live(t) /\ Live(t)'
      BY Zenon, <1>0, <1>2 DEF Live, InHand
    <2>2. \A u \in Task : task_registry_contains(u)' <=> task_registry_contains(u)
      BY Zenon, <1>0 DEF task_registry_contains
    <2> QED BY Zenon, <1>0, <1>2, <2>1, <2>2, OneTask
  <1>3. ASSUME NEW p \in Process, NEW t \in Task,
               execution_destroy_task(p, t) \/ execution_destroy_kernel_task(p, t)
        PROVE  UNCHANGED published
    <2>1. \/ Return("refused")
          \/ /\ task_registry_contains(t)
             /\ \E b \in BOOLEAN : StartTeardown("destroy", p, t, b, "remove")
      BY Zenon, <1>3 DEF execution_destroy_task, execution_destroy_kernel_task, execution_preflight_destroy_task
    <2>3. ASSUME NEW b \in BOOLEAN, StartTeardown("destroy", p, t, b, "remove")
          PROVE  call'.task = t /\ pc' = "remove"
      BY Zenon, <2>3 DEF StartTeardown, NoCall
    <2> QED BY Zenon, <1>1, <1>2, <2>1, <2>3
  <1>4. CASE lifecycle_reap_one
    <2>1. PICK t \in Task : t = Head(pending)
      BY Zenon, <1>4, HeadTaken DEF lifecycle_reap_one, OwnInv, Types, TaskTypes
    <2>2. \/ Return("refused")
          \/ task_registry_contains(t) /\ StartTeardown("reap", task[t].process, t, FALSE, "detach")
      BY Zenon, <1>4, <2>1 DEF lifecycle_reap_one
    <2>3. ASSUME task_registry_contains(t), StartTeardown("reap", task[t].process, t, FALSE, "detach")
          PROVE  UNCHANGED published
      <3>1. task[t].process # NULL
        BY <1>0, <2>3, Nulls DEF OwnInv, Settled, Whole, AllOwn, InProcess
      <3>2. /\ pc' = "detach" /\ call'.task = t /\ call'.op = "reap" /\ call'.registered
            /\ call'.attached
        BY Zenon, <2>3, <3>1 DEF StartTeardown, NoCall
      <3> QED BY Zenon, <1>2, <2>3, <3>2
    <2> QED BY Zenon, <1>1, <2>2, <2>3
  <1> QED BY Zenon, <1>3, <1>4

(* A task that is in the making, or withdrawn, stays unpublished.          *)
LEMMA MakingKeeps ==
  ASSUME OwnInv, OwnInv',
         \/ task_create \/ MapStackPage \/ MapStackFails \/ MapStackRollback \/ MapStackDone
         \/ process_attach_task \/ SkipDetach \/ task_destroy
  PROVE  UNCHANGED published
  <1>0. Types /\ UNCHANGED task_registry /\ result' # "broken"
    BY Zenon DEF OwnInv, Unbroken, task_create, MapStackPage, MapStackFails, MapStackRollback, MapStackDone,
           process_attach_task, SkipDetach, task_destroy, tables
  <1>1. PICK t \in Task : t = call.task
    BY Zenon, <1>0 DEF Types, Control, task_create, MapStackPage, MapStackFails, MapStackRollback, MapStackDone,
                process_attach_task, SkipDetach, task_destroy
  <1>2. ASSUME InHand' => call'.task = t, ~Live(t), ~Live(t)', \A u \in Task : u # t => task'[u] = task[u]
        PROVE  UNCHANGED published
    <2>1. \A u \in Task : u # t => /\ task'[u].id = task[u].id
                                   /\ task_registry_contains(u)' <=> task_registry_contains(u)
      BY Zenon, <1>0, <1>2 DEF task_registry_contains
    <2> QED BY Zenon, <1>1, <1>2, <2>1, OneTask
  <1>3. CASE task_create
    <2>1. ~Live(t)
      BY Zenon, <1>1, <1>3 DEF task_create, OwnInv, Fresh, Live, InHand
    <2>2. pc' = "map_stack" /\ UNCHANGED call /\ InHand'
      BY Zenon, <1>3 DEF task_create, InHand
    <2>3. ~Live(t)'
      BY Zenon, <1>1, <2>2 DEF Live
    <2>4. \A u \in Task : u # t => task'[u] = task[u]
      BY Zenon, <1>0, <1>1, <1>3 DEF task_create, Types, TaskTypes
    <2> QED BY <1>1, <1>2, <2>1, <2>2, <2>3, <2>4
  <1>4. CASE MapStackPage \/ MapStackFails \/ MapStackDone \/ SkipDetach
    <2>1. /\ InHand /\ InHand' /\ UNCHANGED call /\ pc # "remove" /\ pc' \notin {"remove", "detach"}
          /\ pc = "detach" => ~call.attached
      BY Zenon, <1>4 DEF MapStackPage, MapStackFails, MapStackDone, SkipDetach, InHand
    <2>2. ~Live(t) /\ ~Live(t)'
      BY Zenon, <1>1, <2>1 DEF Live
    <2>3. \A u \in Task : u # t => task'[u] = task[u]
      BY <1>0, <1>1, <1>4, NewPage, BoundStack DEF SetPages, Becomes, MapStackFails, SkipDetach
    <2> QED BY <1>1, <1>2, <2>1, <2>2, <2>3
  <1>5. CASE process_attach_task
    <2>1. /\ InHand /\ InHand' /\ call'.task = t /\ pc = "attach" /\ pc' \in {"add", "detach"}
          /\ pc' = "detach" => call' = call
      BY <1>0, <1>1, <1>5 DEF process_attach_task, InHand, Types, Control, CallRecord
    <2>2. call.op # "reap"
      BY Zenon, <1>0, <2>1 DEF Types, Control
    <2>3. ~Live(t) /\ ~Live(t)'
      BY Zenon, <1>1, <2>1, <2>2 DEF Live
    <2>4. \A u \in Task : u # t => task'[u] = task[u]
      BY Zenon, <1>0, <1>1, <1>5, Attached DEF SetOwner, Becomes
    <2> QED BY <1>2, <2>1, <2>3, <2>4
  <1>6. CASE MapStackRollback \/ task_destroy
    <2>1. InHand /\ pc \in {"unmap_stack", "destroy"} /\ pc' \in {"terminate", "idle"}
      BY Zenon, <1>6 DEF MapStackRollback, task_destroy, Return, Broken, InHand
    <2>2. ~Live(t) /\ ~InHand'
      BY Zenon, <1>1, <2>1 DEF Live, InHand
    <2>3. task[t].id \in Tid /\ task_registry[task[t].id] = NULL
      BY Zenon, <1>1, <2>1 DEF OwnInv, Hand, Subject, Listed
    <2>4. ~Broken
      BY <1>0 DEF Broken, Return
    <2>5. task'[t].id = task[t].id /\ \A u \in Task : u # t => task'[u] = task[u]
      <3>1. CASE MapStackRollback
        BY <1>0, <1>1, <3>1, RolledBack DEF SetPages, Becomes
      <3>2. CASE task_destroy
        <4>1. Retire(t)
          BY Zenon, <1>0, <1>1, <2>4, <3>2, Destroyed
        <4> QED BY <4>1 DEF Retire, Becomes
      <3> QED BY Zenon, <1>6, <3>1, <3>2
    <2>6. ~Live(t)'
      BY Zenon, <1>0, <2>2, <2>3, <2>5, Nulls DEF Live, task_registry_contains
    <2> QED BY Zenon, <1>2, <2>2, <2>5, <2>6
  <1> QED BY Zenon, <1>3, <1>4, <1>5, <1>6

(* Registration and its removal happen while the task is unpublished.      *)
LEMMA RegistryKeeps ==
  ASSUME OwnInv, OwnInv', task_registry_register \/ task_registry_unregister
  PROVE  UNCHANGED published
  <1>0. Types /\ InHand /\ pc \in {"register", "unregister"} /\ UNCHANGED task /\ result' # "broken"
    BY Zenon DEF OwnInv, Unbroken, task_registry_register, task_registry_unregister, InHand
  <1>1. PICK t \in Task, s \in Tid : t = call.task /\ s = task[t].id
    <2>1. call.task \in Task /\ Subject(call.task)
      BY Zenon, <1>0 DEF Types, Control, OwnInv, Hand
    <2> QED BY Zenon, <2>1 DEF Subject
  <1>2. /\ task_registry[s] = NULL \/ task_registry[s] = t
        /\ pc = "register" => s = call.tid
    BY <1>0, <1>1 DEF OwnInv, Hand, Subject
  <1>3. /\ task_registry'[s] \in {task_registry[s], NULL, t}
        /\ \A i \in Tid : i # s => task_registry'[i] = task_registry[i]
    BY <1>0, <1>1, <1>2 DEF task_registry_register, task_registry_unregister, Types, TaskTypes
  <1>4. /\ InHand' /\ call'.task = t /\ pc' \in {"attach", "detach", "destroy"}
        /\ pc' = "detach" => pc = "register" /\ call' = call
    BY <1>0, <1>1 DEF task_registry_register, task_registry_unregister, Broken, Return, InHand,
                      Types, Control, CallRecord
  <1>5. pc = "register" => call.op # "reap"
    BY Zenon, <1>0 DEF Types, Control
  <1>6. ~Live(t) /\ ~Live(t)'
    BY Zenon, <1>0, <1>1, <1>4, <1>5 DEF Live
  <1>7. \A u \in Task : u # t => /\ task'[u].id = task[u].id
                                 /\ task_registry_contains(u)' <=> task_registry_contains(u)
    BY <1>0, <1>2, <1>3, Nulls DEF task_registry_contains
  <1> QED BY Zenon, <1>0, <1>1, <1>4, <1>6, <1>7, OneTask

(* Admission to the run queue publishes; leaving it withdraws, and so does *)
(* leaving the process for a task that the reaper takes down.              *)
LEMMA PublicationStep ==
  ASSUME OwnInv, OwnInv', scheduler_add \/ runqueue_remove \/ process_detach_task
  PROVE  \/ UNCHANGED published
         \/ \E t \in Task : Abstract!Withdraw(t) \/ \E tid \in Tid : Abstract!Publish(t, tid)
  <1>0. Types /\ InHand /\ UNCHANGED task_registry /\ result' # "broken"
    BY Zenon DEF OwnInv, Unbroken, scheduler_add, runqueue_remove, process_detach_task, InHand, tables
  <1>1. PICK t \in Task : t = call.task
    BY Zenon, <1>0 DEF Types, Control, scheduler_add, runqueue_remove, process_detach_task
  <1>2. ~Broken
    BY Zenon, <1>0 DEF Broken, Return
  <1>3. \A u \in Task : task'[u].id = task[u].id
    <2>1. CASE scheduler_add
      BY <1>0, <2>1, Admitted DEF SetMode, Becomes
    <2>2. CASE runqueue_remove
      BY Zenon, <2>2 DEF runqueue_remove
    <2>3. CASE process_detach_task
      <3>1. SetOwner(t, NULL)
        BY Zenon, <1>0, <1>1, <1>2, <2>3, Detached
      <3> QED BY <3>1 DEF SetOwner, Becomes
    <2> QED BY Zenon, <2>1, <2>2, <2>3
  <1>4. \A u \in Task : task_registry_contains(u)' <=> task_registry_contains(u)
    BY Zenon, <1>0, <1>3 DEF task_registry_contains
  <1>5. Subject(t)
    BY Zenon, <1>0, <1>1 DEF OwnInv, Hand
  <1>6. CASE scheduler_add
    <2>1. pc = "add" /\ task_registry_contains(t) /\ task[t].id \in Tid /\ ~Live(t)
      BY <1>0, <1>1, <1>5, <1>6 DEF scheduler_add, Subject, Listed, task_registry_contains, Live
    <2>2. CASE Return("ok")
      <3>1. ~InHand' /\ Live(t)'
        BY Zenon, <1>4, <2>1, <2>2 DEF Return, InHand, Live
      <3>2. \A u \in Task : u # t /\ task_registry_contains(u) => task[u].id # task'[t].id
        BY Zenon, <1>3, <2>1 DEF task_registry_contains
      <3>3. Abstract!Publish(t, task'[t].id)
        BY Zenon, <1>0, <1>1, <1>3, <1>4, <2>1, <3>1, <3>2, OneTask
      <3> QED BY Zenon, <1>3, <2>1, <3>3
    <2>3. CASE pc' = "detach" /\ UNCHANGED call
      <3>1. call.op # "reap"
        BY <1>0, <2>1 DEF Types, Control
      <3>2. InHand' /\ ~Live(t)'
        BY <1>1, <2>3, <3>1 DEF InHand, Live
      <3> QED BY Zenon, <1>0, <1>1, <1>3, <1>4, <2>1, <2>3, <3>2, OneTask
    <2> QED BY <1>0, <1>6, <2>2, <2>3, Admitted
  <1>7. CASE runqueue_remove
    <2>1. pc = "remove" /\ pc' = "detach" /\ UNCHANGED call /\ call.op = "destroy"
      BY <1>0, <1>2, <1>7 DEF runqueue_remove, Types, Control
    <2>2. InHand' /\ Live(t) /\ ~Live(t)'
      BY <1>0, <1>1, <2>1 DEF InHand, Live
    <2> QED BY Zenon, <1>0, <1>1, <1>3, <1>4, <2>1, <2>2, OneTask
  <1>8. CASE process_detach_task
    <2>1. pc = "detach" /\ pc' = "unregister" /\ UNCHANGED call
      BY Zenon, <1>2, <1>8 DEF process_detach_task
    <2>2. InHand' /\ ~Live(t)'
      BY Zenon, <1>1, <2>1 DEF InHand, Live
    <2> QED BY Zenon, <1>0, <1>1, <1>3, <1>4, <2>1, <2>2, OneTask
  <1> QED BY Zenon, <1>6, <1>7, <1>8

(* Callers that keep their tids apart.                                     *)
LEMMA KeptApart == ASSUME UniqueTids, Types, [Next]_vars PROVE FreshTid
  <1> SUFFICES ASSUME pc = "idle", call'.op = "create" PROVE task_registry[call'.tid] = NULL
    BY Zenon DEF FreshTid
  <1>1. call = NoCall /\ NoCall.op = "none"
    BY Zenon DEF Types, Control, NoCall
  <1>2. call' # call /\ call' # NoCall
    BY Zenon, <1>1
  <1>3. ~Return("refused")
    BY Zenon, <1>2 DEF Return
  <1>4. CASE \E p \in Process, t \in Task, tid \in Tid :
                \/ execution_create_task(p, t, tid)
                \/ \E pid \in Pid : execution_create_kernel_task(p, t, pid, tid)
    <2>1. PICK p \in Process, t \in Task, tid \in Tid :
                \/ execution_create_task(p, t, tid)
                \/ \E pid \in Pid : execution_create_kernel_task(p, t, pid, tid)
      BY Zenon, <1>4
    <2>2. call'.tid = tid /\ task_registry[tid] = NULL
      BY Zenon, <1>3, <2>1 DEF execution_create_task, execution_create_kernel_task, NoCall
    <2> QED BY Zenon, <2>2
  <1>5. CASE \/ TaskRuns \/ TaskExits \/ OthersAllocate \/ OthersFree \/ UNCHANGED vars
    BY Zenon, <1>2, <1>5 DEF TaskRuns, TaskExits, OthersAllocate, OthersFree, vars
  <1>6. CASE \E p \in Process, t \in Task :
                execution_destroy_task(p, t) \/ execution_destroy_kernel_task(p, t)
    <2>1. PICK p \in Process, t \in Task, b \in BOOLEAN : StartTeardown("destroy", p, t, b, "remove")
      BY Zenon, <1>3, <1>6 DEF execution_destroy_task, execution_destroy_kernel_task
    <2>2. call'.op = "destroy"
      BY Zenon, <2>1, TeardownCall
    <2> QED BY Zenon, <2>2
  <1>7. CASE lifecycle_reap_one
    <2>1. StartTeardown("reap", task[Head(pending)].process, Head(pending), FALSE, "detach")
      BY Zenon, <1>3, <1>7 DEF lifecycle_reap_one
    <2>2. call'.op = "reap"
      BY Zenon, <2>1, TeardownCall
    <2> QED BY Zenon, <2>2
  <1>8. CASE \/ \E p \in Process : TerminateProcess(p) \/ DestroyProcess(p)
             \/ \E p \in Process, pid \in Pid, as \in AddressSpace : CreateProcess(p, pid, as)
    <2>1. call'.op \in {"terminate", "destroy_process", "process"}
      BY Zenon, <1>8 DEF TerminateProcess, DestroyProcess, CreateProcess, NoCall
    <2> QED BY Zenon, <2>1
  <1>9. ~Transaction
    BY Zenon DEF Transaction, process_create, task_create, MapStackPage, MapStackFails, MapStackRollback,
           MapStackDone, task_registry_register, process_attach_task, scheduler_add, runqueue_remove,
           process_detach_task, SkipDetach, task_registry_unregister, task_destroy, process_terminate,
           process_destroy
  <1> QED BY Zenon, <1>4, <1>5, <1>6, <1>7, <1>8, <1>9 DEF Next
=============================================================================
