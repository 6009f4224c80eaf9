---------------------------- MODULE TimersProofs ----------------------------
(***************************************************************************)
(* For any number of timers and slots and any tick range: the record of a  *)
(* timer is what its start and its expiries add up to, and no expiry is    *)
(* counted early, although the clock interrupt comes between any two       *)
(* stores of a start.                                                      *)
(***************************************************************************)
EXTENDS Timers, TLAPS

Plan == [first : Ticks, every : Ticks, fired : Nat]

Shape ==
  /\ time_ticks \in Ticks
  /\ timer \in [Timers -> Timer]
  /\ timer_manager_timers \in [Slots -> Timers \union {NULL}]
  /\ timer_service_initialized \in BOOLEAN
  /\ plan \in [Timers -> Plan \union {NULL}]

(* A start in progress is of a timer outside the table, and has stored     *)
(* every field that is not among those to do.                              *)
Starting ==
  \/ call = Idle
  \/ /\ call \in [t : Timers, new : Timer, todo : SUBSET Fields]
     /\ call.t \notin Registered
     /\ plan[call.t] \in Plan /\ plan[call.t].fired = 0
     /\ call.new = [deadline |-> plan[call.t].first, period |-> plan[call.t].every,
                    active |-> TRUE, periodic |-> plan[call.t].every # 0]
     /\ \A f \in Fields \ call.todo : timer[call.t][f] = call.new[f]

(* The record of one timer, with the mode of a one shot.                   *)
Follows(p, r) ==
  /\ p = NULL => ~r.active
  /\ p # NULL /\ p.every = 0 =>
       p.fired <= 1 /\ r.deadline = p.first /\ (r.active <=> p.fired = 0) /\ ~r.periodic
  /\ p # NULL /\ p.every # 0 =>
       IF r.active
         THEN r.deadline = p.first + p.fired * p.every /\ r.period = p.every /\ r.periodic
         ELSE p.first + p.fired * p.every > UINT64_MAX

Records == \A t \in Timers : ~BeingWritten(t) => Follows(plan[t], timer[t])

IInv == Shape /\ Starting /\ Records

-----------------------------------------------------------------------------
(* The constants, as facts the provers can use one by one.                 *)
LEMMA Constants ==
  /\ UINT64_MAX \in Nat /\ NULL \notin Timers /\ NULL \notin Plan
  BY TimersAssumption DEF Plan, Ticks

(* A sum within the tick range does not wrap.                              *)
LEMMA NoWrap == ASSUME NEW n \in 0 .. UINT64_MAX PROVE n % (UINT64_MAX + 1) = n
  BY Constants

(* One more period.                                                        *)
LEMMA OneMore == ASSUME NEW a \in Nat, NEW k \in Nat, NEW e \in Nat PROVE a + (k + 1) * e = a + k * e + e /\ k * e \in Nat
  OBVIOUS

LEMMA InitInv == Init => IInv
  <1> SUFFICES ASSUME Init PROVE IInv
    OBVIOUS
  <1>1. Shape
    <2>1. 0 \in Ticks
      BY Constants DEF Ticks
    <2>2. timer \in [Timers -> Timer]
      BY <2>1 DEF Init, Timer
    <2>3. timer_manager_timers \in [Slots -> Timers \union {NULL}] /\ plan \in [Timers -> Plan \union {NULL}]
      BY DEF Init
    <2> QED BY <2>1, <2>2, <2>3 DEF Init, Shape
  <1>2. Starting
    BY DEF Init, Starting
  <1>3. Records
    BY DEF Init, Records, Follows
  <1> QED BY <1>1, <1>2, <1>3 DEF IInv

(* Between two starts no timer is being written.                           *)
LEMMA IdleWritesNothing == ASSUME call = Idle, NEW t \in Timers PROVE ~BeingWritten(t)
  BY Constants DEF Idle, BeingWritten

(* The kernel's steps on the table leave the records alone.                *)
LEMMA TableInv ==
  ASSUME IInv, call = Idle, UNCHANGED <<time_ticks, timer, call, plan>>,
         timer_manager_timers' \in [Slots -> Timers \union {NULL}], timer_service_initialized' \in BOOLEAN
  PROVE  IInv'
  <1>1. Shape'
    BY DEF IInv, Shape, Ticks, Timer, Slots, Plan
  <1>2. Starting'
    BY DEF Starting, Idle
  <1>3. Records'
    BY DEF IInv, Records, BeingWritten, Follows
  <1> QED BY <1>1, <1>2, <1>3 DEF IInv

LEMMA TableSteps ==
  ASSUME IInv, timer_service_init \/ \E t \in Timers : timer_manager_add(t) \/ timer_manager_remove(t)
  PROVE  IInv'
  <1>1. CASE timer_service_init
    BY <1>1, TableInv DEF timer_service_init
  <1>2. ASSUME NEW t \in Timers, timer_manager_add(t) PROVE IInv'
    <2>1. timer_manager_timers' \in [Slots -> Timers \union {NULL}]
      BY <1>2 DEF timer_manager_add, IInv, Shape
    <2> QED BY <1>2, <2>1, TableInv DEF timer_manager_add, IInv, Shape
  <1>3. ASSUME NEW t \in Timers, timer_manager_remove(t) PROVE IInv'
    <2>1. timer_manager_timers' \in [Slots -> Timers \union {NULL}]
      BY <1>3 DEF timer_manager_remove, IInv, Shape
    <2> QED BY <1>3, <2>1, TableInv DEF timer_manager_remove, IInv, Shape
  <1> QED BY <1>1, <1>2, <1>3

(* timer_init and timer_cancel: the timer is off and has no plan.          *)
LEMMA OffInv ==
  ASSUME IInv, NEW t \in Timers, timer_init(t) \/ timer_cancel(t)
  PROVE  IInv'
  <1>1. /\ call = Idle /\ call' = Idle /\ plan' = [plan EXCEPT ![t] = NULL]
        /\ UNCHANGED <<time_ticks, timer_manager_timers, timer_service_initialized>>
    BY DEF timer_init, timer_cancel
  <1>2. timer' \in [Timers -> Timer] /\ ~timer'[t].active /\ \A u \in Timers : u # t => timer'[u] = timer[u]
    <2>1. timer \in [Timers -> Timer] /\ 0 \in Ticks
      BY Constants DEF IInv, Shape, Ticks
    <2>2. CASE timer_init(t)
      <3> DEFINE off == [deadline |-> 0, period |-> 0, active |-> FALSE, periodic |-> FALSE]
      <3>1. off \in Timer /\ ~off.active
        BY <2>1 DEF Timer
      <3>2. timer' = [timer EXCEPT ![t] = off]
        BY <2>2 DEF timer_init
      <3> HIDE DEF off
      <3> QED BY <2>1, <3>1, <3>2
    <2>3. CASE timer_cancel(t)
      <3> DEFINE off == [timer[t] EXCEPT !.active = FALSE]
      <3>1. off \in Timer /\ ~off.active
        BY <2>1 DEF Timer
      <3>2. timer' = [timer EXCEPT ![t] = off]
        BY <2>3 DEF timer_cancel
      <3> HIDE DEF off
      <3> QED BY <2>1, <3>1, <3>2
    <2> QED BY <2>2, <2>3
  <1>3. Shape'
    BY <1>1, <1>2 DEF IInv, Shape, Ticks, Timer, Slots, Plan
  <1>4. Starting'
    BY <1>1 DEF Starting, Idle
  <1>5. ASSUME NEW u \in Timers PROVE Follows(plan'[u], timer'[u])
    <2>1. CASE u = t
      <3>1. plan'[u] = NULL
        BY <1>1, <2>1 DEF IInv, Shape
      <3> QED BY <1>2, <2>1, <3>1 DEF Follows
    <2>2. CASE u # t
      <3>1. plan'[u] = plan[u] /\ timer'[u] = timer[u]
        BY <1>1, <1>2, <2>2 DEF IInv, Shape
      <3> QED BY <1>1, <3>1, IdleWritesNothing DEF IInv, Records
    <2> QED BY <2>1, <2>2
  <1>6. Records'
    BY <1>5 DEF Records, Follows
  <1> QED BY <1>3, <1>4, <1>6 DEF IInv

(* A start begins: the plan is made, the record still to be written.       *)
LEMMA BeginInv ==
  ASSUME IInv, NEW t \in Timers, NEW delay \in Ticks, NEW every \in Ticks, Begin(t, delay, every)
  PROVE  IInv'
  <1> DEFINE p == [first |-> time_ticks + delay, every |-> every, fired |-> 0]
             new == [deadline |-> time_ticks + delay, period |-> every, active |-> TRUE, periodic |-> every # 0]
  <1>1. call = Idle /\ t \notin Registered /\ time_ticks \in Ticks
    BY DEF Begin, MayBeStarted, IInv, Shape
  <1>2. time_ticks + delay \in Ticks
    BY <1>1, Constants DEF Begin, StartAccepted, Ticks
  <1>3. (time_ticks + delay) % (UINT64_MAX + 1) = time_ticks + delay
    BY <1>2, NoWrap DEF Ticks
  <1>4. p \in Plan /\ new \in Timer
    BY <1>2 DEF Plan, Timer
  <1>5. /\ call' = [t |-> t, todo |-> Fields, new |-> new]
        /\ plan' = [plan EXCEPT ![t] = p]
        /\ UNCHANGED <<time_ticks, timer, timer_manager_timers, timer_service_initialized>>
    BY <1>3 DEF Begin
  <1>6. plan'[t] = p /\ \A u \in Timers : u # t => plan'[u] = plan[u]
    BY <1>5 DEF IInv, Shape
  <1>7. Shape'
    BY <1>4, <1>5 DEF IInv, Shape, Ticks, Timer, Slots, Plan
  <1>8. Starting'
    <2>1. call' \in [t : Timers, new : Timer, todo : SUBSET Fields]
      BY <1>4, <1>5
    <2>2. call'.t = t /\ call'.new = new /\ call'.todo = Fields
      BY <1>5
    <2>3. t \notin Registered'
      BY <1>1, <1>5 DEF Registered
    <2>4. plan'[call'.t] \in Plan /\ plan'[call'.t].fired = 0
      BY <1>4, <1>6, <2>2
    <2>5. call'.new = [deadline |-> plan'[call'.t].first, period |-> plan'[call'.t].every,
                       active |-> TRUE, periodic |-> plan'[call'.t].every # 0]
      <3>1. p.first = time_ticks + delay /\ p.every = every
        OBVIOUS
      <3>2. plan'[call'.t].first = time_ticks + delay /\ plan'[call'.t].every = every
        BY <1>6, <2>2, <3>1
      <3> HIDE DEF p
      <3> QED BY <2>2, <3>2, Zenon
    <2>6. \A f \in Fields \ call'.todo : timer'[call'.t][f] = call'.new[f]
      BY <2>2
    <2> HIDE DEF p, new
    <2> QED BY <2>1, <2>2, <2>3, <2>4, <2>5, <2>6 DEF Starting, Timer, Fields, Plan, Ticks
  <1>9. Records'
    <2> SUFFICES ASSUME NEW u \in Timers, u # t PROVE Follows(plan'[u], timer'[u])
      BY <1>5 DEF Records, BeingWritten, Follows
    <2>1. plan'[u] = plan[u] /\ timer'[u] = timer[u]
      BY <1>5, <1>6
    <2> QED BY <1>1, <2>1, IdleWritesNothing DEF IInv, Records
  <1> QED BY <1>7, <1>8, <1>9 DEF IInv

(* One store; the last one completes the record of the plan.               *)
LEMMA StoreInv ==
  ASSUME IInv, NEW f \in Fields, Store(f)
  PROVE  IInv'
  <1>1. call # Idle
    BY DEF Store, Idle
  <1>2. /\ call \in [t : Timers, new : Timer, todo : SUBSET Fields] /\ call.t \notin Registered
        /\ plan[call.t] \in Plan /\ plan[call.t].fired = 0
        /\ call.new = [deadline |-> plan[call.t].first, period |-> plan[call.t].every,
                       active |-> TRUE, periodic |-> plan[call.t].every # 0]
        /\ \A g \in Fields \ call.todo : timer[call.t][g] = call.new[g]
    BY <1>1 DEF IInv, Starting
  <1>3. /\ f \in call.todo /\ timer' = [timer EXCEPT ![call.t][f] = call.new[f]]
        /\ call' = IF call.todo = {f} THEN Idle ELSE [call EXCEPT !.todo = @ \ {f}]
        /\ UNCHANGED <<time_ticks, timer_manager_timers, timer_service_initialized, plan>>
    BY DEF Store
  <1>4. /\ timer' \in [Timers -> Timer]
        /\ \A u \in Timers : u # call.t => timer'[u] = timer[u]
        /\ timer'[call.t][f] = call.new[f]
        /\ \A g \in Fields : g # f => timer'[call.t][g] = timer[call.t][g]
    BY <1>2, <1>3 DEF IInv, Shape, Timer, Fields
  <1>5. Shape'
    BY <1>3, <1>4 DEF IInv, Shape, Ticks, Timer, Slots, Plan
  <1>6. \A u \in Timers : u # call.t => Follows(plan'[u], timer'[u])
    BY <1>3, <1>4 DEF IInv, Records, BeingWritten
  <1>7. CASE call.todo = {f}
    <2>1. Starting'
      BY <1>3, <1>7 DEF Starting, Idle
    <2>2. \A g \in Fields : timer'[call.t][g] = call.new[g]
      BY <1>2, <1>4, <1>7
    <2>3. /\ timer'[call.t].deadline = plan[call.t].first /\ timer'[call.t].period = plan[call.t].every
          /\ timer'[call.t].active = TRUE /\ timer'[call.t].periodic = (plan[call.t].every # 0)
      <3>1. timer'[call.t].deadline = call.new.deadline /\ timer'[call.t].period = call.new.period
        BY <2>2 DEF Fields
      <3>2. timer'[call.t].active = call.new.active /\ timer'[call.t].periodic = call.new.periodic
        BY <2>2 DEF Fields
      <3>3. /\ call.new.deadline = plan[call.t].first /\ call.new.period = plan[call.t].every
            /\ call.new.active = TRUE /\ call.new.periodic = (plan[call.t].every # 0)
        BY <1>2
      <3> QED BY <3>1, <3>2, <3>3
    <2>4. Follows(plan'[call.t], timer'[call.t])
      <3>1. plan[call.t] # NULL /\ plan[call.t].first \in Nat /\ plan[call.t].every \in Nat
        BY <1>2, Constants DEF Plan, Ticks
      <3>2. plan[call.t].first + plan[call.t].fired * plan[call.t].every = plan[call.t].first
        BY <1>2, <3>1
      <3>3. plan'[call.t] = plan[call.t] /\ plan[call.t].fired = 0
        BY <1>2, <1>3
      <3>4. timer'[call.t].active /\ (timer'[call.t].periodic <=> plan[call.t].every # 0)
        BY <2>3
      <3>5. timer'[call.t].deadline = plan[call.t].first /\ timer'[call.t].period = plan[call.t].every
        BY <2>3
      <3> QED BY <3>1, <3>2, <3>3, <3>4, <3>5 DEF Follows
    <2>5. Records'
      BY <1>2, <1>6, <2>4 DEF Records, Follows
    <2> QED BY <1>5, <2>1, <2>5 DEF IInv
  <1>8. CASE call.todo # {f}
    <2>1. /\ call' \in [t : Timers, new : Timer, todo : SUBSET Fields]
          /\ call'.t = call.t /\ call'.new = call.new /\ call'.todo = call.todo \ {f}
      BY <1>2, <1>3, <1>8
    <2>2. call'.t \notin Registered'
      BY <1>2, <1>3, <2>1 DEF Registered
    <2>3. \A g \in Fields \ call'.todo : timer'[call'.t][g] = call'.new[g]
      <3> SUFFICES ASSUME NEW g \in Fields, g = f \/ g \notin call.todo
                   PROVE  timer'[call.t][g] = call.new[g]
        BY <2>1
      <3>1. CASE g = f
        BY <1>4, <3>1
      <3>2. CASE g # f
        <4>1. timer'[call.t][g] = timer[call.t][g]
          BY <1>4, <3>2
        <4>2. timer[call.t][g] = call.new[g]
          BY <1>2, <3>2
        <4> QED BY <4>1, <4>2
      <3> QED BY <3>1, <3>2
    <2>4. Starting'
      BY <1>2, <1>3, <2>1, <2>2, <2>3 DEF Starting, Timer, Fields, Plan, Ticks
    <2>5. Records'
      BY <1>6, <2>1 DEF Records, BeingWritten, Follows
    <2> QED BY <1>5, <2>4, <2>5 DEF IInv
  <1> QED BY <1>7, <1>8

-----------------------------------------------------------------------------
(* What one expiry does to a record that follows its plan.                 *)
LEMMA RearmFollows ==
  ASSUME NEW p \in Plan, NEW r \in Timer, Follows(p, r), r.active
  PROVE  /\ timer_rearm(r) \in Timer
         /\ Counted(p) \in Plan
         /\ Follows(Counted(p), timer_rearm(r))
  <1> DEFINE q == Counted(p)
  <1>1. /\ p # NULL /\ p.first \in Nat /\ p.every \in Nat /\ p.fired \in Nat
        /\ r.deadline \in Nat /\ r.deadline <= UINT64_MAX /\ r.period \in Nat
    BY Constants DEF Plan, Timer, Ticks
  <1>2. q \in Plan /\ q # NULL /\ q.first = p.first /\ q.every = p.every /\ q.fired = p.fired + 1
    <2>1. q = [p EXCEPT !.fired = @ + 1]
      BY <1>1 DEF Counted
    <2>2. q \in Plan /\ q.first = p.first /\ q.every = p.every /\ q.fired = p.fired + 1
      BY <2>1 DEF Plan
    <2> QED BY <2>2, Constants
  <1> HIDE DEF q
  <1>3. CASE p.every = 0
    <2>1. ~r.periodic /\ r.deadline = p.first /\ p.fired = 0
      BY <1>1, <1>3 DEF Follows
    <2>2. timer_rearm(r) = [r EXCEPT !.active = FALSE]
      BY <2>1 DEF timer_rearm
    <2>3. timer_rearm(r) \in Timer /\ ~timer_rearm(r).active /\ timer_rearm(r).deadline = p.first /\ ~timer_rearm(r).periodic
      BY <2>1, <2>2 DEF Timer
    <2>4. Follows(q, timer_rearm(r))
      BY <1>2, <1>3, <2>1, <2>3 DEF Follows
    <2> QED BY <1>2, <2>3, <2>4 DEF q
  <1>4. CASE p.every # 0
    <2>1. r.deadline = p.first + p.fired * p.every /\ r.period = p.every /\ r.periodic /\ r.period # 0
      BY <1>1, <1>4 DEF Follows
    <2>2. q.first + q.fired * q.every = r.deadline + r.period
      BY <1>1, <1>2, <2>1, OneMore
    <2>3. CASE r.deadline > UINT64_MAX - r.period
      <3>1. timer_rearm(r) = [r EXCEPT !.active = FALSE]
        BY <2>1, <2>3 DEF timer_rearm
      <3>2. timer_rearm(r) \in Timer /\ ~timer_rearm(r).active
        BY <3>1 DEF Timer
      <3>3. q.first + q.fired * q.every > UINT64_MAX
        BY <1>1, <2>2, <2>3, Constants
      <3>4. Follows(q, timer_rearm(r))
        BY <1>2, <1>4, <3>2, <3>3 DEF Follows
      <3> QED BY <1>2, <3>2, <3>4 DEF q
    <2>4. CASE ~(r.deadline > UINT64_MAX - r.period)
      <3>1. r.deadline + r.period \in 0 .. UINT64_MAX
        BY <1>1, <2>4, Constants
      <3>2. timer_rearm(r) = [r EXCEPT !.deadline = r.deadline + r.period]
        BY <2>1, <2>4, <3>1, NoWrap DEF timer_rearm
      <3>3. /\ timer_rearm(r) \in Timer /\ timer_rearm(r).active /\ timer_rearm(r).deadline = r.deadline + r.period
            /\ timer_rearm(r).period = r.period /\ timer_rearm(r).periodic
        BY <2>1, <3>1, <3>2 DEF Timer, Ticks
      <3>4. Follows(q, timer_rearm(r))
        BY <1>2, <1>4, <2>1, <2>2, <3>3 DEF Follows
      <3> QED BY <1>2, <3>3, <3>4 DEF q
    <2> QED BY <2>3, <2>4
  <1> QED BY <1>3, <1>4

(* The timers a clock event rearms have a complete record and a plan.      *)
LEMMA ExpiredHavePlans ==
  ASSUME IInv, NEW t \in Expired(time_ticks + 1)
  PROVE  /\ t \in Timers /\ ~BeingWritten(t) /\ timer[t].active
         /\ plan[t] \in Plan /\ Follows(plan[t], timer[t])
  <1>1. t \in Registered /\ timer[t].active
    BY DEF Expired, timer_is_expired
  <1>2. t \in Timers
    BY <1>1 DEF Registered, IInv, Shape
  <1>3. ~BeingWritten(t)
    <2>1. CASE call = Idle
      BY <1>2, <2>1, IdleWritesNothing
    <2>2. CASE call # Idle
      BY <1>1, <2>2 DEF IInv, Starting, BeingWritten
    <2> QED BY <2>1, <2>2
  <1>4. Follows(plan[t], timer[t])
    BY <1>2, <1>3 DEF IInv, Records
  <1>5. plan[t] # NULL
    BY <1>1, <1>4 DEF Follows
  <1> QED BY <1>1, <1>2, <1>3, <1>4, <1>5 DEF IInv, Shape

(* The clock interrupt, in the middle of a start or not.                   *)
LEMMA ClockInv ==
  ASSUME IInv, clock_event_notify
  PROVE  IInv'
  <1> DEFINE E == IF timer_service_initialized THEN Expired(time_ticks + 1) ELSE {}
  <1>1. /\ time_ticks' = time_ticks + 1 /\ time_ticks' \in Ticks
        /\ UNCHANGED <<timer_manager_timers, timer_service_initialized, call>>
    BY Constants DEF clock_event_notify, IInv, Shape, Ticks
  <1>2. \A t \in Timers : t \in E => timer'[t] = timer_rearm(timer[t]) /\ plan'[t] = Counted(plan[t])
    BY DEF clock_event_notify, timer_service_tick, timer_manager_process
  <1>3. \A t \in Timers : t \notin E => timer'[t] = timer[t] /\ plan'[t] = plan[t]
    BY DEF clock_event_notify, timer_service_tick, timer_manager_process
  <1>4. \A t \in E : t \in Timers /\ ~BeingWritten(t) /\ timer[t].active /\ plan[t] \in Plan /\ Follows(plan[t], timer[t])
    BY ExpiredHavePlans
  <1>5. DOMAIN timer' = Timers /\ DOMAIN plan' = Timers /\ timer' = [t \in Timers |-> timer'[t]] /\ plan' = [t \in Timers |-> plan'[t]]
    BY DEF clock_event_notify, timer_service_tick, timer_manager_process, IInv, Shape
  <1> HIDE DEF E
  <1>6. ASSUME NEW t \in Timers
        PROVE  timer'[t] \in Timer /\ plan'[t] \in Plan \union {NULL} /\ (~BeingWritten(t) => Follows(plan'[t], timer'[t]))
    <2>1. timer[t] \in Timer /\ plan[t] \in Plan \union {NULL}
      BY DEF IInv, Shape
    <2>2. CASE t \in E
      BY <1>2, <1>4, <2>1, <2>2, RearmFollows
    <2>3. CASE t \notin E
      BY <1>3, <2>1, <2>3 DEF IInv, Records
    <2> QED BY <2>2, <2>3
  <1>7. timer' \in [Timers -> Timer] /\ plan' \in [Timers -> Plan \union {NULL}]
    BY <1>5, <1>6
  <1>8. Shape'
    BY <1>1, <1>7 DEF IInv, Shape, Ticks, Timer, Slots, Plan
  <1>9. Records'
    BY <1>1, <1>6 DEF Records, BeingWritten, Follows
  <1>10. Starting'
    <2>1. CASE call = Idle
      BY <1>1, <2>1 DEF Starting, Idle
    <2>2. CASE call # Idle
      <3>1. call.t \in Timers /\ BeingWritten(call.t)
        BY <2>2 DEF IInv, Starting, BeingWritten
      <3>2. timer'[call.t] = timer[call.t] /\ plan'[call.t] = plan[call.t]
        BY <1>3, <1>4, <3>1
      <3>3. Registered' = Registered
        BY <1>1 DEF Registered
      <3> QED BY SMTT(30), <1>1, <2>2, <3>2, <3>3 DEF IInv, Starting, Timer, Fields, Plan, Ticks
    <2> QED BY <2>1, <2>2
  <1> QED BY <1>8, <1>9, <1>10 DEF IInv

(* A step preserves the invariant.                                         *)
LEMMA StepInv == ASSUME IInv, [Next]_vars PROVE IInv'
  <1>1. CASE UNCHANGED vars
    <2>1. Shape'
      BY <1>1 DEF vars, IInv, Shape, Ticks, Timer, Slots, Plan
    <2>2. Starting'
      BY SMTT(30), <1>1 DEF vars, IInv, Starting, Idle, Registered, Timer, Fields, Plan, Ticks
    <2>3. Records'
      BY <1>1 DEF vars, IInv, Records, BeingWritten, Follows
    <2> QED BY <2>1, <2>2, <2>3 DEF IInv
  <1>2. ASSUME NEW t \in Timers, NEW delay \in Ticks, timer_start(t, delay) \/ timer_start_periodic(t, delay)
        PROVE  IInv'
    <2>1. 0 \in Ticks
      BY Constants DEF Ticks
    <2> QED BY <1>2, <2>1, BeginInv DEF timer_start, timer_start_periodic
  <1>3. CASE Next
    BY <1>2, <1>3, TableSteps, OffInv, StoreInv, ClockInv DEF Next, Kernel
  <1> QED BY <1>1, <1>3

(* The record of every timer is what its start and its expiries add up to. *)
THEOREM RecordsFollowPlans == Spec => []RecordFollowsThePlan
  <1>1. IInv => RecordFollowsThePlan
    BY DEF IInv, Records, Follows, RecordFollowsThePlan
  <1> QED BY <1>1, InitInv, StepInv, PTL DEF Spec

(* Only a clock event counts an expiry, and none before its tick.          *)
LEMMA StepNotEarly ==
  ASSUME IInv, Next, NEW t \in Timers, plan[t] # NULL, plan'[t] # NULL, plan'[t].fired = plan[t].fired + 1
  PROVE  time_ticks' >= plan[t].first + plan[t].fired * plan[t].every
  <1>1. plan[t] \in Plan /\ plan[t].fired \in Nat /\ plan[t].first \in Nat /\ plan[t].every \in Nat
    BY DEF IInv, Shape, Plan, Ticks
  <1>2. ASSUME plan'[t] = plan[t] PROVE FALSE
    BY <1>1, <1>2
  <1>3. ASSUME Kernel PROVE FALSE
    <2>1. ASSUME NEW u \in Timers, NEW delay, NEW every, Begin(u, delay, every) PROVE FALSE
      <3>1. plan' = [plan EXCEPT ![u] = [first |-> time_ticks + delay, every |-> every, fired |-> 0]]
        BY <2>1 DEF Begin
      <3>2. plan'[t] = plan[t] \/ plan'[t].fired = 0
        BY <3>1 DEF IInv, Shape
      <3> QED BY <1>1, <1>2, <3>2
    <2>2. ASSUME NEW u \in Timers, timer_init(u) \/ timer_cancel(u) PROVE FALSE
      <3>1. plan'[t] = plan[t] \/ plan'[t] = NULL
        BY <2>2 DEF timer_init, timer_cancel, IInv, Shape
      <3> QED BY <1>2, <3>1
    <2>3. ASSUME plan' = plan PROVE FALSE
      BY <1>2, <2>3
    <2> QED BY <1>3, <2>1, <2>2, <2>3 DEF Kernel, timer_start, timer_start_periodic, timer_service_init,
                                           Store, timer_manager_add, timer_manager_remove
  <1>4. clock_event_notify
    BY <1>3 DEF Next
  <1>5. timer_service_initialized /\ t \in Expired(time_ticks + 1) /\ time_ticks' = time_ticks + 1
    BY <1>2, <1>4 DEF clock_event_notify, timer_service_tick, timer_manager_process
  <1>6. timer[t].active /\ Follows(plan[t], timer[t]) /\ time_ticks' >= timer[t].deadline
    BY <1>5, ExpiredHavePlans DEF Expired, timer_is_expired
  <1>7. timer[t].deadline = plan[t].first + plan[t].fired * plan[t].every
    <2>1. CASE plan[t].every = 0
      <3>1. plan[t].fired = 0 /\ timer[t].deadline = plan[t].first
        BY <1>6, <2>1 DEF Follows
      <3> QED BY <1>1, <2>1, <3>1
    <2>2. CASE plan[t].every # 0
      BY <1>6, <2>2 DEF Follows
    <2> QED BY <2>1, <2>2
  <1> QED BY <1>6, <1>7

(* No expiry is counted before its tick has come.                          *)
THEOREM ExpiriesAreNotEarly == Spec => NeverEarly
  <1> DEFINE Step == \A t \in Timers :
                       plan[t] # NULL /\ plan'[t] # NULL /\ plan'[t].fired = plan[t].fired + 1
                         => time_ticks' >= plan[t].first + plan[t].fired * plan[t].every
  <1>1. IInv /\ [Next]_vars => [Step]_vars
    BY StepNotEarly
  <1>2. Spec => []IInv
    BY InitInv, StepInv, PTL DEF Spec
  <1> QED BY <1>1, <1>2, PTL DEF Spec, NeverEarly

(* A rearm moves the deadline by at least the tick that has passed.        *)
LEMMA RearmKeepsUp ==
  ASSUME NEW p \in Plan, NEW r \in Timer, Follows(p, r), r.active, NEW now \in Ticks, now + 1 >= r.deadline
  PROVE  Lag(now + 1, timer_rearm(r)) <= Lag(now, r)
  <1>1. /\ p # NULL /\ p.every \in Nat /\ now \in Nat /\ UINT64_MAX \in Nat
        /\ r.deadline \in Nat /\ r.deadline <= UINT64_MAX /\ r.period \in Nat
    BY Constants DEF Plan, Timer, Ticks
  <1>2. Lag(now, r) \in Nat /\ Lag(now, r) >= now - r.deadline
    BY <1>1 DEF Lag
  <1>3. ASSUME NEW q \in Timer, ~q.active PROVE Lag(now + 1, q) <= Lag(now, r)
    BY <1>2, <1>3 DEF Lag
  <1>4. CASE timer_rearm(r) = [r EXCEPT !.active = FALSE]
    <2>1. [r EXCEPT !.active = FALSE] \in Timer /\ ~[r EXCEPT !.active = FALSE].active
      BY DEF Timer
    <2> QED BY <1>3, <1>4, <2>1
  <1>5. CASE timer_rearm(r) # [r EXCEPT !.active = FALSE]
    <2>1. r.periodic
      BY <1>5 DEF timer_rearm
    <2>2. p.every # 0
      BY <1>1, <2>1 DEF Follows
    <2>3. r.period # 0
      BY <1>1, <2>2 DEF Follows
    <2>4. ~(r.deadline > UINT64_MAX - r.period)
      BY <1>5, <2>1, <2>3 DEF timer_rearm
    <2>5. r.deadline + r.period \in 0 .. UINT64_MAX
      BY <1>1, <2>4
    <2>6. timer_rearm(r) = [r EXCEPT !.deadline = r.deadline + r.period]
      BY <2>1, <2>3, <2>4, <2>5, NoWrap DEF timer_rearm
    <2>7. timer_rearm(r).deadline = r.deadline + r.period
      BY <2>6 DEF Timer
    <2> QED BY <1>1, <1>2, <2>3, <2>7 DEF Lag
  <1> QED BY <1>4, <1>5

LEMMA StepKeepsUp ==
  ASSUME IInv, Next, NEW t \in Registered, timer_service_initialized, time_ticks' = time_ticks + 1
  PROVE  Lag(time_ticks', timer'[t]) <= Lag(time_ticks, timer[t])
  <1>1. time_ticks \in Ticks /\ time_ticks \in Nat /\ t \in Timers /\ timer[t] \in Timer
    BY DEF IInv, Shape, Ticks, Registered
  <1>2. clock_event_notify
    <2>1. timer_service_init => time_ticks' = time_ticks
      BY DEF timer_service_init
    <2>2. \A f \in Fields : Store(f) => time_ticks' = time_ticks
      BY DEF Store
    <2>3. \A u \in Timers : timer_init(u) \/ timer_cancel(u) => time_ticks' = time_ticks
      BY DEF timer_init, timer_cancel
    <2>4. \A u \in Timers : timer_manager_add(u) \/ timer_manager_remove(u) => time_ticks' = time_ticks
      BY DEF timer_manager_add, timer_manager_remove
    <2>5. \A u \in Timers, d \in Ticks : timer_start(u, d) \/ timer_start_periodic(u, d) => time_ticks' = time_ticks
      BY DEF timer_start, timer_start_periodic, Begin
    <2>6. Kernel => time_ticks' = time_ticks
      BY <2>1, <2>2, <2>3, <2>4, <2>5 DEF Kernel
    <2> QED BY <1>1, <2>6 DEF Next
  <1>3. CASE t \in Expired(time_ticks + 1)
    <2>1. timer'[t] = timer_rearm(timer[t])
      BY <1>1, <1>2, <1>3 DEF clock_event_notify, timer_service_tick, timer_manager_process
    <2>2. timer[t].active /\ plan[t] \in Plan /\ Follows(plan[t], timer[t]) /\ time_ticks + 1 >= timer[t].deadline
      BY <1>3, ExpiredHavePlans DEF Expired, timer_is_expired
    <2> QED BY <1>1, <2>1, <2>2, RearmKeepsUp
  <1>4. CASE t \notin Expired(time_ticks + 1)
    <2>1. timer'[t] = timer[t]
      BY <1>1, <1>2, <1>4 DEF clock_event_notify, timer_service_tick, timer_manager_process
    <2>2. timer[t].deadline \in Nat /\ ~(timer[t].active /\ time_ticks + 1 >= timer[t].deadline)
      BY <1>1, <1>4 DEF Expired, timer_is_expired, Timer, Ticks
    <2> QED BY <1>1, <2>1, <2>2 DEF Lag
  <1> QED BY <1>3, <1>4

(* One rearm per clock event keeps every registered timer up.              *)
THEOREM RegisteredTimersKeepUp == Spec => LagNeverGrows
  <1> DEFINE Step == \A t \in Registered :
                       timer_service_initialized /\ time_ticks' = time_ticks + 1
                         => Lag(time_ticks', timer'[t]) <= Lag(time_ticks, timer[t])
  <1>1. IInv /\ [Next]_vars => [Step]_vars
    BY StepKeepsUp
  <1>2. Spec => []IInv
    BY InitInv, StepInv, PTL DEF Spec
  <1> QED BY <1>1, <1>2, PTL DEF Spec, LagNeverGrows
=============================================================================
