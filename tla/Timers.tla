------------------------------- MODULE Timers -------------------------------
(***************************************************************************)
(* Software timers (time/timer.c), the table of registered timers          *)
(* (time/timer_manager.c), and the clock event that examines them          *)
(* (clock_event_notify, time_tick, timer_service_tick).                    *)
(*                                                                         *)
(* Two contexts share the timers.  Kernel code starts, cancels, registers  *)
(* and removes them; the clock interrupt walks the table and rearms what   *)
(* has expired.  The clock interrupt is one step: it runs with interrupts  *)
(* masked.  A start is several steps, one for each field it stores, since  *)
(* no caller masks interrupts for it.  The fields are ordinary memory and  *)
(* the stores are to distinct objects, so the build (-O2) may emit them in *)
(* any order: `call.todo' is the set of fields still to be stored.         *)
(***************************************************************************)
EXTENDS Integers, FiniteSets, FiniteSetsExt

CONSTANTS Timers,                   \* the struct timer objects
          TIMER_MANAGER_MAX_TIMERS, \* slots of the table
          UINT64_MAX,               \* the largest tick; ticks stop there in the model
          NULL

ASSUME TimersAssumption ==
  /\ TIMER_MANAGER_MAX_TIMERS \in Nat \ {0}
  /\ UINT64_MAX \in Nat
  /\ NULL \notin Timers
  /\ NULL \notin [first : Nat, every : Nat, fired : Nat]

VARIABLES time_ticks,
          timer,                     \* [Timers -> fields of struct timer]
          timer_manager_timers,      \* slot -> timer or NULL
          timer_manager_count,
          timer_service_initialized,
          call,                      \* the start in progress in kernel code
          plan                       \* history: what the last start asked for

vars == <<time_ticks, timer, timer_manager_timers, timer_manager_count,
          timer_service_initialized, call, plan>>

Ticks == 0 .. UINT64_MAX
Slots == 1 .. TIMER_MANAGER_MAX_TIMERS
Fields == {"deadline", "period", "active", "periodic"}
Timer == [deadline : Ticks, period : Ticks, active : BOOLEAN, periodic : BOOLEAN]

Idle == [t |-> NULL, new |-> NULL, todo |-> {}]

(* `plan[t]' is NULL before the first start of t and after a cancel.       *)
(* Otherwise `first' is the tick of the first expiry, `every' the period   *)
(* (0 for one shot) and `fired' the number of expiries counted since then. *)
Registered == {timer_manager_timers[i] : i \in Slots} \ {NULL}
BeingWritten(t) == call.t = t

Init ==
  /\ time_ticks = 0
  /\ timer = [t \in Timers |-> [deadline |-> 0, period |-> 0, active |-> FALSE, periodic |-> FALSE]]
  /\ timer_manager_timers = [i \in Slots |-> NULL]
  /\ timer_manager_count = 0
  /\ timer_service_initialized = FALSE
  /\ call = Idle
  /\ plan = [t \in Timers |-> NULL]

-----------------------------------------------------------------------------
(* Kernel code.                                                            *)

(* Resets the table: the timers in it stay armed and are examined no more. *)
timer_service_init ==
  /\ call = Idle
  /\ timer_manager_timers' = [i \in Slots |-> NULL]
  /\ timer_manager_count' = 0
  /\ timer_service_initialized' = TRUE
  /\ UNCHANGED <<time_ticks, timer, call, plan>>

timer_init(t) ==
  /\ call = Idle
  /\ t \notin Registered
  /\ timer' = [timer EXCEPT ![t] = [deadline |-> 0, period |-> 0, active |-> FALSE, periodic |-> FALSE]]
  /\ plan' = [plan EXCEPT ![t] = NULL]
  /\ UNCHANGED <<time_ticks, timer_manager_timers, timer_manager_count, timer_service_initialized, call>>

(* Every caller starts a timer before it registers it.                     *)
MayBeStarted_Registered(t) == call = Idle
MayBeStarted(t) ==
  /\ call = Idle
  /\ t \notin Registered

StartAccepted(delay) ==
  /\ delay # 0
  /\ delay <= UINT64_MAX - time_ticks

(* timer_start and timer_start_periodic up to the first store: the checks  *)
(* and the read of the clock.  A refused start changes nothing.            *)
Begin(t, delay, every) ==
  /\ MayBeStarted(t)
  /\ StartAccepted(delay)
  /\ call' = [t |-> t, todo |-> Fields,
              new |-> [deadline |-> (time_ticks + delay) % (UINT64_MAX + 1), period |-> every,
                       active |-> TRUE, periodic |-> every # 0]]
  /\ plan' = [plan EXCEPT ![t] = [first |-> time_ticks + delay, every |-> every, fired |-> 0]]
  /\ UNCHANGED <<time_ticks, timer, timer_manager_timers, timer_manager_count, timer_service_initialized>>

timer_start(t, delay) == Begin(t, delay, 0)
timer_start_periodic(t, period) == Begin(t, period, period)

Store(f) ==
  /\ f \in call.todo
  /\ timer' = [timer EXCEPT ![call.t][f] = call.new[f]]
  /\ call' = IF call.todo = {f} THEN Idle ELSE [call EXCEPT !.todo = @ \ {f}]
  /\ UNCHANGED <<time_ticks, timer_manager_timers, timer_manager_count, timer_service_initialized, plan>>

timer_cancel(t) ==
  /\ call = Idle
  /\ timer' = [timer EXCEPT ![t].active = FALSE]
  /\ plan' = [plan EXCEPT ![t] = NULL]
  /\ UNCHANGED <<time_ticks, timer_manager_timers, timer_manager_count, timer_service_initialized, call>>

AddRefused(t) ==
  \/ t \in Registered
  \/ NULL \notin {timer_manager_timers[i] : i \in Slots}

timer_manager_add(t) ==
  /\ call = Idle
  /\ ~AddRefused(t)
  /\ LET i == Min({j \in Slots : timer_manager_timers[j] = NULL})
     IN  timer_manager_timers' = [timer_manager_timers EXCEPT ![i] = t]
  /\ timer_manager_count' = timer_manager_count + 1
  /\ UNCHANGED <<time_ticks, timer, timer_service_initialized, call, plan>>

timer_manager_remove(t) ==
  /\ call = Idle
  /\ t \in Registered
  /\ LET i == Min({j \in Slots : timer_manager_timers[j] = t})
     IN  timer_manager_timers' = [timer_manager_timers EXCEPT ![i] = NULL]
  /\ timer_manager_count' = IF timer_manager_count > 0 THEN timer_manager_count - 1 ELSE 0
  /\ UNCHANGED <<time_ticks, timer, timer_service_initialized, call, plan>>

-----------------------------------------------------------------------------
(* The clock interrupt.                                                    *)

timer_is_expired(t, now) == timer[t].active /\ now >= timer[t].deadline

timer_rearm(r) ==
  CASE ~r.periodic -> [r EXCEPT !.active = FALSE]
    [] r.periodic /\ r.period = 0 -> r
    [] r.periodic /\ r.period # 0 /\ r.deadline > UINT64_MAX - r.period -> [r EXCEPT !.active = FALSE]
    [] OTHER -> [r EXCEPT !.deadline = (r.deadline + r.period) % (UINT64_MAX + 1)]

(* The timers one walk of the table finds expired.  The slots hold         *)
(* distinct timers, so the order of the walk does not matter.              *)
Expired_FirstSlotSkipped(now) ==
  {t \in {timer_manager_timers[i] : i \in Slots \ {1}} \ {NULL} : timer_is_expired(t, now)}
Expired(now) == {t \in Registered : timer_is_expired(t, now)}

(* What becomes of the plan of a timer that has just been counted.         *)
Counted(p) == IF p = NULL THEN NULL ELSE [p EXCEPT !.fired = @ + 1]

timer_manager_process(now) ==
  /\ timer' = [t \in Timers |-> IF t \in Expired(now) THEN timer_rearm(timer[t]) ELSE timer[t]]
  /\ plan' = [t \in Timers |-> IF t \in Expired(now) THEN Counted(plan[t]) ELSE plan[t]]

timer_service_tick(now) ==
  IF timer_service_initialized
    THEN timer_manager_process(now)
    ELSE UNCHANGED <<timer, plan>>

(* The clock interrupt, possible in the middle of a start.  The model's    *)
(* time ends at UINT64_MAX.                                                *)
clock_event_notify ==
  /\ time_ticks < UINT64_MAX
  /\ time_ticks' = time_ticks + 1
  /\ timer_service_tick(time_ticks + 1)
  /\ UNCHANGED <<timer_manager_timers, timer_manager_count, timer_service_initialized, call>>

-----------------------------------------------------------------------------
Kernel ==
  \/ timer_service_init
  \/ \E f \in Fields : Store(f)
  \/ \E t \in Timers :
       \/ timer_init(t) \/ timer_cancel(t)
       \/ timer_manager_add(t) \/ timer_manager_remove(t)
       \/ \E delay \in Ticks : timer_start(t, delay) \/ timer_start_periodic(t, delay)

Next == clock_event_notify \/ Kernel

Spec == Init /\ [][Next]_vars

(* The clock source keeps interrupting and no code masks it for ever.      *)
LiveSpec == Spec /\ WF_vars(clock_event_notify)

-----------------------------------------------------------------------------
(* Properties.                                                             *)

(* Where a timer is neither being started nor unplanned, its record is     *)
(* what its start and its expiries so far add up to: an unfired one shot is*)
(* armed for the tick asked for and a fired one is off; a periodic timer   *)
(* keeps the phase of its start however late the walks were, and is off    *)
(* only if its next deadline does not fit in 64 bits.                      *)
RecordFollowsThePlan ==
  \A t \in Timers : ~BeingWritten(t) =>
    /\ plan[t] = NULL => ~timer[t].active
    /\ plan[t] # NULL =>
         LET p == plan[t]
             next == p.first + p.fired * p.every
         IN  IF p.every = 0
               THEN /\ p.fired <= 1
                    /\ timer[t].deadline = p.first
                    /\ timer[t].active <=> p.fired = 0
               ELSE IF timer[t].active
                      THEN timer[t].deadline = next /\ timer[t].period = p.every /\ timer[t].periodic
                      ELSE next > UINT64_MAX

(* An expiry is counted only when its tick has come (timer.c:105).         *)
NeverEarly ==
  [][\A t \in Timers :
       plan[t] # NULL /\ plan'[t] # NULL /\ plan'[t].fired = plan[t].fired + 1
         => time_ticks' >= plan[t].first + plan[t].fired * plan[t].every]_vars

Lag(now, r) == IF r.active /\ now > r.deadline THEN now - r.deadline ELSE 0

(* A clock event leaves a registered timer no further behind than it was:  *)
(* one rearm per tick (timer_manager.c:112) is enough, because a period is *)
(* at least one tick.                                                      *)
LagNeverGrows ==
  [][\A t \in Registered :
       timer_service_initialized /\ time_ticks' = time_ticks + 1
         => Lag(time_ticks', timer'[t]) <= Lag(time_ticks, timer[t])]_vars

(* An armed timer in the table is counted, unless it is cancelled or the   *)
(* table loses it first.                                                   *)
ArmedTimersFire ==
  \A t \in Timers : \A d \in Ticks :
    (time_ticks < UINT64_MAX /\ timer_service_initialized /\ t \in Registered
       /\ timer[t].active /\ timer[t].deadline = d)
      ~> (~timer[t].active \/ timer[t].deadline # d \/ t \notin Registered)
=============================================================================
