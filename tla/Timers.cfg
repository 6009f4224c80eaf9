SPECIFICATION LiveSpec
CONSTANTS
  t1 = t1
  t2 = t2
  NULL = NULL
  Timers = {t1, t2}
  TIMER_MANAGER_MAX_TIMERS = 1
  UINT64_MAX = 3
INVARIANT
  RecordFollowsThePlan
PROPERTY
  ArmedTimersFire
