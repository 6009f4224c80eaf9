CONSTANTS
    a = a
    b = b
    c = c
    q = q
    NULL = NULL
    Task <- MCTask
    Queue <- MCQueue
    Managed <- MCManaged
    Reaper <- MCReaper
    TASK_MAX_TASKS = 3
    WAIT_QUEUE_MAX_TASKS = 1
SPECIFICATION FairSpec
INVARIANTS
    NoIntermediateStateVisible
    AuthorityNamesLiveContinuation
    StacksOutliveExecution
    HaltsOnlyWhenNothingIsRunnable
    PendingIsWhatIsLeftToReap
PROPERTIES
    NoOvertaking
    NoStarvation
