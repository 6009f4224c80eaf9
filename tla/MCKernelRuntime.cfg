SPECIFICATION LifeSpec
CONSTANTS
    root = root
    reaper = reaper
    kernel = kernel
    Task = {root, reaper}
    Process = {kernel}
    Frame = {1, 2, 3, 4, 5}
    TASK_MAX_TASKS = 2
    PROCESS_MAX_PROCESSES = 1
    PROCESS_MAX_TASKS = 2
    RUNQUEUE_MAX_TASKS = 2
    TASK_KERNEL_STACK_PAGE_COUNT = 2
    kernel_as = kernel_as
    KERNEL_AS = kernel_as
    AddressSpace = {kernel_as}
    NULL = NULL
    UniqueTids = FALSE
    MaxAttempts = 3
    ROOT_TICKS = 4
INVARIANTS
    FailedInitLeavesNothing
    FailsOnlyForCause
    ReportedOnlyAfterReclaim
PROPERTIES
    ImplementsScheduler
    RootIsReclaimed
