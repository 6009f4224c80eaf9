SPECIFICATION MCSpec
CONSTANTS
    Task = {t1, t2}
    Process = {p1, p2}
    Frame = {1, 2, 3, 4}
    TASK_MAX_TASKS = 2
    PROCESS_MAX_PROCESSES = 2
    PROCESS_MAX_TASKS = 2
    RUNQUEUE_MAX_TASKS = 1
    TASK_KERNEL_STACK_PAGE_COUNT = 2
    AddressSpace = {kernel, other}
    KERNEL_AS = kernel
    NULL = NULL
    UniqueTids = TRUE
SYMMETRY Symmetry
INVARIANTS
    FramesConserved
    AllOrNothing
PROPERTIES
    ImplementsOwnership
    RefusalLeavesNoTrace
CHECK_DEADLOCK TRUE
