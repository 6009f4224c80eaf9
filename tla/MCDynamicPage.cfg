SPECIFICATION PageSpec
CONSTANTS
    ENTRIES = 2
    PML4 = 2
    VMM_MAX_PAGE_TABLES = 6
    VMM_MAX_ADDRESS_SPACES = 2
    EPOCHS = 2
    VMM_PAGE_SIZE = 2
    PoolSizes = {3, 7}
    BootTables <- MCFlatBootTables
    BootRoot = 100
    CpuPage = {0, 4, 6, 7}
    VirtualPage = {0}
    DataFrame = {50}
    LeafFlags <- MCLeafFlags
    ImageBase = 12
    ImageSize = 2
    Sections <- MCFlatSections
    KernelFrame = 80
    HEAP_DYNAMIC_PAGE_VIRTUAL = 7
INVARIANTS
    OwnershipIsTheTree
    PageFramesAreAccountedFor
    InactiveSpacesCanBeDestroyed
    NothingLeadsToFreedFrames
    SoftwareSeesWhatTheCpuSees
PROPERTIES
    FailedCallsLeaveNoTrace
