SPECIFICATION Spec
CONSTANTS
    PAGE_SIZE = 2
    BYTE_BITS = 3
    UINT_MAX = 23
    FirstBase = {0, 1, 2, 3}
    FirstLength = {0, 1, 2, 5, 6}
    SecondBase = {3, 6, 7, 8}
    SecondLength = {1, 4, 7, 12}
    MemoryMap <- MCMemoryMap
INVARIANTS
    OnlyUsableMemoryIsHandedOut
    NoFrameIsLost
    CounterDriftIsConstant
PROPERTIES
    ImplementsFramePool
