SPECIFICATION DetourSpec
CONSTANTS
    HOOK_LENGTH = 14
    ONION_X64_TRAMPOLINE_CAPACITY = 200
    Rel32 = 1000
    Reach = 1000
    PageSize = 256
    kSlotsPerMapping = 2
    kMaxMappings = 2
    Lengths = {200}
    Targets <- MCTargets
    MapBases <- MCMapBases
    Hook = {h1, h2}
    Called <- MCCalled
    Programs <- MCPrograms
    PointerBytes <- MCPointerBytes
    None = None
INVARIANTS
    NeverRefused
    FramesRunOriginal
    HooksKept
PROPERTY
    KeepsItsPromise
SYMMETRY HooksAlike
CHECK_DEADLOCK FALSE
