SPECIFICATION Spec
CONSTANTS
    NUM_WINS = 4
    VM = 2
    MaxPC = 13
    Handler <- AllHandlers
    Programs <- AllPrograms
    Windows <- FullWindows
    MAX_ACTIVE = 4
    MAX_SPEC = 1
    ALU_UNITS = 1
    MAX_ALU = 3
    MAX_MEM = 1
    MaxTag = 8
INVARIANTS DebugChecksHold ResourcesAreConserved ShadowMapsAreExact
PROPERTY ImplementsSequential
