SPECIFICATION Spec
CONSTANTS
    NUM_WINS = 4
    VM = 2
    MaxPC = 13
    Handler <- CleanWindowHandlers
    Programs <- CleanWindowPrograms
    Windows <- UncleanWindows
    MAX_ACTIVE = 3
    MAX_SPEC = 1
    ALU_UNITS = 1
    MAX_ALU = 2
    MAX_MEM = 1
    MaxTag = 6
PROPERTY ImplementsSequential
