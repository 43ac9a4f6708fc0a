\* The memory unit runs short programs: forwarding, limbo, barriers, flushes.
SPECIFICATION Spec
CONSTANTS
    Programs <- MCPrograms
    Bytes <- MCBytes
    MAX_STORE_BUF = 2
    GRADUATE_RATE = 2
    L1Ports = 2
INVARIANTS
    LoadsReadTheLastStore
    StoresReachMemoryInOrder
    MembarsOrder
    QueuesAreExact
PROPERTIES
    EveryInstructionFinishes
