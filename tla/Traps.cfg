CONSTANTS
  Contexts <- AllContexts
  Program <- Programs
  DataPages <- UserPages
  Initial <- FirstData
  PageOf <- CodePage
  KernelPage = 3
  Handler <- Kernel
  Remap <- KernelRemap
  PageTables <- FirstTables
  Memory <- FirstMemory
  Buffers <- AllBuffers
  Posts <- Interrupts
  NUM_TRAPS = 4
SPECIFICATION FairSpec
INVARIANTS
  TranslationHolds
  InterruptsArePermitted
PROPERTIES
  TrapsAreInvisible
  EveryRunEnds
CHECK_DEADLOCK FALSE
