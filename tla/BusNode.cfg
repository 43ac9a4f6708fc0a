SPECIFICATION Spec
CONSTANTS
  ARCH_cpus = 1
  ARCH_ios = 1
  BUS_FREQUENCY = 1
  BUS_ARBDELAY = 1
  BUS_TURNAROUND = 1
  BUS_MINDELAY = 0
  BUS_CRITICAL_WORD = TRUE
  BUS_TOTAL_REQUESTS = 2
  MMC_writebacks = 2
  Cycles <- ShortData
  Issue <- Node
  Backlog = 2
  Horizon = 10
INVARIANTS
  TypeOK
  NoErrors
  WaitersAreSeen
  WaitersAreCounted
  RequestsBalance
  RepliesAreServed
CHECK_DEADLOCK FALSE
