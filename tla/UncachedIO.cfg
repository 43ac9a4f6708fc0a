SPECIFICATION Spec
CONSTANTS
  ubufsize = 2
  ubufentrysize = 8
  ubufflush = 2
  combine = TRUE
  IO_MAX_TRANS = 4
  BUS_TOTAL_REQUESTS = 6
  PipeDepth = 2
  Workloads <- Ordinary
INVARIANTS
  TypeOK
  OrderAtTheDevice
  SnoopsWaitForTheOwner
PROPERTY
  EverythingFinishes
