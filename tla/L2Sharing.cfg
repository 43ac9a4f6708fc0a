SPECIFICATION VictimSpec
CONSTANTS
  c1 = c1
  c2 = c2
  x = x
  y = y
  z = z
  None = None
  CPUs = {c1, c2}
  Lines = {x, y}
  Ways <- OneWay
  Issue <- Contending
  Window = 2
  WBUF = 1
  L2_REQQ = 1
  MSHRS = 1
  MAX_COALS = 2
  DATA_STAGES = 1
  REQUEST_BUFFER = 1
  OUT_BUFFER = 1
  BUS_TOTAL_REQUESTS = 2
INVARIANTS
  BookkeepingAgrees
  SingleWriter
  MemoryReplyIsCurrent
