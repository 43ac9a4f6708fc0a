SPECIFICATION DirtyElsewhereSpec
CONSTANTS
  c1 = c1
  c2 = c2
  x = x
  y = y
  z = z
  None = None
  CPUs = {c1, c2}
  Lines = {x, y}
  Ways <- TwoWays
  Issue <- TwoLines
  Window = 2
  WBUF = 1
  L2_REQQ = 2
  MSHRS = 2
  MAX_COALS = 2
  DATA_STAGES = 1
  REQUEST_BUFFER = 2
  OUT_BUFFER = 1
  BUS_TOTAL_REQUESTS = 8
INVARIANTS
  AnsweredRequestCompletes
CHECK_DEADLOCK FALSE
