CONSTANTS
  Lines <- ThreeLines
  Programs <- FlushPrograms
  Ways1 = 1
  Ways2 = 2
  MSHRs1 = 2
  MSHRs2 = 2
  MAX_COALS = 2
  MEM_UNITS = 2
  L2_REQUEST = 1
  L2_DATA = 2
  SNOOPS = 1
SPECIFICATION Spec
INVARIANT Inclusion
CHECK_DEADLOCK FALSE
