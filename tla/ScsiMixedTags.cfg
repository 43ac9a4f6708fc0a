SPECIFICATION Spec
CONSTANTS
  Segments = 4
  SegmentSize = 2
  WriteSegments = 2
  Blocks = 6
  request_queue = 2
  response_queue = 4
  fast_writes = TRUE
  prefetch = TRUE
  full_num = 3
  full_den = 4
  Workloads <- MixedTags
PROPERTY EveryCommandEnds
