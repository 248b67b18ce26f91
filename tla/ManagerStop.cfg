SPECIFICATION FairSpec
CONSTANTS
  BOf <- SomeB
  BlockBits = 2
  SegmentUnit = 2
  Ratio = 2
  segment_count = 2
  MaxBlobs = 3
  max_proving_threads = 1
  Requests = {3}
  MaxIterations = 2
  MayStop = TRUE
PROPERTIES StopCompletes
CHECK_DEADLOCK FALSE
