SPECIFICATION FairSpec
CONSTANTS
  BOf <- SomeB
  BlockBits = 2
  SegmentUnit = 2
  Ratio = 2
  segment_count = 2
  MaxBlobs = 2
  max_proving_threads = 1
  Requests = {3}
  MaxIterations = 6
  MayStop = TRUE
INVARIANTS ThreadsBounded
PROPERTIES RequestsServed
CHECK_DEADLOCK FALSE
