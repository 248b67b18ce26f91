SPECIFICATION Spec
CONSTANTS
  BOf <- SomeB
  BlockBits = 2
  SegmentUnit = 2
  Ratio = 2
  segment_count = 2
  MaxBlobs = 4
  max_proving_threads = 2
  Requests = {8}
  MaxIterations = 8
  MayStop = FALSE
INVARIANTS ProofSegmentsDone
CHECK_DEADLOCK FALSE
