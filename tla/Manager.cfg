SPECIFICATION Spec
CONSTANTS
  BOf <- SomeB
  BlockBits = 2
  SegmentUnit = 2
  Ratio = 3
  segment_count = 2
  MaxBlobs = 1
  max_proving_threads = 2
  Requests = {5, 7}
  MaxIterations = 6
  MayStop = FALSE
INVARIANTS MaxIsProvable ProofsTile BlobsVerify
CHECK_DEADLOCK FALSE
