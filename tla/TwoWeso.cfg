SPECIFICATION FairSpec
CONSTANTS
  kSwitchIters = 550
  kMaxItersAllowed = 2140
  StopMargin = 1500
  checkpoint_interval = 7
  PublishStep = 20
  LongSegment = 61
  Requests = {620}
  MaxFaults = 1
INVARIANTS NeverOutOfBounds PublishedAreStored ReadsAreFresh ProofsClaimRightOutputs
PROPERTIES RequestsAnswered
