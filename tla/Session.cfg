SPECIFICATION FairSpec
CONSTANTS
  Iters = {1, 2, 5, 31}
  MaxIteration = 3
  kMaxProcessesAllowed = 2
  Margin = 3
  Width = 32
  MaxReads = 3
INVARIANTS FramesWhole
PROPERTIES ImplementsService RequestAnswered TwoWesoStops
CHECK_DEADLOCK FALSE
