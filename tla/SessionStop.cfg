SPECIFICATION FairSpec
CONSTANTS
  Iters = {1, 2, 5, 31}
  MaxIteration = 3
  kMaxProcessesAllowed = 2
  Margin = 3
  Width = 32
  MaxReads = 3
PROPERTIES OneWesoStops
CHECK_DEADLOCK FALSE
