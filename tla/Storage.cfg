SPECIFICATION Spec
CONSTANTS
  Half = 3
  Ratio = 2
  Strides <- ScaledStrides
  segments = 2
  window_size = 2
  batch_size = 2
  Threads = {t1, t2}
  Multi = {TRUE, FALSE}
  MaxFaults = 1
  MaxIterations = 15
SYMMETRY Symmetry
INVARIANTS RingHoldsFinished EveryHalfOnce StorageStops
CHECK_DEADLOCK FALSE
