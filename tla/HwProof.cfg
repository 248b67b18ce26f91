SPECIFICATION FairSpec
CONSTANTS
  interval = 2
  g_chkp_thres = 2
  MaxSegments = 4
  max_aux_threads = 2
  max_proof_threads = 1
  Requests = {3, 4}
  MaxIters = 4
  MaxJump = 3
  MaxRestarts = 1
  Challenges = 2
INVARIANTS ChainsIntact SentProofsWhole
PROPERTIES RequestsComputed StopEnds
CHECK_DEADLOCK FALSE
