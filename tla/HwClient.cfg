SPECIFICATION Spec
CONSTANTS
  VALID_PLL_FREQS = 2
  StartIdx = 1
  MaxFaults = 1
  N_HW_VDFS = 3
  vdfs_mask <- FirstTwo
  auto_freq = TRUE
  g_skip_thres = 1
  MaxSessions = 1
  MaxThreads = 1
INVARIANTS EnginesOffAtExit BoardMatches
PROPERTIES OnlyStopFollowsStop StopExits LostJobRestarted
CHECK_DEADLOCK FALSE
