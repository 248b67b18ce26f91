SPECIFICATION FairSpec
CONSTANTS
  Iterations = 3
  gcd_max_iterations = 2
  Failures = TRUE
  Timeouts = TRUE
INVARIANTS NoDataRace FormMatchesCount Completes
PROPERTIES Returns
