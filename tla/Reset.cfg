CONSTANTS
  BufferSize = 3
SPECIFICATION ResetFairSpec
INVARIANTS ResetTypeOK OnlyAfterEarlyBreak
PROPERTIES StuckMeansMissedReset
