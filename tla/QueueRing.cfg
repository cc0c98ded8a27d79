SPECIFICATION FairSpec
CONSTANTS
  A_SIZE = 16
  Deferred = TRUE
  MaxPush = 36
  MaxTicks = 2
INVARIANT TypeOK
INVARIANT EntryIntact
INVARIANT EpochComplete
PROPERTY AbstractSpec
PROPERTY BlockedResumes
CHECK_DEADLOCK FALSE
