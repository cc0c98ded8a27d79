SPECIFICATION FairSpec
CONSTANTS
  N = 2
  MaxWork = 1
INVARIANT TypeOK
INVARIANT NothingLost
INVARIANT ThreadAlive
INVARIANT SignalsLiveThread
INVARIANT ShutDownClean
PROPERTY EngineEnds
