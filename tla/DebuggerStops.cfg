SPECIFICATION FairSpec
CONSTANTS
  Threads = {main, t1, t2}
  Main = main
  Debugger = debugger
  None = none
INVARIANT SafeCounted
INVARIANT OneStops
INVARIANT StoppedWhilePrompting
PROPERTY StopCompletes
CHECK_DEADLOCK FALSE
