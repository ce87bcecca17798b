CONSTANTS
  restart = restart
  kill = kill
  closer = closer
  always = always
  once = once
  NoThread = NoThread
  Threads <- MCThreads
  Op <- MCOp
  Sources <- MCSources
  Callbacks <- MCCallbacks
  Of <- MCOf
  Closer = closer
  MaxWorkers = 2
SPECIFICATION Spec
INVARIANTS LetGoIsStopped JobGoesOn
PROPERTIES ReachedStopReturns AlwaysRelaunches CancelEndsLoops
