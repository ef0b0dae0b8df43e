\* No faults, every process keeps running: tasks end.
SPECIFICATION FaultFreeFairSpec
CONSTANTS
  w1 = w1
  w2 = w2
  c1 = c1
  c2 = c2
  Worker <- MCWorker
  Canceller <- MCOneCanceller
  NTasks = 3
  MaxAttempts = 2
INVARIANT NothingIsStranded
PROPERTIES EveryTaskEnds ImplementsFairLifecycle
CHECK_DEADLOCK FALSE
