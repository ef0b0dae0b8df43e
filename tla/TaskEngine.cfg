\* Two workers, two cancellations, two tasks of two attempts, every fault.
SPECIFICATION EngineSpec
CONSTANTS
  w1 = w1
  w2 = w2
  c1 = c1
  c2 = c2
  Worker <- MCWorker
  Canceller <- MCCanceller
  NTasks = 2
  MaxAttempts = 2
SYMMETRY Symmetry
INVARIANTS TypeOK SingleOwner AttemptBudget RepliesHold CancelStopsRetries
PROPERTIES EveryStepCounts TerminalIsFinal ImplementsLifecycle
