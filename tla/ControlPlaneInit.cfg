\* From the empty service: create, retry, disable and cancel, every fault.
SPECIFICATION PlaneSpec
CONSTANTS
  w1 = w1
  w2 = w2
  h1 = h1
  h2 = h2
  c1 = c1
  a = a
  b = b
  Worker <- TwoWorkers
  Handler <- TwoHandlers
  Canceller <- OneCanceller
  Workspace <- OneWorkspace
  Requests <- StateRequests
  NTasks = 2
  MaxAttempts = 2
SYMMETRY Symmetry
INVARIANT ActiveIsInitialised
PROPERTIES DisabledIsFinal DeciderIsKept
