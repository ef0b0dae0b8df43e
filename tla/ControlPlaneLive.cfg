\* Without faults: who decides a workspace, and that accepted tasks end.
SPECIFICATION CalmFairSpec
CONSTANTS
  w1 = w1
  w2 = w2
  h1 = h1
  h2 = h2
  c1 = c1
  a = a
  b = b
  Worker <- TwoWorkers
  Handler <- TwoHandlers
  Canceller <- NoCanceller
  Workspace <- OneWorkspace
  Requests <- LastingRequests
  NTasks = 3
  MaxAttempts = 2
INVARIANT ProvisioningIsPending
PROPERTIES AcceptedTaskEnds WorkspaceIsDecided
CHECK_DEADLOCK FALSE
