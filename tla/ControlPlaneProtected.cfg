\* The technical document: the current snapshot and referenced ones stay.
SPECIFICATION PreparedCalmSpec
CONSTANTS
  w1 = w1
  w2 = w2
  h1 = h1
  h2 = h2
  c1 = c1
  a = a
  b = b
  Worker <- OneWorker
  Handler <- TwoHandlers
  Canceller <- NoCanceller
  Workspace <- OneWorkspace
  Requests <- SnapshotRequests
  NTasks = 4
  MaxAttempts = 2
PROPERTY ProtectedIsNotDeleted
CHECK_DEADLOCK FALSE
