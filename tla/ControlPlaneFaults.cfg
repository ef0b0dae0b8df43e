\* Two workspaces, one snapshot; two more tasks of two attempts, every fault.
SPECIFICATION PreparedSpec
CONSTANTS
  w1 = w1
  w2 = w2
  h1 = h1
  h2 = h2
  c1 = c1
  a = a
  b = b
  Worker <- TwoWorkers
  Handler <- TwoHandlers
  Canceller <- NoCanceller
  Workspace <- TwoWorkspaces
  Requests <- SnapshotRequests
  NTasks = 5
  MaxAttempts = 2
SYMMETRY Symmetry
CONSTRAINT DropsInB
INVARIANTS PlaneTypeOK VisibleSnapshotHasDirectory SucceededDropIsComplete SucceededCreateIsThere LockDiscipline
PROPERTY ImplementsSnapshots
