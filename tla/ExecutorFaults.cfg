\* Two switches share current.tmp, calls outlive their answers, a drop; every fault.
SPECIFICATION PreparedSpec
CONSTANTS
  e1 = e1
  e2 = e2
  Call <- TwoCalls
  Task = {1, 2, 3, 4, 5, 6}
  Job <- SwitchesCreateDrop
  MaxAttempts = 2
SYMMETRY Symmetry
INVARIANTS ExecutorTypeOK LinkNeverDangles SnapshotIsThere
PROPERTIES InitialIsNotRestored VolumeStepsAreKnown
CHECK_DEADLOCK FALSE
