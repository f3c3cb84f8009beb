\* Three jobs on one instance; no call fails, nothing restarts.
SPECIFICATION Spec
CONSTANTS
  None = None
  Jobs = {j1, j2, j3}
  Instances = {i1}
  Cancellable = {}
  MaxAttempts = 2
  MinInstances = 0
  QueueCap = 3
  MaxRuns = 3
  MaxEntries = 3
  MaxFaults = 0
  MaxCrashes = 0
SYMMETRY Symmetry
INVARIANTS
  OneEncodePerInstance
CHECK_DEADLOCK FALSE
