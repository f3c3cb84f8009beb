\* Two instances with two jobs, a fault or a restart; a third submit is refused.
SPECIFICATION Spec
CONSTANTS
  None = None
  Jobs = {j1, j2, j3}
  Instances = {i1, i2}
  Cancellable = {}
  MaxAttempts = 2
  MinInstances = 0
  QueueCap = 2
  MaxRuns = 2
  MaxEntries = 5
  MaxFaults = 1
  MaxCrashes = 1
SYMMETRY Symmetry
CONSTRAINT FewDisturbances
INVARIANTS
  EncodesSpent
  OneEncodeEach
PROPERTIES
  DropsReal
