\* One job that is cancelled while it may freeze.
SPECIFICATION FrozenSpec
CONSTANTS
  None = None
  Jobs = {j1}
  Instances = {i1}
  Cancellable = {j1}
  MaxAttempts = 2
  MinInstances = 0
  QueueCap = 2
  MaxRuns = 2
  MaxEntries = 5
  MaxFaults = 0
  MaxCrashes = 0
PROPERTIES
  CancelledIsFinal
  CancelledEncodeStops
