\* The API process restarts once.
SPECIFICATION FairSpec
CONSTANTS
  None = None
  Jobs = {j1}
  Instances = {i1}
  Cancellable = {}
  MaxAttempts = 2
  MinInstances = 0
  QueueCap = 2
  MaxRuns = 2
  MaxEntries = 5
  MaxFaults = 0
  MaxCrashes = 1
PROPERTIES
  EventuallySettled
