\* One job, one fault anywhere; every encode ends.
SPECIFICATION FairSpec
CONSTANTS
  None = None
  Jobs = {j1}
  Instances = {i1}
  Cancellable = {}
  MaxAttempts = 2
  MinInstances = 0
  QueueCap = 2
  MaxRuns = 3
  MaxEntries = 5
  MaxFaults = 1
  MaxCrashes = 0
PROPERTIES
  EventuallySettled
