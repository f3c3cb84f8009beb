\* One job, one instance, three faults anywhere, two once one has mislaid the job.
SPECIFICATION Spec
CONSTANTS
  None = None
  Jobs = {j1}
  Instances = {i1}
  Cancellable = {}
  MaxAttempts = 2
  MinInstances = 0
  QueueCap = 2
  MaxRuns = 2
  MaxEntries = 5
  MaxFaults = 3
  MaxCrashes = 0
CONSTRAINT FewMislaid
INVARIANTS
  TypeOK
  AttemptBudget
  ScaleDownSparesLiveWork
  NotStranded
