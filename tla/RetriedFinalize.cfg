\* A finalize called again, refused by the quota.
SPECIFICATION Spec
CONSTANTS
  None = None
  Assets = {a1}
  Ways = {"presigned"}
  MaxAttempts = 2
  MaxBoots = 1
  MaxFaults = 1
  DocFaults = {}
  MaxUploads = 3
  OverCap = {TRUE, FALSE}
INVARIANT
  ProcessingHasSource
CHECK_DEADLOCK FALSE
