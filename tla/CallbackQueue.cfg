\* One poller, stopped or restarted once; handlers throw and Valkey calls fail.
SPECIFICATION Spec
CONSTANTS
  None = None
  Msgs = {m1, m2}
  Poison = {m2}
  Pollers = {p1}
  MaxAttempts = 2
  MaxThrows = 1
  MaxFaults = 1
  MaxStops = 1
INVARIANTS
  StagedUntilApplied
PROPERTIES
  NoCompletionLost
CHECK_DEADLOCK FALSE
