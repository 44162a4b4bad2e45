\* One updater, and nothing fails.
SPECIFICATION Spec
CONSTANTS
  Procs = {daemon}
  MaxRelease <- FewerReleases
  MaxFaults = 0
  Corrupt = Corrupt
INVARIANTS
  RecordedRulesInUse
CHECK_DEADLOCK FALSE
