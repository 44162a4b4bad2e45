\* The daemon and an updater started by hand; nothing fails.
SPECIFICATION Spec
CONSTANTS
  Procs = {daemon, manual}
  MaxRelease <- OneRelease
  MaxFaults = 0
  Corrupt = Corrupt
INVARIANTS
  LockCoversUpdate
CHECK_DEADLOCK FALSE
