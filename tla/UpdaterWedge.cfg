\* One updater that is killed, or the sensor rebooted, once.
SPECIFICATION FairSpec
CONSTANTS
  Procs = {daemon}
  MaxRelease <- OneRelease
  MaxFaults = 1
  Corrupt = Corrupt
PROPERTIES
  NeverWedges
CHECK_DEADLOCK FALSE
