\* One supervised updater; every call may fail, the process may be killed and
\* the sensor may reboot, up to three times in all.
SPECIFICATION FairSpec
CONSTANTS
  Procs = {daemon}
  MaxRelease <- Releases
  MaxFaults = 3
  Corrupt = Corrupt
INVARIANTS
  TypeOK
  ActiveSoftwareWhole
  RunningIsActive
  RecordedSoftwareIsActive
  SuccessIsDeployed
PROPERTIES
  Converges
  ImplementsDeployment
CHECK_DEADLOCK FALSE
