\* One sensor and two overlapping runs of objupdater, two operations of the
\* operators after what was published before, and one failure.
SPECIFICATION FairSpec
CONSTANTS
  Sensors = {sensor}
  Tenants <- OneTenant
  TenantOf <- AllOfOne
  Publishers = {op1, op2}
  Versions <- TwoVersions
  Contents <- TwoContents
  Empty = Empty
  Packages <- FewPackages
  Earlier <- FirstPackages
  MaxChanges = 2
  MaxFaults = 1
INVARIANTS
  TypeOK
  ListedIsStored
  ReportedIsInstalled
PROPERTIES
  ImplementsRollout
  EventuallyServed
