\* One sensor, two handlers, one release of each kind, one failure of any kind
\* and one operation of dbtool.
SPECIFICATION FairSpec
CONSTANTS
  Sensors = {sensor}
  Calls = {c1, c2}
  MaxRelease <- OneRelease
  MaxEdits = 1
  MaxFaults = 1
  Faulty = {"timeout", "statement"}
  Success = Success
  Failed = Failed
  Blank = Blank
  NoRow = NoRow
INVARIANTS
  TypeOK
  LastReportedAlone
  ListedHasPolled
PROPERTIES
  VersionsCatchUp
