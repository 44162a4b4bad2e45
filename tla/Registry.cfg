\* Two overlapping runs, four operations, two names of tenants and one of sensors.
SPECIFICATION Spec
CONSTANTS
  Runs = {r1, r2}
  TenantNames = {acme, globex}
  DeviceNames = {lobby}
  Environments = {"staging", "prod"}
  StartId <- First
  EndId <- Last
  DeviceIds = {d1}
  ApiKeys = {k1, k2}
  Nothing = Nothing
  MaxOps = 4
SYMMETRY Symmetry
\* The registry stops when no operation is left.
CHECK_DEADLOCK FALSE
INVARIANTS
  TypeOK
  OneTenantPerSensor
  ConfigAuthenticates
  DuplicatesBounded
  RulesStored
