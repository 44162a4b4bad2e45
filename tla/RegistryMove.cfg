\* One run: a tenant with a user, then a migration.
SPECIFICATION Spec
CONSTANTS
  Runs = {r1}
  TenantNames = {acme}
  DeviceNames = {lobby}
  Environments = {"staging", "prod"}
  StartId <- First
  EndId <- Last
  DeviceIds = {d1}
  ApiKeys = {k1, k2}
  Nothing = Nothing
  MaxOps = 4
\* The registry stops when no operation is left.
CHECK_DEADLOCK FALSE
PROPERTY
  MoveKeepsUsers
