\* One user, one request in flight, nothing fails.
SPECIFICATION Spec
CONSTANTS
  Users = {ann}
  Sessions = {s1}
  NoUser = NoUser
  OtherAdmin = OtherAdmin
  LockoutThreshold <- CodeThreshold
  MaxFaults = 0
INVARIANTS
  ResetUnlocks
CHECK_DEADLOCK FALSE
