\* One user, two requests in flight, nothing fails.
SPECIFICATION Spec
CONSTANTS
  Users = {ann}
  Sessions = {s1, s2}
  NoUser = NoUser
  OtherAdmin = OtherAdmin
  LockoutThreshold <- CodeThreshold
  MaxFaults = 0
PROPERTIES
  LockoutLasts
CHECK_DEADLOCK FALSE
