\* One user beside another administrator, two requests in flight beside dbtool,
\* with one failed statement or restart.
SPECIFICATION FairSpec
CONSTANTS
  Users = {ann}
  Sessions = {s1, s2}
  NoUser = NoUser
  OtherAdmin = OtherAdmin
  LockoutThreshold <- TwoFailures
  MaxFaults = 1
INVARIANTS
  TypeOK
  TokensHaveUsers
  BoundedGuesses
  SignInsAudited
PROPERTIES
  SignOutTakesHold
CHECK_DEADLOCK FALSE
