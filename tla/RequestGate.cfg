CONSTANTS
  Requests = {r1, r2}
  Threads = 1
  Strong = {k1, k2, k3, k4}
  MaxChanges = 2
  Weak = Weak
  Unset = Unset
  r1 = r1
  r2 = r2
  k1 = k1
  k2 = k2
  k3 = k3
  k4 = k4
SPECIFICATION FairSpec
INVARIANTS
  OneRolePerCredential
  EmptyBeforeDatabase
  ServedWithAccess
PROPERTIES
  EveryRequestEnds
