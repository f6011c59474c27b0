\* A burst of one user larger than the org-wide cap.
SPECIFICATION Spec
CONSTANTS
  a1 = a1
  a2 = a2
  a3 = a3
  a4 = a4
  b1 = b1
  b2 = b2
  n1 = n1
  alice = alice
  bob = bob
  Turn = {a1, a2, a3, b1}
  User = {alice, bob}
  Nobody = Nobody
  UserOf <- MCUserOf
  OrgCap = 3
  PerUser = 2
INVARIANTS NobodyHoldsAll
CHECK_DEADLOCK FALSE
