\* Two admins in the store and none in the environment, and no database errors.
SPECIFICATION RoleSpec
CONSTANTS
  Person = {"ann", "bob"}
  EnvAdmin = {}
  KvAdmin = {"ann", "bob"}
  Outsider = {}
  RoleRequest = {1, 2}
  MaxRoleRequests = 2
  MaxDbErrors = 0
INVARIANTS SomeoneIsAdmin
CHECK_DEADLOCK FALSE
