SPECIFICATION Spec
CONSTANTS
  c1 = c1
  c2 = c2
  Calls = {c1, c2}
  Ops = {"o1", "o2"}
  Names = {"search", "save"}
  Admins = {"a1", "a2"}
  Api = "api"
  Procs = {"api", "worker"}
  AuthTypes = {"none", "api_key", "oauth2"}
  CallsOf <- MCCallsOf
  RequestsOf <- MCRequestsOf
  RestartBudget <- MCRestartBudget
  AdminsOf <- MCAdminsOf
  ProvidersOf <- MCProvidersOf
  Attempts = 2
  MaxLapsed = 1
  MaxToken = 3
  None = None
  Key = {"k", "auth"}
  AuthKey = "auth"
INVARIANT StoredGrantIsUsable
INVARIANT AttemptsAreBounded
INVARIANT NothingOutlivesItsRow
INVARIANT RequestIsWellPlaced
CHECK_DEADLOCK FALSE
