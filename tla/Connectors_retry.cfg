SPECIFICATION Spec
CONSTANTS
  c1 = c1
  c2 = c2
  Calls = {c1, c2}
  Ops = {"o1", "o2"}
  Names = {"search", "save"}
  Admins = {"a1", "a2"}
  Api = "api"
  Procs = {"api", "worker"}
  AuthTypes = {"oauth2"}
  CallsOf <- OneCall
  RequestsOf <- MCRequestsOf
  RestartBudget <- MCRestartBudget
  AdminsOf <- NoAdmins
  ProvidersOf <- MCProvidersOf
  Attempts = 2
  MaxLapsed = 1
  MaxToken = 3
  None = None
  Key = {"k", "auth"}
  AuthKey = "auth"
INVARIANT CallKeepsItsTokens
CHECK_DEADLOCK FALSE
