SPECIFICATION MCSpec
CONSTANTS
  Clients = {c1, c2}
  Emails = {e1, e2}
  Identities = {i1, i2}
  MaxAccounts = 2
  MaxHandlers = 3
  MaxOperations = 2
  Requests = {r1, r2}
  Cap = 1
  MaxSessions = 3
  MaxTokens = 4
  MaxChanges = 2
SYMMETRY ClientSymmetry
INVARIANTS
  RotationIsSingleUse
  SessionsAreCapped
  DeactivationEndsSessions
  PartialPatchesDeactivate
PROPERTIES
  LoginsKeepAccounts
CHECK_DEADLOCK FALSE
