CONSTANTS
  Parts = {"pool"}
  email1 = email1
  email2 = email2
  r1 = r1
  r2 = r2
  r3 = r3
  NoVehicle = NoVehicle
  NoOrder = NoOrder
  NoUser = NoUser
  NoRequest = NoRequest
  i1 = i1
  i2 = i2
  i3 = i3
  c1 = c1
  v1 = v1
  v2 = v2
  Registrations = {"first", "second"}
  Emails = {email1, email2}
  EmailOf <- SameEmail
  Workers = {"k1", "k2"}
  NoStep = NoStep
  MaxAttempts = 2
  FaultKinds = {"crash", "error", "lost answer"}
  MaxFaults = 2
  Requests = {r1, r2}
  Connections = {"c1", "c2"}
  Items = {1, 2}
  Kinds <- NewAccounts
  None = None
  Dependencies = {"database", "redis"}
  CHECK_TIMEOUT = 2
  MaxTime = 5
  MaxLate = 2
SPECIFICATION PromisesSpec
CHECK_DEADLOCK FALSE
INVARIANT PoolIsNeverStuck
