CONSTANTS
  Parts = {"sessions", "access", "users", "visits", "sign-ins", "cancellations", "completions"}
  Requests = {r1, r2, r3}
  Calls = {q1, q2}
  Persons <- Everybody
  Owner = "owner"
  NoOne = "nobody"
  SeedRoles <- RoleOfEverybody
  Newcomers = {"mechanic"}
  Asked <- RouteIds
  Askers <- Everybody
  FirstStatus = "RECEIVED"
  Movers = {"advisor"}
  NoSession = NoSession
  Emails = {email1, email2}
  Documents = {document1, document2}
  Passwords = {secret, temporary}
  Users = {u1}
  SessionIds = {s1, s2}
  Tokens = {t1, t2, t3}
  Kinds <- AllKinds
  Opened <- NewStaff
  AccessTtl = 1
  RefreshTtl = 2
  AbsoluteTtl = 3
  MaxTime = 2
  Staff = TRUE
  MayStop = TRUE
  NoRole = NoRole
  NoEntry = NoEntry
  People = {boss, staff}
  RoleIds = {superAdmin, admin, custom}
  Names = {"SUPER_ADMIN", "ADMIN", "OTHER"}
  Permissions <- AllPermissions
  Seeded <- SeededRoles
  Holders <- Granted
  RoleRequests = {q1, q2}
  Ops <- AllOps
  MayFail = FALSE
  AccountIds = {ana, new}
  FirstAccounts <- Ana
  Generated = temporary
  AccountRequests = {r1, r2, r3}
  AccountOps <- AllAccountOps
  NoUser = NoUser
  Keep = Keep
  u1 = u1
  s1 = s1
  s2 = s2
  t1 = t1
  t2 = t2
  t3 = t3
  boss = boss
  staff = staff
  superAdmin = superAdmin
  admin = admin
  custom = custom
  ana = ana
  new = new
  email1 = email1
  email2 = email2
  document1 = document1
  document2 = document2
  secret = secret
  temporary = temporary
SPECIFICATION Spec
SYMMETRY Symmetry
CHECK_DEADLOCK FALSE
INVARIANT SessionsAreSafe
INVARIANT GrantsAreSafe
INVARIANT AccountsAreSafe
INVARIANT RoutesAreGuarded
