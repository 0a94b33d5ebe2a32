CONSTANTS
  Parts = {"inventory", "services", "registry", "openings", "trail", "migrations", "reverts", "seeds", "pool"}
  Items = {i1, i2, i3}
  Skus = {sku1, sku2}
  Prices = {10, 20}
  SkuOf <- SkuOfItem
  Key <- Keys
  Stocked = {i1, i2}
  Opening = 1
  ItemRequests = {r1, r2, r3}
  ItemOps <- EveryItemOp
  MaxUnits = 1
  Services = {s1, s2, s3}
  Names = {oil, brakes, tyres}
  Listed <- TwoListed
  ServiceRequests = {r1, r2, r3}
  ServiceOps <- EveryServiceOp
  Customers = {c1, c2, c3}
  Users = {u1, u2}
  Vehicles = {v1, v2, v3}
  Plates = {p1, p2}
  UserOf <- UserOfCustomer
  PlateOf <- PlateOfVehicle
  Registered = {c1}
  Owned <- OwnedByOne
  Requests = {r1, r2, r3}
  Ops <- EveryRegistryOp
  Openings = {q1, q2}
  Offers = {i1}
  Numbers = {k1, k2}
  MaxDraws = 2
  Rivals = {q1, q2}
  Writers = {q1, q2}
  MaxVersion = 5
  MaxClock = 1
  None = None
  NoRequest = NoRequest
  NoService = NoService
  NoVehicle = NoVehicle
  NoOrder = NoOrder
  i1 = i1
  i2 = i2
  i3 = i3
  sku1 = sku1
  sku2 = sku2
  oil = oil
  brakes = brakes
  tyres = tyres
  s1 = s1
  s2 = s2
  s3 = s3
  c1 = c1
  c2 = c2
  c3 = c3
  u1 = u1
  u2 = u2
  v1 = v1
  v2 = v2
  v3 = v3
  p1 = p1
  p2 = p2
  k1 = k1
  k2 = k2
SPECIFICATION Spec
SYMMETRY Symmetry
CHECK_DEADLOCK FALSE
INVARIANT ItemsAreSafe
INVARIANT CustomersAreSafe
INVARIANT TrailIsWhole
INVARIANT DatabaseIsWhole
PROPERTY ServicesAreSafe
