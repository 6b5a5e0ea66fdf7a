SPECIFICATION Spec
CONSTANTS
  NoKey = NoKey
  Users = {u1}
  Workspaces = {w1}
  Personal <- OneWallet
  OrderIds = {o1}
  Owner <- OneOwner
  Credit <- TwoUnits
  Handlers = {h1, h2}
  MaxOrdersPerWindow = 1
  RateWindow = 2
  MaxPending = 1
  OrderTTL = 1
  Retention = 3
  PayWindow = 2
  SettleWindow = 1
  MaxTime = 4
  MaxFailures = 0
CHECK_DEADLOCK FALSE
INVARIANT SuccessMeansCredited
