SPECIFICATION Spec
CONSTANTS
  m1 = m1
  m2 = m2
  d1 = d1
  d2 = d2
  ua = ua
  ub = ub
  NoUser = NoUser
  NoMerchant = NoMerchant
  NoDriver = NoDriver
  NoRoute = NoRoute
  Users = {ua, ub}
  Merchants = {m1, m2}
  Drivers = {d1, d2}
  Roles = {"MERCHANT_ADMIN", "DRIVER_PARTNER", "SUPERADMIN"}
  PermissionsOf <- MCPermissionsOf
  AccountsOf <- MCAccountsOf
  Clients = {k1}
  Routes <- MCRoutes
  MaxOrders = 2
  ListLimit = 1
VIEW RolesUnread
INVARIANT TypeOK
INVARIANT BilledByRight
INVARIANT CommittedCanBeAnswered
INVARIANT FareCoversRoute
PROPERTY ShownCanBeOpened
CHECK_DEADLOCK FALSE
