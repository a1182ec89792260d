SPECIFICATION Spec
CONSTANTS
  o1 = o1
  o2 = o2
  d1 = d1
  d2 = d2
  m1 = m1
  ud1 = ud1
  ud2 = ud2
  uops = uops
  NoDriver = NoDriver
  NoWorker = NoWorker
  NoOrder = NoOrder
  NoTarget = NoTarget
  NoMerchant = NoMerchant
  NoUser = NoUser
  Merchants = {m1}
  MerchantOf <- MCMerchantOf
  Price <- MCPrice
  Distance <- MCDistance
  VehicleMatches <- MCVehicleMatches
  MatchRadiusKm = 5
  InitialDriver <- MCInitialDriver
  Permissions <- MCPermissions
  DriverIdOf <- MCDriverIdOf
  MerchantIdOf <- MCMerchantIdOf
  Orders = {o1}
  Drivers = {d1, d2}
  Users = {ud1, ud2, uops}
  Workers = {w1}
  Requests = {r1, r2}
  MaxAttempts = 1
  MaxStalled = 0
  InitialBalances <- MCAmple
VIEW ProofState
SYMMETRY Interchangeable
INVARIANT ProofBehindProgress
INVARIANT DriverActsOnOwnTrip
INVARIANT PhotoRowHasFile
INVARIANT NoDriverLeaks
PROPERTY StatusesTurnBackOnlyByPickup
CHECK_DEADLOCK FALSE
