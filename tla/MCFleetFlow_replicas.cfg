SPECIFICATION Spec
CONSTANTS
  o1 = o1
  o2 = o2
  d1 = d1
  d2 = d2
  m1 = m1
  ud1 = ud1
  ud2 = ud2
  uops = uops
  NoDriver = NoDriver
  NoWorker = NoWorker
  NoOrder = NoOrder
  NoTarget = NoTarget
  NoMerchant = NoMerchant
  NoUser = NoUser
  Merchants = {m1}
  MerchantOf <- MCMerchantOf
  Price <- MCPrice
  Distance <- MCDistance
  VehicleMatches <- MCVehicleMatches
  MatchRadiusKm = 5
  InitialDriver <- MCInitialDriver
  Permissions <- MCPermissions
  DriverIdOf <- MCDriverIdOf
  MerchantIdOf <- MCMerchantIdOf
  Orders = {o1}
  Drivers = {d1}
  Users = {uops}
  Workers = {w1, w2}
  Requests = {r1}
  MaxAttempts = 3
  MaxStalled = 1
  InitialBalances <- MCScarceOrAmple
VIEW LiveState
SYMMETRY Interchangeable
INVARIANT PaidMeansSettled
INVARIANT ChargedOnceUnlessStalled
INVARIANT DecisionStandsUnlessStalled
INVARIANT ChargesNeedRedelivery
INVARIANT BooksBalance
INVARIANT OverdraftIsBounded
PROPERTY DispatchRunsDown
CHECK_DEADLOCK FALSE
