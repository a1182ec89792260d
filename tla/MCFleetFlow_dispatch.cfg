SPECIFICATION FairSpec
CONSTANTS
  o1 = o1
  o2 = o2
  d1 = d1
  d2 = d2
  m1 = m1
  ud1 = ud1
  ud2 = ud2
  uops = uops
  NoDriver = NoDriver
  NoWorker = NoWorker
  NoOrder = NoOrder
  NoTarget = NoTarget
  NoMerchant = NoMerchant
  NoUser = NoUser
  Merchants = {m1}
  MerchantOf <- MCMerchantOf
  Price <- MCPrice
  Distance <- MCDistance
  VehicleMatches <- MCVehicleMatches
  MatchRadiusKm = 5
  InitialDriver <- MCInitialDriver
  Permissions <- MCPermissions
  DriverIdOf <- MCDriverIdOf
  MerchantIdOf <- MCMerchantIdOf
  Orders = {o1, o2}
  Drivers = {d1, d2}
  Users = {ud1, ud2, uops}
  Workers = {w1}
  Requests = {}
  MaxAttempts = 3
  MaxStalled = 1
  InitialBalances <- MCScarce
INVARIANT CancelledNoticeIsFinal
INVARIANT AssignedNoticeIsCharged
PROPERTY AccessIsKept
PROPERTY QueuedJobIsDecided
CHECK_DEADLOCK FALSE
