SPECIFICATION Spec
CONSTANTS
  ud = ud
  uo = uo
  ui = ui
  NoUser = NoUser
  NoInput = NoInput
  Users = {ud, uo, ui}
  ActiveUsers = {ud, uo}
  DriverUsers = {ud}
  MerchantUsers = {uo, ui}
  OpsUsers = {uo}
  Tabs = {t1}
  Calls = {c1, c2}
  MaxAttempts = 1
  MaxStalled = 0
  ListLimit = 1
  Readers = {}
SYMMETRY Interchangeable
INVARIANT TypeOK
INVARIANT ToldOnce
INVARIANT ReturnedCallToldAll
INVARIANT ListedTabMissesNothing
INVARIANT QuietMeansInSync
CHECK_DEADLOCK FALSE
