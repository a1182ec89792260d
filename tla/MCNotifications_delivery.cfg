SPECIFICATION FairSpec
CONSTANTS
  ud = ud
  uo = uo
  ui = ui
  NoUser = NoUser
  NoInput = NoInput
  Users = {ud, uo, ui}
  ActiveUsers = {ud, uo}
  DriverUsers = {ud}
  MerchantUsers = {uo, ui}
  OpsUsers = {uo}
  Tabs = {t1}
  Calls = {c1}
  MaxAttempts = 3
  MaxStalled = 1
  ListLimit = 100
  Readers = {uo}
PROPERTY ReadByOwner
PROPERTY QueuedRowReachesTabs
PROPERTY RefinesMailbox
CHECK_DEADLOCK FALSE
