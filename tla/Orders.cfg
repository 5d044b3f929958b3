\* What comes of every order and of every watcher: three orders of different kinds on menus
\* that refuse some; two screens, room for one.
SPECIFICATION OrdersSpec
CONSTANTS
  r1 = r1
  r2 = r2
  r3 = r3
  espresso = espresso
  mocha = mocha
  testnet = testnet
  staff = staff
  NoCode = NoCode
  NoMenu = NoMenu
  Products <- MCProducts
  Codes <- MCCodes
  Requests = {r1, r2, r3}
  OrderOf <- Mixed
  Menus <- Refusals
  MenuFromFolder = FALSE
  MaxEdits = 0
  MaxProcesses = 1
  wall = wall
  phone = phone
  Browsers = {wall, phone}
  Capacity = 2
  MaxSubs = 1
  Buffer = 1
  MaxOrders = 3
  MaxConns = 3
  MaxReloads = 1
  MaxBoots = 0
PROPERTIES
  EveryOrderAnswered
  NewRecordIsShown
  CatchesUp
  PlacesFreed
CHECK_DEADLOCK FALSE
