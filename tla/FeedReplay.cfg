\* What a restart does to a page that stays open.
SPECIFICATION Spec
CONSTANTS
  wall = wall
  phone = phone
  Browsers = {wall}
  Capacity = 2
  MaxSubs = 2
  Buffer = 1
  MaxOrders = 3
  MaxConns = 3
  MaxReloads = 1
  MaxBoots = 1
PROPERTIES
  NewRecordIsShown
CHECK_DEADLOCK FALSE
