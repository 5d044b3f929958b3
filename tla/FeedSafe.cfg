\* Two screens, overflowing channels, broken wires, reloads, and a process that is replaced.
SPECIFICATION Spec
CONSTANTS
  wall = wall
  phone = phone
  Browsers = {wall, phone}
  Capacity = 2
  MaxSubs = 2
  Buffer = 1
  MaxOrders = 3
  MaxConns = 3
  MaxReloads = 1
  MaxBoots = 1
INVARIANTS
  TypeOK
  NoHole
  NoDuplicate
SYMMETRY Screens
CHECK_DEADLOCK FALSE
