SPECIFICATION FairSpec
CONSTANTS
  o1 = o1
  o2 = o2
  Orders = {o1, o2}
  WithVoucher = {o1}
  Specs <- MCSpecs
  Earlier = Earlier
  NoOrder = NoOrder
  NoMenu = NoMenu
  MaxEdits = 1
  MaxTroubles = 1
CHECK_DEADLOCK FALSE
INVARIANTS
  TypeOK
  FirstOrderKept
  ObservedIsJudged
  NoWakeUpLost
PROPERTIES
  FirstOrderStays
  Converges
  GoesQuiet
