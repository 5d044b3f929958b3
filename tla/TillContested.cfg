\* Three orders after one voucher while its limit is edited, and one at full price after them.
SPECIFICATION Spec
CONSTANTS
  r1 = r1
  r2 = r2
  r3 = r3
  r4 = r4
  espresso = espresso
  mocha = mocha
  testnet = testnet
  staff = staff
  NoCode = NoCode
  NoMenu = NoMenu
  Products <- MCProducts
  Codes <- MCCodes
  Requests = {r1, r2, r3, r4}
  OrderOf <- Contested
  Menus <- Limits
  MenuFromFolder = FALSE
  MaxEdits = 1
  MaxBoots = 1
INVARIANTS
  TypeOK
  CountIsHeld
  NeverOversold
  AnsweredIsOnFeed
PROPERTIES
  DepletedOnlyWhenSpent
  KeepsPromise
CONSTRAINT AfterTheRace
SYMMETRY Anyone
CHECK_DEADLOCK FALSE
