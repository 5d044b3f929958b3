\* The patch that lands on a successor.
SPECIFICATION Spec
CONSTANTS
  Nothing = Nothing
  r1 = r1
  b1 = b1
  q1 = q1
  q2 = q2
  blue = blue
  Rounds = {r1}
  Ballots = {b1}
  Questions = {q1, q2}
  Answers = {blue}
  ValidFor <- Fits
  MaxUIDs = 2
  MaxEdits = 1
  MaxFilings = 1
  MaxTroubles = 0
  MaxTime = 1
INVARIANTS
  OwnBallotsOnly
CHECK_DEADLOCK FALSE
