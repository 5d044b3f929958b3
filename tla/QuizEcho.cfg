\* The status write that has not come back to the cache.
SPECIFICATION Spec
CONSTANTS
  Nothing = Nothing
  r1 = r1
  b1 = b1
  q1 = q1
  q2 = q2
  blue = blue
  Rounds = {r1}
  Ballots = {b1}
  Questions = {q1, q2}
  Answers = {blue}
  ValidFor <- Fits
  MaxUIDs = 1
  MaxEdits = 1
  MaxFilings = 1
  MaxTroubles = 0
  MaxTime = 2
PROPERTIES
  OpenedAtIsKept
CHECK_DEADLOCK FALSE
