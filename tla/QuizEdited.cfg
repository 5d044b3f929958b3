\* One round, edited while its ballots come and go, and two of: a patch that fails, a watch that
\* breaks, a process that is replaced.
SPECIFICATION Spec
CONSTANTS
  Nothing = Nothing
  r1 = r1
  b1 = b1
  q1 = q1
  q2 = q2
  blue = blue
  Rounds = {r1}
  Ballots = {b1}
  Questions = {q1, q2}
  Answers = {blue}
  ValidFor <- Fits
  MaxUIDs = 1
  MaxEdits = 1
  MaxFilings = 1
  MaxTroubles = 2
  MaxTime = 2
INVARIANTS
  TypeOK
  WatchSuffices
  ObservedMeansCurrent
CHECK_DEADLOCK FALSE
