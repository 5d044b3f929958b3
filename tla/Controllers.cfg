\* Objects made again while their caches lag, one thing that goes wrong, and what the end is.
SPECIFICATION ControllersSpec
CONSTANTS
  Nothing = Nothing
  r1 = r1
  b1 = b1
  q1 = q1
  q2 = q2
  blue = blue
  Rounds = {r1}
  Ballots = {b1}
  Questions = {q1, q2}
  Answers = {blue}
  ValidFor <- Fits
  MaxUIDs = 2
  MaxEdits = 0
  MaxFilings = 1
  MaxTroubles = 1
  MaxTime = 1
  alice = alice
  bob = bob
  People = {alice, bob}
  MaxSeats = 2
  MaxRequests = 2
  MaxSeconds = 2
PROPERTIES
  Converges
  GoesQuiet
  Heartbeat
  WhySettles
CHECK_DEADLOCK FALSE
