\* One seat, two people, and nothing that fails: what a seat says in the end.
SPECIFICATION SeatCommitSpec
CONSTANTS
  Nothing = Nothing
  alice = alice
  bob = bob
  People = {alice, bob}
  MaxSeats = 2
  MaxRequests = 1
  MaxSeconds = 1
  MaxTroubles = 0
PROPERTIES
  WhyArrives
CHECK_DEADLOCK FALSE
