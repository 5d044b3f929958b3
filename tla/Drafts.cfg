\* A phone that goes from one round to another while the first is being read.
SPECIFICATION BallotSpec
CONSTANTS
  Rounds = {r1, r2}
  Nobody = Nobody
  MaxTaps = 5
INVARIANT DraftPerRound
CHECK_DEADLOCK FALSE
