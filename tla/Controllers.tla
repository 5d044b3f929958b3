----------------------------- MODULE Controllers -----------------------------
(***************************************************************************)
(* The two controllers of the process that work through a queue, from      *)
(* informers: the tally (QuizTally) and the seats' whys (SeatCommit).      *)
(* They share neither objects nor memory, so a behaviour is of one of them *)
(* (part), and one run asks of both what they come to in the end.          *)
(***************************************************************************)
EXTENDS QuizTally

CONSTANTS People, MaxSeats, MaxRequests, MaxSeconds    \* SeatCommit

VARIABLES
  part,       \* which controller this is
  seat, requests, seatWire, requestWire, cachedSeat, cachedRequests, queued, write, clock,
    stray, missed, claims, seatTroubles

seatVars == <<seat, requests, seatWire, requestWire, cachedSeat, cachedRequests, queued, write,
              clock, stray, missed, claims, seatTroubles>>
controllersVars == <<part, vars, seatVars>>

Whys == INSTANCE SeatCommit WITH troubles <- seatTroubles

ASSUME ControllersAssumption == Whys!SeatCommitAssumption

ControllersInit == part \in {"tally", "seat"} /\ Init /\ Whys!SeatCommitInit

ControllersNext ==
  \/ part = "tally" /\ UNCHANGED <<part, seatVars>> /\ Next
  \/ part = "seat" /\ UNCHANGED <<part, vars>> /\ Whys!SeatCommitNext

(* What each module says of its watches, its worker and its writes.        *)
ControllersSpec ==
  /\ ControllersInit /\ [][ControllersNext]_controllersVars
  /\ WF_vars(part = "tally" /\ DeliverBallot)
  /\ WF_vars(part = "tally" /\ DeliverRound)
  /\ WF_vars(part = "tally" /\ Resync)
  /\ WF_vars(part = "tally" /\ (Patched \/ PatchNotFound))
  /\ \A r \in Rounds : WF_vars(part = "tally" /\ Due(r)) /\ SF_vars(part = "tally" /\ Worker(r))
  /\ WF_seatVars(part = "seat" /\ Whys!DeliverSeat)
  /\ WF_seatVars(part = "seat" /\ Whys!DeliverRequest)
  /\ WF_seatVars(part = "seat" /\ Whys!Reconcile)
  /\ WF_seatVars(part = "seat" /\ Whys!Written)

(* SeatCommit: in the end a seat that was not written to by mistake and was *)
(* not missed says its owner's newest why (seat_reconciler.go).             *)
WhySettles == part = "seat" => Whys!WhySettles
=============================================================================
