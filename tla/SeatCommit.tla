------------------------------ MODULE SeatCommit ------------------------------
(***************************************************************************)
(* The controller that puts a seat's last why on the seat                  *)
(* (voter/seat_reconciler.go): seats and CommitRequests in the Kubernetes  *)
(* API, two informer caches, a work queue, one worker, and a merge patch   *)
(* of seats/status that names the seat and nothing else.                   *)
(*                                                                         *)
(* One seat, which people claim, lose to the operator, and claim again.    *)
(* Every request here is labelled with it, by whoever likes; one for       *)
(* another GitTarget is as good as another person's.  A why is the number  *)
(* of its request; colours, emoji and messages decide nothing.             *)
(***************************************************************************)
EXTENDS Naturals, Sequences

CONSTANTS
  People,       \* who claims seats and asks for commits
  Nothing,      \* no seat, no why, no commit yet
  MaxSeats,     \* bound: times the seat is claimed
  MaxRequests,  \* bound: CommitRequests
  MaxSeconds,   \* bound: the clock
  MaxTroubles   \* bound: watches that break, writes that fail and restarts

SeatCommitAssumption ==
  /\ Nothing \notin Nat
  /\ MaxSeats \in Nat /\ MaxRequests \in Nat /\ MaxSeconds \in Nat /\ MaxTroubles \in Nat

VARIABLES
  seat,          \* the Seat in the API: uid, owner, created, and lastCommit
  requests,      \* the CommitRequests there ever were, by name: author, when
                 \* the commit was reported, and whether they are gone
  seatWire,      \* the watches: what they have not delivered yet
  requestWire,
  cachedSeat,    \* the informers' stores
  cachedRequests,
  queued,        \* the seat is in the queue
  write,         \* the patch in flight: what it says, and history: for whom
  clock,         \* in seconds, as the API's times are
  stray,         \* history: what the seat says was meant for an earlier one
  missed,        \* history: a new seat came as an update of the one before
  claims, troubles  \* how much of the bounds is used

apiVars == <<seat, requests, seatWire, requestWire>>
cacheVars == <<cachedSeat, cachedRequests>>
workerVars == <<queued, write>>
seatCommitVars == <<apiVars, cacheVars, workerVars, clock, stray, missed, claims, troubles>>

Trouble == troubles < MaxTroubles /\ troubles' = troubles + 1

-----------------------------------------------------------------------------
(* Phones, the operator, gitops-reverser.                                  *)

PutSeat(s) == seat' = s /\ seatWire' = Append(seatWire, s)

PutRequest(n, r) ==
  /\ requests' = [m \in DOMAIN requests \cup {n} |-> IF m = n THEN r ELSE requests[m]]
  /\ requestWire' = Append(requestWire, [name |-> n, request |-> r])

Claim(p) ==
  /\ seat = Nothing /\ claims < MaxSeats /\ claims' = claims + 1
  /\ PutSeat([uid |-> claims + 1, owner |-> p, created |-> clock, lastCommit |-> Nothing])
  /\ stray' = FALSE
  /\ UNCHANGED <<requests, requestWire, cacheVars, workerVars, clock, missed, troubles>>

Remove ==
  /\ seat # Nothing /\ PutSeat(Nothing)
  /\ UNCHANGED <<requests, requestWire, cacheVars, workerVars, clock, stray, missed, claims, troubles>>

Environment == UNCHANGED <<seat, seatWire, cacheVars, workerVars, stray, missed, claims, troubles>>

(* withWhy: a request, and who it turns out to be from.                    *)
File(p) ==
  /\ Len(requests) < MaxRequests
  /\ PutRequest(Len(requests) + 1, [author |-> p, committedAt |-> Nothing, gone |-> FALSE])
  /\ Environment /\ UNCHANGED clock

Commit(n) ==
  /\ requests[n].committedAt = Nothing
  /\ PutRequest(n, [requests[n] EXCEPT !.committedAt = clock])
  /\ Environment /\ UNCHANGED clock

(* delete-after: minutes, in which watches deliver and the worker works.   *)
Expire(n) ==
  /\ requests[n].committedAt # Nothing /\ ~requests[n].gone
  /\ seatWire = <<>> /\ requestWire = <<>> /\ ~queued /\ write = Nothing
  /\ PutRequest(n, [requests[n] EXCEPT !.gone = TRUE])
  /\ Environment /\ UNCHANGED clock

Tick ==
  /\ clock < MaxSeconds /\ clock' = clock + 1
  /\ Environment /\ UNCHANGED <<requests, requestWire>>

-----------------------------------------------------------------------------
(* The informers and their handlers.                                       *)

(* Mutant: only requests are handled.                                      *)
NotAdded(before, now) == FALSE

(* A seat's add, and no update of it.                                      *)
Added(before, now) == before = Nothing /\ now # Nothing

DeliverSeat ==
  /\ seatWire # <<>>
  /\ cachedSeat' = Head(seatWire) /\ seatWire' = Tail(seatWire)
  /\ queued' = (queued \/ Added(cachedSeat, cachedSeat'))
  /\ UNCHANGED <<seat, requests, requestWire, cachedRequests, write, clock, stray, missed, claims,
                 troubles>>

(* A request's add and its updates.                                        *)
DeliverRequest ==
  /\ requestWire # <<>> /\ requestWire' = Tail(requestWire)
  /\ LET event == Head(requestWire)
     IN /\ cachedRequests' =
             [n \in (DOMAIN cachedRequests \cup {event.name}) \ {m \in {event.name} : event.request.gone} |->
                IF n = event.name THEN event.request ELSE cachedRequests[n]]
        /\ queued' = (queued \/ ~event.request.gone)
  /\ UNCHANGED <<seat, requests, seatWire, cachedSeat, write, clock, stray, missed, claims, troubles>>

There == [n \in {m \in DOMAIN requests : ~requests[m].gone} |-> requests[n]]

(* A watch broke and lists again.  A seat made again meanwhile comes as an *)
(* update of the one in the store.                                         *)
RelistSeats ==
  /\ Trouble
  /\ cachedSeat' = seat /\ seatWire' = <<>>
  /\ queued' = (queued \/ Added(cachedSeat, seat))
  /\ missed' = (missed \/ (cachedSeat # Nothing /\ seat # Nothing /\ cachedSeat.uid # seat.uid))
  /\ UNCHANGED <<seat, requests, requestWire, cachedRequests, write, clock, stray, claims>>

RelistRequests ==
  /\ Trouble
  /\ cachedRequests' = There /\ requestWire' = <<>>
  /\ queued' = (queued \/ There # <<>>)
  /\ UNCHANGED <<seat, requests, seatWire, cachedSeat, write, clock, stray, missed, claims>>

-----------------------------------------------------------------------------
(* The worker.                                                             *)

(* lastSeatCommit: what counts, and the newest of it; a tie goes to the    *)
(* later name.                                                             *)
Counts(s, r) ==
  r.author = s.owner /\ r.committedAt # Nothing /\ r.committedAt >= s.created

Newer(n, m) ==
  \/ cachedRequests[n].committedAt > cachedRequests[m].committedAt
  \/ cachedRequests[n].committedAt = cachedRequests[m].committedAt /\ n >= m

Candidates(s) == {n \in DOMAIN cachedRequests : Counts(s, cachedRequests[n])}
LastSeatCommit(s) == CHOOSE n \in Candidates(s) : \A m \in Candidates(s) : Newer(n, m)

(* Nothing found clears nothing, and what the seat says already, or says   *)
(* of a later time, stays.                                                 *)
Says(s, latest) ==
  /\ s.lastCommit # Nothing
  /\ s.lastCommit = latest \/ requests[s.lastCommit].committedAt > requests[latest].committedAt

Reconcile ==
  /\ queued /\ write = Nothing /\ queued' = FALSE /\ missed' = FALSE
  /\ write' = IF cachedSeat = Nothing \/ Candidates(cachedSeat) = {} THEN Nothing
              ELSE IF Says(cachedSeat, LastSeatCommit(cachedSeat)) THEN Nothing
              ELSE [uid |-> cachedSeat.uid, lastCommit |-> LastSeatCommit(cachedSeat)]
  /\ UNCHANGED <<apiVars, cacheVars, clock, stray, claims, troubles>>

Applied ==
  /\ seat # Nothing
  /\ PutSeat([seat EXCEPT !.lastCommit = write.lastCommit])
  /\ stray' = (seat.uid # write.uid)

Written ==
  /\ write # Nothing /\ write' = Nothing
  /\ \/ Applied
     \/ seat = Nothing /\ UNCHANGED <<seat, seatWire, stray>>
  /\ UNCHANGED <<requests, requestWire, cacheVars, queued, clock, missed, claims, troubles>>

(* An error, whether the write was applied or not, puts it in the queue.   *)
WriteFails ==
  /\ Trouble /\ write # Nothing /\ write' = Nothing /\ queued' = TRUE
  /\ Applied \/ UNCHANGED <<seat, seatWire, stray>>
  /\ UNCHANGED <<requests, requestWire, cacheVars, clock, missed, claims>>

(* A new process lists, and everything there is an add.                    *)
Restart ==
  /\ Trouble
  /\ \/ write # Nothing /\ seat # Nothing /\ seat' = [seat EXCEPT !.lastCommit = write.lastCommit]
        /\ stray' = (seat.uid # write.uid)
     \/ UNCHANGED <<seat, stray>>
  /\ cachedSeat' = seat' /\ cachedRequests' = There
  /\ seatWire' = <<>> /\ requestWire' = <<>> /\ write' = Nothing
  /\ queued' = (seat' # Nothing \/ There # <<>>)
  /\ missed' = FALSE
  /\ UNCHANGED <<requests, clock, claims>>

-----------------------------------------------------------------------------
SeatCommitInit ==
  /\ seat = Nothing /\ requests = <<>> /\ seatWire = <<>> /\ requestWire = <<>>
  /\ cachedSeat = Nothing /\ cachedRequests = <<>>
  /\ queued = FALSE /\ write = Nothing /\ clock = 1
  /\ stray = FALSE /\ missed = FALSE /\ claims = 0 /\ troubles = 0

SeatCommitNext ==
  \/ \E p \in People : Claim(p) \/ File(p)
  \/ Remove \/ Tick
  \/ \E n \in DOMAIN requests : Commit(n) \/ Expire(n)
  \/ DeliverSeat \/ DeliverRequest \/ RelistSeats \/ RelistRequests
  \/ Reconcile \/ Written \/ WriteFails \/ Restart

(* Watches deliver, the worker works, and a write ends in its 30 seconds.  *)
SeatCommitSpec ==
  /\ SeatCommitInit /\ [][SeatCommitNext]_seatCommitVars
  /\ WF_seatCommitVars(DeliverSeat) /\ WF_seatCommitVars(DeliverRequest)
  /\ WF_seatCommitVars(Reconcile) /\ WF_seatCommitVars(Written)

(* The whys of the seat's owner since they claimed it.                     *)
Own(n) ==
  /\ requests[n].author = seat.owner
  /\ requests[n].committedAt # Nothing /\ requests[n].committedAt >= seat.created

(* It says one of them if there is one, none that is newer is still there, *)
(* and it says nobody else's.                                              *)
SaysItsOwn ==
  LET there == {n \in DOMAIN requests : ~requests[n].gone /\ Own(n)}
  IN /\ there # {} => seat.lastCommit # Nothing
     /\ seat.lastCommit # Nothing =>
          /\ Own(seat.lastCommit)
          /\ \A n \in there :
               requests[seat.lastCommit].committedAt >= requests[n].committedAt

(* "Voter copies the request's message onto that Seat's status.lastCommit  *)
(* only when the request's status.author [...] is the seat's               *)
(* spec.claimedBy.username" (docs/authorization.md), so in the end a seat  *)
(* says its owner's newest why of this claim.  The patch names the seat    *)
(* and nothing else, and the run seat_stray shows what comes of it: what   *)
(* was decided for a seat that is gone is written to the one made again,   *)
(* and nothing found clears nothing.                                       *)
WhyArrives == <>[](seat # Nothing => SaysItsOwn)

(* But for that (stray), and for a seat made again while its watch was     *)
(* broken, which comes as an update and is not looked at until a request's *)
(* next event (missed), it is so: from whichever cache was behind, through *)
(* lost answers, requests that expire and restarts (seat_reconciler.go,    *)
(* newSeatReconciler: a request's every event, a seat's add).              *)
WhySettles == <>[](seat # Nothing /\ ~stray /\ ~missed => SaysItsOwn)
=============================================================================
