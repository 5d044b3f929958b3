------------------------------ MODULE QuizTally ------------------------------
(***************************************************************************)
(* The controller that makes a round's result a field on the round         *)
(* (voter/quiz_reconciler.go, quiz_tally.go): rounds and ballots in the    *)
(* Kubernetes API, two informer caches that follow it each at its own      *)
(* pace, a work queue with a coalescing window, one worker, and a merge    *)
(* patch of quizsessions/status that names the round and nothing else.     *)
(*                                                                         *)
(* Everything but the controller is the environment: whoever writes rounds *)
(* and ballots, the watches, the API server.  The caches may be behind by  *)
(* any number of events; the worker computes from them and the patch lands *)
(* later, on whatever object then has the name.                            *)
(*                                                                         *)
(* A set of questions is one value that is its own digest, and a ballot's  *)
(* answers are one value that fits some questions: the counts per question *)
(* are the number of ballots counted per answer.  lastTallyTime is left    *)
(* out, and with it the watch events that carry nothing else.              *)
(***************************************************************************)
EXTENDS Integers, Sequences, FiniteSets

CONSTANTS
  Rounds,      \* names of rounds
  Ballots,     \* names of ballots
  Questions,   \* the sets of questions a round may have
  Answers,     \* what a ballot may say
  ValidFor,    \* validateQuizAnswers: the answers that pass, per questions
  Nothing,     \* an absent object, status, pin or time
  MaxUIDs,     \* bound: rounds ever created
  MaxEdits,    \* bound: changes of a round's spec
  MaxFilings,  \* bound: ballots filed or amended
  MaxTroubles, \* bound: patches that fail, watches that break and list again,
               \* and restarts of the process, together
  MaxTime      \* bound: the clock

States == {"draft", "live", "closed"}

ASSUME QuizAssumption ==
  /\ ValidFor \in [Questions -> SUBSET Answers]
  /\ Nothing \notin Questions
  /\ Nothing \notin Nat
  /\ MaxUIDs \in Nat /\ MaxEdits \in Nat /\ MaxFilings \in Nat
  /\ MaxTroubles \in Nat
  /\ MaxTime \in Nat \ {0}

VARIABLES
  rounds,        \* the rounds in the API server
  ballots,       \* the ballots in the API server
  tallied,       \* history: the rounds named by the pins of the ballots that
                 \* each status counts
  roundEvents,   \* the watch on rounds: what it has not delivered yet
  ballotEvents,
  cachedRounds,  \* the informers' stores
  cachedBallots,
  waiting,       \* rounds in the queue's coalescing window or backoff
  queue,         \* rounds ready for the worker
  patch,         \* the status write in flight, or Nothing
  now,
  uids, edits, filings, troubles

store == <<rounds, ballots, tallied>>
watches == <<roundEvents, ballotEvents, cachedRounds, cachedBallots>>
controller == <<waiting, queue, patch>>
bounds == <<uids, edits, filings, troubles>>
vars == <<store, watches, controller, now, bounds>>

Maybe(S) == S \cup {Nothing}

Status ==
  [generation : Nat \ {0}, filed : Nat, counted : [Answers -> Nat],
   digest : Questions, openedAt : Maybe(1..MaxTime),
   closedAt : Maybe(1..MaxTime)]

Round ==
  [uid : 1..MaxUIDs, generation : Nat \ {0}, state : States,
   questions : Questions, status : Maybe(Status)]

Ballot ==
  [round : Rounds, uid : Maybe(1..MaxUIDs), digest : Maybe(Questions),
   answers : Answers]

Patch == [round : Rounds, pins : SUBSET (1..MaxUIDs), status : Status]

(* What is absent is not an object.                                        *)
ASSUME AbsentAssumption ==
  Nothing \notin Status \cup Round \cup Ballot \cup Patch

Init ==
  /\ rounds = [r \in Rounds |-> Nothing]
  /\ ballots = [b \in Ballots |-> Nothing]
  /\ tallied = [r \in Rounds |-> {}]
  /\ roundEvents = <<>> /\ ballotEvents = <<>>
  /\ cachedRounds = rounds /\ cachedBallots = ballots
  /\ waiting = {} /\ queue = {} /\ patch = Nothing
  /\ now = 1
  /\ uids = 0 /\ edits = 0 /\ filings = 0 /\ troubles = 0

-----------------------------------------------------------------------------
Trouble == troubles < MaxTroubles /\ troubles' = troubles + 1

(* Whoever writes rounds and ballots.  Each write becomes a watch event.   *)

PutRound(r, object) ==
  /\ rounds' = [rounds EXCEPT ![r] = object]
  /\ roundEvents' = Append(roundEvents, [name |-> r, object |-> object])

PutBallot(b, object) ==
  /\ ballots' = [ballots EXCEPT ![b] = object]
  /\ ballotEvents' = Append(ballotEvents, [name |-> b, object |-> object])
  /\ UNCHANGED <<rounds, tallied, roundEvents, cachedRounds, cachedBallots,
                 controller, now>>

CreateRound(r, state, questions) ==
  /\ rounds[r] = Nothing
  /\ uids < MaxUIDs
  /\ uids' = uids + 1
  /\ PutRound(r, [uid |-> uids + 1, generation |-> 1, state |-> state,
                  questions |-> questions, status |-> Nothing])
  /\ tallied' = [tallied EXCEPT ![r] = {}]
  /\ UNCHANGED <<ballots, ballotEvents, cachedRounds, cachedBallots, controller,
                 now, edits, filings, troubles>>

(* Opened, closed, reopened, or given other questions: the generation      *)
(* moves with the spec.                                                    *)
EditRound(r, state, questions) ==
  /\ rounds[r] # Nothing
  /\ <<state, questions>> # <<rounds[r].state, rounds[r].questions>>
  /\ edits < MaxEdits
  /\ edits' = edits + 1
  /\ PutRound(r, [rounds[r] EXCEPT !.state = state, !.questions = questions,
                                   !.generation = @ + 1])
  /\ UNCHANGED <<ballots, tallied, ballotEvents, cachedRounds, cachedBallots,
                 controller, now, uids, filings, troubles>>

DeleteRound(r) ==
  /\ rounds[r] # Nothing
  /\ PutRound(r, Nothing)
  /\ UNCHANGED <<ballots, tallied, ballotEvents, cachedRounds, cachedBallots,
                 controller, now, bounds>>

(* A participant's ballot, as the admission policy lets it in: the round   *)
(* is live, and the pins are its UID and the digest its status published.  *)
Vote(b, r, answers) ==
  /\ ballots[b] = Nothing
  /\ rounds[r] # Nothing
  /\ rounds[r].state = "live"
  /\ rounds[r].status # Nothing
  /\ filings < MaxFilings
  /\ filings' = filings + 1
  /\ PutBallot(b, [round |-> r, uid |-> rounds[r].uid,
                   digest |-> rounds[r].status.digest, answers |-> answers])
  /\ UNCHANGED <<uids, edits, troubles>>

(* Pasted, applied by Flux, or written by any other holder of a token, new *)
(* or over an old one: no pins, and no policy for machinery.               *)
Apply(b, r, answers) ==
  /\ filings < MaxFilings
  /\ filings' = filings + 1
  /\ PutBallot(b, [round |-> r, uid |-> Nothing, digest |-> Nothing,
                   answers |-> answers])
  /\ UNCHANGED <<uids, edits, troubles>>

DeleteBallot(b) ==
  /\ ballots[b] # Nothing
  /\ PutBallot(b, Nothing)
  /\ UNCHANGED bounds

-----------------------------------------------------------------------------
(* The count, from a round and a set of ballots: tallyRound.               *)

Exists(object) == object # Nothing

Cast(r, given) == {b \in Ballots : Exists(given[b]) /\ given[b].round = r}

(* ballotPinned: each pin that is there has to match.                      *)
Pinned(ballot, round) ==
  /\ ballot.uid \in {Nothing, round.uid}
  /\ ballot.digest \in {Nothing, round.questions}

Counted(r, round, given) ==
  {b \in Cast(r, given) : /\ Pinned(given[b], round)
                          /\ given[b].answers \in ValidFor[round.questions]}

(* The rounds that the ballots counted say they were cast in, where they   *)
(* say so.                                                                 *)
Pins(r, round, given) ==
  {given[b].uid : b \in Counted(r, round, given)} \ {Nothing}

Counts(r, round, given) ==
  [a \in Answers |->
     Cardinality({b \in Counted(r, round, given) : given[b].answers = a})]

(* roundTimes: carried forward from the stored status, moved by the state. *)
Stored(round, field) ==
  IF round.status = Nothing THEN Nothing ELSE round.status[field]

(* Mutant: a time that was never set.                                      *)
OpenedAtZero(round) ==
  IF round.state = "live" /\ Stored(round, "openedAt") = Nothing
  THEN 0 ELSE Stored(round, "openedAt")

OpenedAt(round) ==
  IF round.state = "live" /\ Stored(round, "openedAt") = Nothing
  THEN now ELSE Stored(round, "openedAt")

ClosedAt(round) ==
  CASE round.state = "live" -> Nothing
    [] round.state = "closed" /\ Stored(round, "closedAt") = Nothing -> now
    [] OTHER -> Stored(round, "closedAt")

(* Mutant: the generation is the one the API server has now.               *)
WantedFresh(r, round, given) ==
  [generation |-> IF Exists(rounds[r]) THEN rounds[r].generation
                  ELSE round.generation,
   filed |-> Cardinality(Cast(r, given)),
   counted |-> Counts(r, round, given),
   digest |-> round.questions,
   openedAt |-> OpenedAt(round),
   closedAt |-> ClosedAt(round)]

Wanted(r, round, given) ==
  [generation |-> round.generation,
   filed |-> Cardinality(Cast(r, given)),
   counted |-> Counts(r, round, given),
   digest |-> round.questions,
   openedAt |-> OpenedAt(round),
   closedAt |-> ClosedAt(round)]

-----------------------------------------------------------------------------
(* The informers.                                                          *)

(* Which round an event of a ballot concerns.                              *)
BallotRound(old, new) == IF Exists(new) THEN {new.round}
                         ELSE IF Exists(old) THEN {old.round} ELSE {}

(* Adds and deletes always; an update when the generation moved, so that a *)
(* status write does not set off the next one.                             *)
RoundChanged(old, new) ==
  \/ Exists(old) # Exists(new)
  \/ Exists(old) /\ Exists(new) /\ old.generation # new.generation

(* Mutant: a deleted ballot is not followed.                               *)
DeliverBallotKept ==
  LET event == Head(ballotEvents) IN
  /\ ballotEvents # <<>>
  /\ ballotEvents' = Tail(ballotEvents)
  /\ cachedBallots' = [cachedBallots EXCEPT ![event.name] = event.object]
  /\ waiting' = waiting \cup BallotRound(Nothing, event.object)
  /\ UNCHANGED <<store, roundEvents, cachedRounds, queue, patch, now, bounds>>

(* The store is updated and the handler's AddAfter follows.                *)
DeliverBallot ==
  LET event == Head(ballotEvents) IN
  /\ ballotEvents # <<>>
  /\ ballotEvents' = Tail(ballotEvents)
  /\ cachedBallots' = [cachedBallots EXCEPT ![event.name] = event.object]
  /\ waiting' = waiting \cup BallotRound(cachedBallots[event.name], event.object)
  /\ UNCHANGED <<store, roundEvents, cachedRounds, queue, patch, now, bounds>>

DeliverRound ==
  LET event == Head(roundEvents) IN
  /\ roundEvents # <<>>
  /\ roundEvents' = Tail(roundEvents)
  /\ cachedRounds' = [cachedRounds EXCEPT ![event.name] = event.object]
  /\ waiting' = IF RoundChanged(cachedRounds[event.name], event.object)
                THEN waiting \cup {event.name} ELSE waiting
  /\ UNCHANGED <<store, ballotEvents, cachedBallots, queue, patch, now, bounds>>

(* A watch breaks and the informer lists: what it missed arrives as the    *)
(* difference of two lists, a round deleted and recreated as an update.    *)
RelistRounds ==
  /\ Trouble
  /\ roundEvents' = <<>>
  /\ cachedRounds' = rounds
  /\ waiting' = waiting \cup
                  {r \in Rounds : RoundChanged(cachedRounds[r], rounds[r])}
  /\ UNCHANGED <<store, ballotEvents, cachedBallots, queue, patch, now, uids,
                 edits, filings>>

RelistBallots ==
  /\ Trouble
  /\ ballotEvents' = <<>>
  /\ cachedBallots' = ballots
  /\ waiting' = waiting \cup
                  UNION {BallotRound(cachedBallots[b], ballots[b]) : b \in Ballots}
  /\ UNCHANGED <<store, roundEvents, cachedRounds, queue, patch, now, uids,
                 edits, filings>>

-----------------------------------------------------------------------------
(* The queue and the worker.                                               *)

(* The window, or the backoff, of round r is over.                         *)
Due(r) ==
  /\ r \in waiting
  /\ waiting' = waiting \ {r}
  /\ queue' = queue \cup {r}
  /\ UNCHANGED <<store, watches, patch, now, bounds>>

(* Mutant: only the rounds that are live.                                  *)
ResyncedLive ==
  {r \in Rounds : Exists(cachedRounds[r]) /\ cachedRounds[r].state = "live"}

Resynced == {r \in Rounds : Exists(cachedRounds[r])}

(* resyncLoop, every minute.                                               *)
Resync ==
  /\ queue' = queue \cup Resynced
  /\ UNCHANGED <<store, watches, waiting, patch, now, bounds>>

(* Mutants: a live round that did not change is quiet too; no round is.    *)
QuietLive(r) == cachedRounds[r].status = Wanted(r, cachedRounds[r], cachedBallots)
QuietNever(r) == FALSE

(* Nothing to write: a round that is not live already carries this result. *)
Quiet(r) ==
  /\ cachedRounds[r].state # "live"
  /\ cachedRounds[r].status = Wanted(r, cachedRounds[r], cachedBallots)

Take(r) ==
  /\ patch = Nothing
  /\ r \in queue
  /\ queue' = queue \ {r}

(* The round is gone from the cache, or carries this result already.       *)
ReconcileQuietly(r) ==
  /\ Take(r)
  /\ Exists(cachedRounds[r]) => Quiet(r)
  /\ UNCHANGED <<store, watches, waiting, patch, now, bounds>>

(* Both caches are read, and the patch is on its way.                      *)
Reconcile(r) ==
  /\ Take(r)
  /\ Exists(cachedRounds[r])
  /\ ~Quiet(r)
  /\ patch' = [round |-> r, pins |-> Pins(r, cachedRounds[r], cachedBallots),
               status |-> Wanted(r, cachedRounds[r], cachedBallots)]
  /\ UNCHANGED <<store, watches, waiting, now, bounds>>

(* The merge patch, at the API server: by name, to the object of today.    *)
Write ==
  LET r == patch.round
      object == [rounds[r] EXCEPT !.status = patch.status]
  IN
  /\ Exists(rounds[r])
  /\ tallied' = [tallied EXCEPT ![r] = patch.pins]
  /\ IF object = rounds[r] THEN UNCHANGED <<rounds, roundEvents>>
     ELSE PutRound(r, object)
  /\ UNCHANGED ballots

Patched ==
  /\ patch # Nothing
  /\ Write
  /\ patch' = Nothing
  /\ UNCHANGED <<ballotEvents, cachedRounds, cachedBallots, waiting, queue, now,
                 bounds>>

(* The round has been deleted: NotFound, and nothing to retry.             *)
PatchNotFound ==
  /\ patch # Nothing
  /\ ~Exists(rounds[patch.round])
  /\ patch' = Nothing
  /\ UNCHANGED <<store, watches, waiting, queue, now, bounds>>

(* Any other error, before the write or with its answer lost: again after  *)
(* a backoff.                                                              *)
PatchFails ==
  /\ patch # Nothing
  /\ Trouble
  /\ Write \/ UNCHANGED <<store, roundEvents>>
  /\ waiting' = waiting \cup {patch.round}
  /\ patch' = Nothing
  /\ UNCHANGED <<ballotEvents, cachedRounds, cachedBallots, queue, now, uids,
                 edits, filings>>

(* A new process: both caches listed anew, and an add for every object.    *)
Restart ==
  /\ Trouble
  /\ roundEvents' = <<>> /\ ballotEvents' = <<>>
  /\ cachedRounds' = rounds /\ cachedBallots' = ballots
  /\ waiting' = {r \in Rounds : Exists(rounds[r]) \/ Cast(r, ballots) # {}}
  /\ queue' = {}
  /\ patch' = Nothing
  /\ UNCHANGED <<store, now, uids, edits, filings>>

Tick ==
  /\ now < MaxTime
  /\ now' = now + 1
  /\ UNCHANGED <<store, watches, controller, bounds>>

-----------------------------------------------------------------------------
Operator ==
  \E r \in Rounds :
    \/ \E state \in States, questions \in Questions :
         CreateRound(r, state, questions) \/ EditRound(r, state, questions)
    \/ DeleteRound(r)

Voters ==
  \E b \in Ballots :
    \/ \E r \in Rounds, answers \in Answers :
         Vote(b, r, answers) \/ Apply(b, r, answers)
    \/ DeleteBallot(b)

Worker(r) == ReconcileQuietly(r) \/ Reconcile(r)

Next ==
  \/ Operator \/ Voters
  \/ DeliverBallot \/ DeliverRound \/ RelistRounds \/ RelistBallots
  \/ \E r \in Rounds : Due(r) \/ Worker(r)
  \/ Resync
  \/ Patched \/ PatchNotFound \/ PatchFails
  \/ Restart \/ Tick

Spec == Init /\ [][Next]_vars

(* The watches deliver, timers fire, a patch ends within its 30 seconds,   *)
(* and the queue is first in first out: a round in it is taken in the end  *)
(* although the worker is busy again and again.                            *)
FairSpec ==
  /\ Spec
  /\ WF_vars(DeliverBallot) /\ WF_vars(DeliverRound) /\ WF_vars(Resync)
  /\ WF_vars(Patched \/ PatchNotFound)
  /\ \A r \in Rounds : WF_vars(Due(r)) /\ SF_vars(Worker(r))

-----------------------------------------------------------------------------
TypeOK ==
  /\ rounds \in [Rounds -> Maybe(Round)]
  /\ ballots \in [Ballots -> Maybe(Ballot)]
  /\ tallied \in [Rounds -> SUBSET (1..MaxUIDs)]
  /\ roundEvents \in Seq([name : Rounds, object : Maybe(Round)])
  /\ ballotEvents \in Seq([name : Ballots, object : Maybe(Ballot)])
  /\ cachedRounds \in [Rounds -> Maybe(Round)]
  /\ cachedBallots \in [Ballots -> Maybe(Ballot)]
  /\ waiting \subseteq Rounds /\ queue \subseteq Rounds
  /\ patch \in Maybe(Patch)
  /\ now \in 1..MaxTime
  /\ uids \in 0..MaxUIDs /\ edits \in 0..MaxEdits /\ filings \in 0..MaxFilings
  /\ troubles \in 0..MaxTroubles

(* What the status says is what the API server holds: every ballot of the  *)
(* round filed, the pinned and valid ones counted, against the questions   *)
(* of now, with the two times the state calls for.                         *)
Right(r) ==
  LET round == rounds[r] IN
  /\ round.status # Nothing
  /\ round.status.generation = round.generation
  /\ round.status.digest = round.questions
  /\ round.status.filed = Cardinality(Cast(r, ballots))
  /\ round.status.counted = Counts(r, round, ballots)
  /\ round.state = "live" =>
       round.status.openedAt # Nothing /\ round.status.closedAt = Nothing
  /\ round.state = "closed" => round.status.closedAt # Nothing

(* Once the watches have delivered and the worker has nothing to do, what  *)
(* a live round shows is right: "the watch is the mechanism", with no help *)
(* from the resync (quiz_reconciler.go, resync and reconcile).  Whatever   *)
(* was computed from a cache that was behind is computed again.            *)
WatchSuffices ==
  \A r \in Rounds :
    /\ Exists(rounds[r]) /\ rounds[r].state = "live"
    /\ roundEvents = <<>> /\ ballotEvents = <<>>
    /\ r \notin waiting \cup queue /\ patch = Nothing
    => Right(r)

(* A status that says it observed today's generation was computed against  *)
(* today's questions, and not only stamped so (quiz_tally.go,              *)
(* ObservedGeneration): the page may trust the pair.                       *)
ObservedMeansCurrent ==
  \A r \in Rounds :
    Exists(rounds[r]) /\ rounds[r].status # Nothing =>
      \/ rounds[r].status.generation < rounds[r].generation
      \/ /\ rounds[r].status.generation = rounds[r].generation
         /\ rounds[r].status.digest = rounds[r].questions

(* After the last write to rounds and ballots every round, live or not,    *)
(* comes to show the right result and keeps it: events lost by a watch,    *)
(* failed patches, restarts and results computed from a stale cache are    *)
(* all healed in the end (quiz_reconciler.go, resync).                     *)
Converges == <>[](\A r \in Rounds : Exists(rounds[r]) => Right(r))

(* A round that is not live is left alone in the end: its own status write *)
(* never sets off the next, and the resync finds nothing to say            *)
(* (quiz_reconciler.go, sameTally).                                        *)
GoesQuiet ==
  <>[](patch # Nothing =>
         Exists(rounds[patch.round]) /\ rounds[patch.round].state = "live")

(* A live round is written to for ever, so a timestamp that has stopped    *)
(* means the controller has (quiz_reconciler.go, resync).                  *)
Heartbeat ==
  \A r \in Rounds :
    <>[](Exists(rounds[r]) /\ rounds[r].state = "live") =>
      []<>(patch # Nothing /\ patch.round = r)

(* "openedAt is set the first time the round is seen live and then kept"   *)
(* (quiz_tally.go, roundTimes).                                            *)
OpenedAtIsKept ==
  [][\A r \in Rounds :
       /\ Exists(rounds[r]) /\ Exists(rounds'[r])
       /\ rounds[r].uid = rounds'[r].uid
       /\ Stored(rounds[r], "openedAt") # Nothing
       => Stored(rounds'[r], "openedAt") = Stored(rounds[r], "openedAt")]_vars

(* "Each pin that IS present has to match, so a ballot for a deleted round *)
(* never counts for its same-named successor" (quiz_tally.go,              *)
(* ballotPinned): whatever pinned ballots a round's status counts were     *)
(* cast in this very round.  Ballots without a pin are asked nothing.      *)
OwnBallotsOnly ==
  \A r \in Rounds : Exists(rounds[r]) => tallied[r] \subseteq {rounds[r].uid}

=============================================================================
