--------------------------- MODULE QuizTallyProofs ---------------------------
(***************************************************************************)
(* Theorems about QuizTally, for any rounds, ballots and bounds: the       *)
(* types; that a result which says it observed today's generation is of    *)
(* today's questions, and counts the ballots of today's round; and that    *)
(* the watches alone make a live round right.                              *)
(*                                                                         *)
(* The results need that nothing of a deleted round is still about when    *)
(* its name is used again, and the watches that a ballot stays with the    *)
(* round it is named after.  The admission policy has it so for whoever    *)
(* votes in the room, who may create a ballot and not change it; a ballot  *)
(* that somebody else edits to name another round wakes only the new one   *)
(* (quiz_reconciler.go, watch), and the old one waits for the resync.      *)
(***************************************************************************)
EXTENDS QuizTally, FiniteSetTheorems, SequenceTheorems, TLAPS

-----------------------------------------------------------------------------
(* The inductive invariant, in parts.                                      *)

(* A wire and a cache follow the truth: applied to the cache, what is on   *)
(* the wire gives what there is.                                           *)
Follows(wire, cache, truth, names) ==
  /\ \A n \in names :
       (\A i \in DOMAIN wire : wire[i].name # n) => cache[n] = truth[n]
  /\ \A i \in DOMAIN wire :
       (\A j \in DOMAIN wire : j > i => wire[j].name # wire[i].name)
         => wire[i].object = truth[wire[i].name]

Followed ==
  /\ Follows(roundEvents, cachedRounds, rounds, Rounds)
  /\ Follows(ballotEvents, cachedBallots, ballots, Ballots)

(* What a wire says of a name, and the round objects of one name that      *)
(* anyone still knows.                                                     *)
Said(wire, n) == {wire[i].object : i \in {j \in DOMAIN wire : wire[j].name = n}}

Known(r) ==
  {object \in {rounds[r], cachedRounds[r]} \cup Said(roundEvents, r) : Exists(object)}

(* A generation stands for one version of the round, and none is later     *)
(* than the round's own.                                                   *)
SameVersion(x, y) ==
  x.uid = y.uid /\ x.state = y.state /\ x.questions = y.questions

Versioned ==
  \A r \in Rounds :
    /\ \A x, y \in Known(r) : x.generation = y.generation => SameVersion(x, y)
    /\ Exists(rounds[r]) =>
         \A x \in Known(r) : x.generation <= rounds[r].generation

(* A result is of the round's version or of one before it.                 *)
Current(status, round) ==
  \/ status.generation < round.generation
  \/ status.generation = round.generation /\ status.digest = round.questions

ResultsCurrent ==
  \A r \in Rounds : Exists(rounds[r]) =>
    /\ rounds[r].status # Nothing => Current(rounds[r].status, rounds[r])
    /\ patch # Nothing /\ patch.round = r => Current(patch.status, rounds[r])

(* What anyone knows of a round is of the object of today, not of an       *)
(* earlier one of that name, and so are the pinned ballots that a patch    *)
(* for it and the result it carries count.                                 *)
Owned ==
  \A r \in Rounds : Exists(rounds[r]) =>
    /\ \A x \in Known(r) : x.uid = rounds[r].uid
    /\ patch # Nothing /\ patch.round = r => patch.pins \subseteq {rounds[r].uid}
    /\ tallied[r] \subseteq {rounds[r].uid}

(* The last result of a live round, computed or written, agrees with what  *)
(* the caches hold, unless the worker is about to look again.              *)
LastResult(p, r, round) == IF p # Nothing /\ p.round = r THEN p.status ELSE round.status

Agrees(status, r, round, given) ==
  /\ status # Nothing
  /\ status.generation = round.generation /\ status.digest = round.questions
  /\ status.filed = Cardinality(Cast(r, given))
  /\ status.counted = Counts(r, round, given)
  /\ status.openedAt # Nothing /\ status.closedAt = Nothing

Computed ==
  \A r \in Rounds :
    /\ Exists(rounds[r]) /\ Exists(cachedRounds[r])
    /\ cachedRounds[r].state = "live"
    /\ r \notin waiting \cup queue
    => Agrees(LastResult(patch, r, rounds[r]), r, cachedRounds[r], cachedBallots)

(* A name is used for a second round only when the first is forgotten.     *)
Forgotten(r) ==
  /\ Known(r) = {}
  /\ patch # Nothing => patch.round # r

NamesAreFresh ==
  \A r \in Rounds : ~Exists(rounds[r]) /\ Exists(rounds'[r]) => Forgotten(r)

(* "A ballot is named after its round": its name says which one.           *)
BallotsNamed(home) ==
  \A b \in Ballots : Exists(ballots[b]) => ballots[b].round = home[b]

AllNamed(home) ==
  \A b \in Ballots :
    \A object \in {ballots[b], cachedBallots[b]} \cup Said(ballotEvents, b) :
      Exists(object) => object.round = home[b]

-----------------------------------------------------------------------------
(* The types.                                                              *)

RoundEvent == [name : Rounds, object : Maybe(Round)]
BallotEvent == [name : Ballots, object : Maybe(Ballot)]

(* There are finitely many ballots at any time, whatever names there are.  *)
Filed(given) == {b \in Ballots : Exists(given[b])}

FewBallots == IsFiniteSet(Filed(ballots)) /\ IsFiniteSet(Filed(cachedBallots))

LEMMA CastIsFinite ==
  ASSUME NEW r, NEW given, IsFiniteSet(Filed(given)), NEW S \in SUBSET Cast(r, given)
  PROVE  IsFiniteSet(S) /\ Cardinality(S) \in Nat
<1>1. S \in SUBSET Filed(given)
  BY DEF Cast, Filed
<1>2. IsFiniteSet(S)
  BY <1>1, FS_Subset
<1> QED
  BY <1>2, FS_CardinalityType

LEMMA CountsType ==
  ASSUME NEW r, NEW round, NEW given, IsFiniteSet(Filed(given))
  PROVE  Counts(r, round, given) \in [Answers -> Nat]
<1>1. ASSUME NEW a \in Answers
      PROVE  Cardinality({b \in Counted(r, round, given) : given[b].answers = a}) \in Nat
  <2>1. {b \in Counted(r, round, given) : given[b].answers = a} \in SUBSET Cast(r, given)
    BY DEF Counted
  <2> QED
    BY <2>1, CastIsFinite
<1> QED
  BY <1>1 DEF Counts

LEMMA TimesType ==
  ASSUME NEW round \in Round, now \in 1..MaxTime
  PROVE  OpenedAt(round) \in Maybe(1..MaxTime) /\ ClosedAt(round) \in Maybe(1..MaxTime)
<1>1. /\ Stored(round, "openedAt") \in Maybe(1..MaxTime)
      /\ Stored(round, "closedAt") \in Maybe(1..MaxTime)
  <2>1. CASE round.status = Nothing
    BY <2>1 DEF Stored, Maybe
  <2>2. CASE round.status # Nothing
    <3>1. round.status \in Status
      BY <2>2 DEF Round, Maybe
    <3>2. /\ round.status["openedAt"] \in Maybe(1..MaxTime)
          /\ round.status["closedAt"] \in Maybe(1..MaxTime)
      BY <3>1 DEF Status
    <3> QED
      BY <2>2, <3>2 DEF Stored
  <2> QED
    BY <2>1, <2>2
<1> QED
  BY <1>1 DEF OpenedAt, ClosedAt, Maybe

(* What the worker wants to write is a status.                             *)
LEMMA WantedType ==
  ASSUME NEW r, NEW round \in Round, NEW given, IsFiniteSet(Filed(given)),
         now \in 1..MaxTime
  PROVE  Wanted(r, round, given) \in Status
<1>1. Cardinality(Cast(r, given)) \in Nat
  BY CastIsFinite
<1>2. round.generation \in Nat \ {0} /\ round.questions \in Questions
  BY DEF Round
<1>3. Counts(r, round, given) \in [Answers -> Nat]
  BY CountsType
<1>4. OpenedAt(round) \in Maybe(1..MaxTime) /\ ClosedAt(round) \in Maybe(1..MaxTime)
  BY TimesType
<1> QED
  BY <1>1, <1>2, <1>3, <1>4 DEF Wanted, Status

LEMMA EditedType ==
  ASSUME NEW round \in Round, NEW state \in States, NEW questions \in Questions,
         NEW g, g = round.generation + 1,
         NEW object,
         object = [round EXCEPT !.state = state, !.questions = questions,
                                !.generation = g]
  PROVE  object \in Round
<1>1. g \in Nat \ {0}
  BY DEF Round
<1> QED
  BY <1>1 DEF Round

LEMMA WrittenType ==
  ASSUME NEW round \in Round, NEW status \in Status
  PROVE  [round EXCEPT !.status = status] \in Round
  BY DEF Round, Maybe

LEMMA PutRoundType ==
  ASSUME TypeOK, NEW r \in Rounds, NEW object \in Maybe(Round), PutRound(r, object)
  PROVE  /\ rounds' \in [Rounds -> Maybe(Round)]
         /\ roundEvents' \in Seq(RoundEvent)
<1>1. rounds' = [rounds EXCEPT ![r] = object] /\ rounds \in [Rounds -> Maybe(Round)]
  BY DEF PutRound, TypeOK
<1>2. /\ roundEvents \in Seq(RoundEvent)
      /\ [name |-> r, object |-> object] \in RoundEvent
      /\ roundEvents' = Append(roundEvents, [name |-> r, object |-> object])
  BY DEF PutRound, TypeOK, RoundEvent
<1>3. roundEvents' \in Seq(RoundEvent)
  BY <1>2, AppendProperties
<1> QED
  BY <1>1, <1>3

(* A ballot that is written or deleted: the other variables stay.          *)
LEMMA PutBallotType ==
  ASSUME TypeOK, NEW b \in Ballots, NEW object \in Maybe(Ballot), PutBallot(b, object)
  PROVE  /\ ballots' \in [Ballots -> Maybe(Ballot)]
         /\ ballotEvents' \in Seq(BallotEvent)
         /\ UNCHANGED <<rounds, tallied, roundEvents, cachedRounds, cachedBallots,
                        waiting, queue, patch, now>>
<1>1. ballots' = [ballots EXCEPT ![b] = object] /\ ballots \in [Ballots -> Maybe(Ballot)]
  BY DEF PutBallot, TypeOK
<1>2. /\ ballotEvents \in Seq(BallotEvent)
      /\ [name |-> b, object |-> object] \in BallotEvent
      /\ ballotEvents' = Append(ballotEvents, [name |-> b, object |-> object])
  BY DEF PutBallot, TypeOK, BallotEvent
<1>3. ballotEvents' \in Seq(BallotEvent)
  BY <1>2, AppendProperties
<1> QED
  BY <1>1, <1>3 DEF PutBallot, controller

(* A ballot that counts has the pin of the round it is counted for, or     *)
(* none.                                                                   *)
LEMMA PinsOfRound ==
  ASSUME NEW r, NEW round, NEW given
  PROVE  Pins(r, round, given) \subseteq {round.uid}
BY DEF Pins, Counted, Pinned

(* A patch that lands on a round that is there.                            *)
LEMMA WriteType ==
  ASSUME TypeOK, patch # Nothing, Write
  PROVE  /\ patch \in Patch /\ patch.round \in Rounds /\ rounds[patch.round] \in Round
         /\ rounds' = [rounds EXCEPT ![patch.round] =
                         [rounds[patch.round] EXCEPT !.status = patch.status]]
         /\ rounds' \in [Rounds -> Maybe(Round)]
         /\ roundEvents' \in Seq(RoundEvent)
         /\ tallied' \in [Rounds -> SUBSET (1..MaxUIDs)]
         /\ ballots' = ballots
<1> DEFINE r == patch.round
           object == [rounds[r] EXCEPT !.status = patch.status]
<1>1. patch \in Patch /\ r \in Rounds /\ rounds[r] \in Round /\ patch.status \in Status
      /\ patch.pins \subseteq 1..MaxUIDs
  BY DEF TypeOK, Patch, Maybe, Write, Exists
<1>2. object \in Round
  BY <1>1, WrittenType
<1>3. /\ tallied' = [tallied EXCEPT ![r] = patch.pins] /\ ballots' = ballots
      /\ object = rounds[r] => rounds' = rounds /\ roundEvents' = roundEvents
      /\ object # rounds[r] => PutRound(r, object)
  BY DEF Write
<1> HIDE DEF object, r
<1>4. tallied' \in [Rounds -> SUBSET (1..MaxUIDs)]
  BY <1>1, <1>3 DEF TypeOK, Maybe
<1>5. rounds' = [rounds EXCEPT ![r] = object]
  BY <1>1, <1>3 DEF TypeOK, PutRound
<1>6. rounds' \in [Rounds -> Maybe(Round)] /\ roundEvents' \in Seq(RoundEvent)
  <2>1. CASE object = rounds[r]
    BY <1>3, <2>1 DEF TypeOK, RoundEvent
  <2>2. CASE object # rounds[r]
    BY <1>1, <1>2, <1>3, <2>2, PutRoundType DEF Maybe
  <2> QED
    BY <2>1, <2>2
<1> QED
  BY <1>1, <1>3, <1>4, <1>5, <1>6 DEF object, r

(* The head of a wire and what is left of it.                              *)
LEMMA DeliveredRound ==
  ASSUME TypeOK, roundEvents # <<>>
  PROVE  Head(roundEvents) \in RoundEvent /\ Tail(roundEvents) \in Seq(RoundEvent)
<1>1. roundEvents \in Seq(RoundEvent)
  BY DEF TypeOK, RoundEvent
<1> QED
  BY <1>1, HeadTailProperties

LEMMA DeliveredBallot ==
  ASSUME TypeOK, ballotEvents # <<>>
  PROVE  Head(ballotEvents) \in BallotEvent /\ Tail(ballotEvents) \in Seq(BallotEvent)
<1>1. ballotEvents \in Seq(BallotEvent)
  BY DEF TypeOK, BallotEvent
<1> QED
  BY <1>1, HeadTailProperties

(* Which rounds an event of a ballot may wake.                             *)
LEMMA WokenType ==
  ASSUME NEW old \in Maybe(Ballot), NEW new \in Maybe(Ballot)
  PROVE  BallotRound(old, new) \subseteq Rounds
  BY DEF BallotRound, Exists, Maybe, Ballot

LEMMA NextType == TypeOK /\ FewBallots /\ [Next]_vars => TypeOK'
<1> SUFFICES ASSUME TypeOK, FewBallots, [Next]_vars PROVE TypeOK'
  OBVIOUS
<1> USE QuizAssumption DEF store, watches, controller, bounds, RoundEvent, BallotEvent
<1>1. ASSUME NEW r \in Rounds, NEW state \in States, NEW questions \in Questions,
             CreateRound(r, state, questions)
      PROVE  TypeOK'
  <2> DEFINE object == [uid |-> uids + 1, generation |-> 1, state |-> state,
                        questions |-> questions, status |-> Nothing]
  <2>1. uids + 1 \in 1..MaxUIDs /\ PutRound(r, object)
    BY <1>1 DEF CreateRound, TypeOK
  <2>2. object \in Maybe(Round)
    BY <2>1 DEF Round, Maybe
  <2> HIDE DEF object
  <2>3. rounds' \in [Rounds -> Maybe(Round)] /\ roundEvents' \in Seq(RoundEvent)
    BY <2>1, <2>2, PutRoundType
  <2>4. tallied' \in [Rounds -> SUBSET (1..MaxUIDs)] /\ uids' \in 0..MaxUIDs
    BY <1>1, <2>1 DEF CreateRound, TypeOK, Maybe
  <2> QED
    BY <1>1, <2>3, <2>4 DEF CreateRound, TypeOK
<1>2. ASSUME NEW r \in Rounds, NEW state \in States, NEW questions \in Questions,
             EditRound(r, state, questions)
      PROVE  TypeOK'
  <2> DEFINE object == [rounds[r] EXCEPT !.state = state, !.questions = questions,
                                         !.generation = @ + 1]
  <2>1. rounds[r] \in Round /\ PutRound(r, object) /\ edits' \in 0..MaxEdits
    BY <1>2 DEF EditRound, TypeOK, Maybe
  <2> DEFINE g == rounds[r].generation + 1
  <2>2. object = [rounds[r] EXCEPT !.state = state, !.questions = questions,
                                   !.generation = g]
    BY Zenon
  <2>4. g = rounds[r].generation + 1
    OBVIOUS
  <2> HIDE DEF object, g
  <2>9. object \in Maybe(Round)
    BY <2>1, <2>2, <2>4, EditedType DEF Maybe
  <2>3. rounds' \in [Rounds -> Maybe(Round)] /\ roundEvents' \in Seq(RoundEvent)
    BY <2>1, <2>9, PutRoundType
  <2> QED
    BY <1>2, <2>1, <2>3 DEF EditRound, TypeOK
<1>3. ASSUME NEW r \in Rounds, DeleteRound(r) PROVE TypeOK'
  <2>1. rounds' \in [Rounds -> Maybe(Round)] /\ roundEvents' \in Seq(RoundEvent)
    BY <1>3, PutRoundType DEF DeleteRound, Maybe
  <2> QED
    BY <1>3, <2>1 DEF DeleteRound, TypeOK
<1>4. ASSUME NEW b \in Ballots, NEW object \in Maybe(Ballot), PutBallot(b, object),
             uids' = uids, edits' = edits, troubles' = troubles,
             filings' \in 0..MaxFilings
      PROVE  TypeOK'
  <2>1. /\ ballots' \in [Ballots -> Maybe(Ballot)]
        /\ ballotEvents' \in Seq(BallotEvent)
        /\ UNCHANGED <<rounds, tallied, roundEvents, cachedRounds, cachedBallots,
                       waiting, queue, patch, now>>
    BY <1>4, PutBallotType
  <2> QED
    BY <1>4, <2>1 DEF TypeOK
<1>5. ASSUME NEW b \in Ballots, NEW r \in Rounds, NEW answers \in Answers,
             Vote(b, r, answers)
      PROVE  TypeOK'
  <2> DEFINE object == [round |-> r, uid |-> rounds[r].uid,
                        digest |-> rounds[r].status.digest, answers |-> answers]
  <2>1. rounds[r] \in Round /\ rounds[r].status \in Status
    BY <1>5 DEF Vote, TypeOK, Maybe, Round
  <2>2. object \in Maybe(Ballot)
    BY <2>1 DEF Ballot, Maybe, Round, Status
  <2>3. PutBallot(b, object) /\ filings' \in 0..MaxFilings
        /\ uids' = uids /\ edits' = edits /\ troubles' = troubles
    BY <1>5 DEF Vote, TypeOK
  <2> HIDE DEF object
  <2> QED
    BY <1>4, <2>2, <2>3
<1>6. ASSUME NEW b \in Ballots, NEW r \in Rounds, NEW answers \in Answers,
             Apply(b, r, answers)
      PROVE  TypeOK'
  <2> DEFINE object == [round |-> r, uid |-> Nothing, digest |-> Nothing,
                        answers |-> answers]
  <2>1. object \in Maybe(Ballot)
    BY DEF Ballot, Maybe
  <2>2. PutBallot(b, object) /\ filings' \in 0..MaxFilings
        /\ uids' = uids /\ edits' = edits /\ troubles' = troubles
    BY <1>6 DEF Apply, TypeOK
  <2> HIDE DEF object
  <2> QED
    BY <1>4, <2>1, <2>2
<1>7. ASSUME NEW b \in Ballots, DeleteBallot(b) PROVE TypeOK'
  <2>1. PutBallot(b, Nothing) /\ Nothing \in Maybe(Ballot) /\ filings' \in 0..MaxFilings
        /\ uids' = uids /\ edits' = edits /\ troubles' = troubles
    BY <1>7 DEF DeleteBallot, TypeOK, Maybe
  <2> QED
    BY <1>4, <2>1
<1>8. CASE DeliverBallot
  <2> DEFINE event == Head(ballotEvents)
             woken == BallotRound(cachedBallots[event.name], event.object)
  <2>1. event \in BallotEvent /\ Tail(ballotEvents) \in Seq(BallotEvent)
    BY <1>8, DeliveredBallot DEF DeliverBallot
  <2>2. /\ cachedBallots' = [cachedBallots EXCEPT ![event.name] = event.object]
        /\ ballotEvents' = Tail(ballotEvents) /\ waiting' = waiting \cup woken
    BY <1>8 DEF DeliverBallot
  <2>3. woken \subseteq Rounds
    BY <2>1, WokenType DEF TypeOK
  <2> HIDE DEF event, woken
  <2>4. cachedBallots' \in [Ballots -> Maybe(Ballot)] /\ waiting' \subseteq Rounds
    BY <2>1, <2>2, <2>3 DEF TypeOK
  <2> QED
    BY <1>8, <2>1, <2>2, <2>4 DEF DeliverBallot, TypeOK
<1>9. CASE DeliverRound
  <2> DEFINE event == Head(roundEvents)
  <2>1. event \in RoundEvent /\ Tail(roundEvents) \in Seq(RoundEvent)
    BY <1>9, DeliveredRound DEF DeliverRound
  <2>2. /\ cachedRounds' = [cachedRounds EXCEPT ![event.name] = event.object]
        /\ roundEvents' = Tail(roundEvents)
        /\ waiting' \in {waiting, waiting \cup {event.name}}
    BY <1>9 DEF DeliverRound
  <2> HIDE DEF event
  <2>3. cachedRounds' \in [Rounds -> Maybe(Round)] /\ waiting' \subseteq Rounds
    BY <2>1, <2>2 DEF TypeOK
  <2> QED
    BY <1>9, <2>1, <2>2, <2>3 DEF DeliverRound, TypeOK
<1>10. CASE RelistRounds
  <2>1. troubles' \in 0..MaxTroubles /\ waiting' \subseteq Rounds
        /\ roundEvents' \in Seq(RoundEvent)
    BY <1>10 DEF RelistRounds, Trouble, TypeOK
  <2> QED
    BY <1>10, <2>1 DEF RelistRounds, TypeOK
<1>11. CASE RelistBallots
  <2> DEFINE woken == UNION {BallotRound(cachedBallots[b], ballots[b]) : b \in Ballots}
  <2>1. woken \subseteq Rounds
    BY WokenType DEF TypeOK
  <2>2. waiting' = waiting \cup woken
    BY <1>11 DEF RelistBallots
  <2> HIDE DEF woken
  <2>3. troubles' \in 0..MaxTroubles /\ waiting' \subseteq Rounds
        /\ ballotEvents' \in Seq(BallotEvent)
    BY <1>11, <2>1, <2>2 DEF RelistBallots, Trouble, TypeOK
  <2> QED
    BY <1>11, <2>3 DEF RelistBallots, TypeOK
<1>12. ASSUME NEW r \in Rounds, Due(r) \/ ReconcileQuietly(r) PROVE TypeOK'
  BY <1>12 DEF Due, ReconcileQuietly, Take, TypeOK
<1>13. ASSUME NEW r \in Rounds, Reconcile(r) PROVE TypeOK'
  <2>1. cachedRounds[r] \in Round
    BY <1>13 DEF Reconcile, Exists, TypeOK, Maybe
  <2>2. Wanted(r, cachedRounds[r], cachedBallots) \in Status
    BY <2>1, WantedType DEF FewBallots, TypeOK
  <2>3. cachedRounds[r].uid \in 1..MaxUIDs
    BY <2>1 DEF Round
  <2>4. patch' \in Maybe(Patch) /\ queue' \subseteq Rounds
    BY <1>13, <2>2, <2>3, PinsOfRound DEF Reconcile, Take, Patch, Maybe, TypeOK
  <2> QED
    BY <1>13, <2>4 DEF Reconcile, TypeOK
<1>14. CASE Resync \/ Tick \/ PatchNotFound
  BY <1>14 DEF Resync, Resynced, Tick, PatchNotFound, TypeOK, Maybe
<1>15. CASE Patched
  <2>1. /\ rounds' \in [Rounds -> Maybe(Round)]
        /\ roundEvents' \in Seq(RoundEvent)
        /\ tallied' \in [Rounds -> SUBSET (1..MaxUIDs)]
        /\ ballots' = ballots
    BY <1>15, WriteType DEF Patched
  <2> QED
    BY <1>15, <2>1 DEF Patched, TypeOK, Maybe
<1>16. CASE PatchFails
  <2>1. /\ rounds' \in [Rounds -> Maybe(Round)]
        /\ roundEvents' \in Seq(RoundEvent)
        /\ tallied' \in [Rounds -> SUBSET (1..MaxUIDs)]
        /\ ballots' = ballots
    <3>1. CASE Write
      BY <1>16, <3>1, WriteType DEF PatchFails
    <3>2. CASE ~Write
      BY <1>16, <3>2 DEF PatchFails, TypeOK
    <3> QED
      BY <3>1, <3>2
  <2>2. patch.round \in Rounds
    BY <1>16 DEF PatchFails, TypeOK, Maybe, Patch
  <2>3. troubles' \in 0..MaxTroubles /\ waiting' \subseteq Rounds
    BY <1>16, <2>2 DEF PatchFails, Trouble, TypeOK
  <2> QED
    BY <1>16, <2>1, <2>3 DEF PatchFails, TypeOK, Maybe
<1>17. CASE Restart
  <2>1. /\ troubles' \in 0..MaxTroubles /\ waiting' \subseteq Rounds
        /\ roundEvents' \in Seq(RoundEvent) /\ ballotEvents' \in Seq(BallotEvent)
    BY <1>17 DEF Restart, Trouble, TypeOK
  <2> QED
    BY <1>17, <2>1 DEF Restart, TypeOK, Maybe
<1>18. CASE UNCHANGED vars
  BY <1>18 DEF vars, TypeOK
<1> QED
  BY <1>1, <1>2, <1>3, <1>5, <1>6, <1>7, <1>8, <1>9, <1>10, <1>11, <1>12, <1>13,
     <1>14, <1>15, <1>16, <1>17, <1>18 DEF Next, Operator, Voters, Worker

-----------------------------------------------------------------------------
(* What a step does to the rounds and to the ballots.                      *)

LEMMA BallotMoves ==
  ASSUME TypeOK, [Next]_vars
  PROVE  \/ \E b \in Ballots, object \in Maybe(Ballot) : PutBallot(b, object)
         \/ DeliverBallot \/ RelistBallots \/ Restart
         \/ UNCHANGED <<ballots, ballotEvents, cachedBallots>>
<1> DEFINE Put == \E b \in Ballots, object \in Maybe(Ballot) : PutBallot(b, object)
           Same == UNCHANGED <<ballots, ballotEvents, cachedBallots>>
<1> USE DEF store, watches, controller, bounds
<1>1. ASSUME NEW r \in Rounds, NEW state \in States, NEW questions \in Questions,
             CreateRound(r, state, questions) \/ EditRound(r, state, questions)
      PROVE  Same
  BY <1>1 DEF CreateRound, EditRound
<1>2. ASSUME NEW r \in Rounds,
             DeleteRound(r) \/ Due(r) \/ ReconcileQuietly(r) \/ Reconcile(r)
      PROVE  Same
  BY <1>2 DEF DeleteRound, Due, ReconcileQuietly, Reconcile
<1>3. ASSUME NEW b \in Ballots, NEW r \in Rounds, NEW answers \in Answers,
             Vote(b, r, answers)
      PROVE  Put
  <2> DEFINE object == [round |-> r, uid |-> rounds[r].uid,
                        digest |-> rounds[r].status.digest, answers |-> answers]
  <2>1. rounds[r] \in Round /\ rounds[r].status \in Status
    BY <1>3 DEF Vote, TypeOK, Maybe, Round
  <2>2. object \in Maybe(Ballot)
    BY <2>1 DEF Ballot, Maybe, Round, Status
  <2>3. PutBallot(b, object)
    BY <1>3 DEF Vote
  <2> HIDE DEF object
  <2> QED
    BY <2>2, <2>3
<1>4. ASSUME NEW b \in Ballots, NEW r \in Rounds, NEW answers \in Answers,
             Apply(b, r, answers)
      PROVE  Put
  <2> DEFINE object == [round |-> r, uid |-> Nothing, digest |-> Nothing,
                        answers |-> answers]
  <2>1. object \in Maybe(Ballot)
    BY DEF Ballot, Maybe
  <2>2. PutBallot(b, object)
    BY <1>4 DEF Apply
  <2> HIDE DEF object
  <2> QED
    BY <2>1, <2>2
<1>5. ASSUME NEW b \in Ballots, DeleteBallot(b) PROVE Put
  BY <1>5 DEF DeleteBallot, Maybe
<1>6. ASSUME DeliverRound \/ RelistRounds \/ Resync \/ Tick PROVE Same
  BY <1>6 DEF DeliverRound, RelistRounds, Resync, Tick
<1>7. ASSUME Patched \/ PatchNotFound \/ PatchFails PROVE Same
  BY <1>7 DEF Patched, PatchNotFound, PatchFails, Write
<1>8. ASSUME UNCHANGED vars PROVE Same
  BY <1>8 DEF vars
<1> HIDE DEF Put, Same
<1>9. Put \/ Same \/ DeliverBallot \/ RelistBallots \/ Restart
  BY <1>1, <1>2, <1>3, <1>4, <1>5, <1>6, <1>7, <1>8
  DEF Next, Operator, Voters, Worker
<1> QED
  BY <1>9 DEF Put, Same

(* What a write makes of round r: created, edited, deleted, or its status  *)
(* replaced by the patch.                                                  *)
Change(r, object) ==
  \/ /\ ~Exists(rounds[r]) /\ object \in Round
     /\ object.status = Nothing /\ object.generation = 1
     /\ patch' = patch /\ uids < MaxUIDs /\ uids' = uids + 1
  \/ /\ rounds[r] \in Round /\ object \in Round
     /\ object.generation = rounds[r].generation + 1
     /\ object.uid = rounds[r].uid
     /\ object.status = rounds[r].status /\ patch' = patch
  \/ object = Nothing /\ patch' = patch
  \/ /\ patch # Nothing /\ patch.round = r
     /\ rounds[r] \in Round /\ object \in Round
     /\ object.generation = rounds[r].generation /\ SameVersion(object, rounds[r])
     /\ object.status = patch.status /\ patch' = Nothing

LEMMA RoundMoves ==
  ASSUME TypeOK, [Next]_vars
  PROVE  \/ \E r \in Rounds, object \in Maybe(Round) :
              PutRound(r, object) /\ UNCHANGED cachedRounds /\ Change(r, object)
         \/ DeliverRound \/ RelistRounds \/ Restart
         \/ UNCHANGED <<rounds, roundEvents, cachedRounds>>
<1> DEFINE Put == \E r \in Rounds, object \in Maybe(Round) :
                    PutRound(r, object) /\ UNCHANGED cachedRounds /\ Change(r, object)
           Same == UNCHANGED <<rounds, roundEvents, cachedRounds>>
<1> USE DEF store, watches, controller, bounds
<1>1. ASSUME NEW r \in Rounds, NEW state \in States, NEW questions \in Questions,
             CreateRound(r, state, questions)
      PROVE  Put
  <2> DEFINE object == [uid |-> uids + 1, generation |-> 1, state |-> state,
                        questions |-> questions, status |-> Nothing]
  <2>1. uids + 1 \in 1..MaxUIDs /\ PutRound(r, object) /\ UNCHANGED cachedRounds
    BY <1>1, QuizAssumption DEF CreateRound, TypeOK
  <2>2. object \in Round /\ object \in Maybe(Round)
    BY <2>1 DEF Round, Maybe
  <2>3. Change(r, object)
    BY <1>1, <2>2 DEF CreateRound, Exists, Change
  <2> HIDE DEF object
  <2> QED
    BY <2>1, <2>2, <2>3
<1>2. ASSUME NEW r \in Rounds, NEW state \in States, NEW questions \in Questions,
             EditRound(r, state, questions)
      PROVE  Put
  <2> DEFINE object == [rounds[r] EXCEPT !.state = state, !.questions = questions,
                                         !.generation = @ + 1]
  <2>1. rounds[r] \in Round /\ PutRound(r, object) /\ UNCHANGED cachedRounds
    BY <1>2 DEF EditRound, TypeOK, Maybe
  <2>3. patch' = patch
    BY <1>2 DEF EditRound
  <2> DEFINE g == rounds[r].generation + 1
  <2>5. object = [rounds[r] EXCEPT !.state = state, !.questions = questions,
                                   !.generation = g]
    BY Zenon
  <2>6. g = rounds[r].generation + 1
    OBVIOUS
  <2> HIDE DEF object, g
  <2>7. object \in Round
    BY <2>1, <2>5, <2>6, EditedType
  <2>8. /\ object.generation = g /\ object.status = rounds[r].status
        /\ object.uid = rounds[r].uid
    BY <2>1, <2>5 DEF Round
  <2>2. /\ object \in Round /\ object.generation = rounds[r].generation + 1
        /\ object.status = rounds[r].status /\ object.uid = rounds[r].uid
    BY <2>6, <2>7, <2>8
  <2>4. Change(r, object) /\ object \in Maybe(Round)
    BY <2>1, <2>2, <2>3 DEF Change, Maybe
  <2> QED
    BY <2>1, <2>4
<1>3. ASSUME NEW r \in Rounds, DeleteRound(r) PROVE Put
  BY <1>3 DEF DeleteRound, Maybe, Change
<1>4. ASSUME NEW r \in Rounds,
             Due(r) \/ ReconcileQuietly(r) \/ Reconcile(r)
      PROVE  Same
  BY <1>4 DEF Due, ReconcileQuietly, Reconcile
<1>5. ASSUME NEW b \in Ballots, NEW object, PutBallot(b, object) PROVE Same
  BY <1>5 DEF PutBallot
<1>6. ASSUME NEW b \in Ballots, NEW r \in Rounds, NEW answers \in Answers,
             Vote(b, r, answers) \/ Apply(b, r, answers) \/ DeleteBallot(b)
      PROVE  Same
  <2>1. \E object : PutBallot(b, object)
    BY <1>6 DEF Vote, Apply, DeleteBallot
  <2> HIDE DEF Same
  <2> QED
    BY <1>5, <2>1
<1>7. ASSUME DeliverBallot \/ RelistBallots \/ Resync \/ Tick \/ PatchNotFound
      PROVE  Same
  BY <1>7 DEF DeliverBallot, RelistBallots, Resync, Tick, PatchNotFound
<1>8. ASSUME patch # Nothing, Write, UNCHANGED cachedRounds, patch' = Nothing
      PROVE  Put \/ Same
  <2> DEFINE r == patch.round
             object == [rounds[r] EXCEPT !.status = patch.status]
  <2>1. patch.status \in Status /\ r \in Rounds /\ rounds[r] \in Round
    BY <1>8, WriteType DEF Patch
  <2>2. /\ object \in Maybe(Round) /\ object \in Round
        /\ object.generation = rounds[r].generation /\ SameVersion(object, rounds[r])
        /\ object.status = patch.status
    BY <2>1, WrittenType DEF Maybe, Round, SameVersion
  <2>3. \/ rounds' = rounds /\ roundEvents' = roundEvents
        \/ PutRound(r, object)
    BY <1>8 DEF Write
  <2> HIDE DEF object
  <2>4. Change(r, object)
    BY <1>8, <2>1, <2>2 DEF Change
  <2> QED
    BY <1>8, <2>1, <2>2, <2>3, <2>4
<1>9. ASSUME Patched \/ PatchFails PROVE Put \/ Same
  <2>1. /\ patch # Nothing /\ UNCHANGED cachedRounds /\ patch' = Nothing
        /\ Write \/ UNCHANGED <<rounds, roundEvents>>
    BY <1>9 DEF Patched, PatchFails
  <2> HIDE DEF Put
  <2> QED
    BY <1>8, <2>1
<1>10. ASSUME UNCHANGED vars PROVE Same
  BY <1>10 DEF vars
<1> HIDE DEF Put, Same
<1>11. ASSUME NEW b \in Ballots, DeleteBallot(b) PROVE Same
  <2>1. PutBallot(b, Nothing)
    BY <1>11 DEF DeleteBallot
  <2> QED
    BY <1>5, <2>1
<1>12. Put \/ Same \/ DeliverRound \/ RelistRounds \/ Restart
  BY <1>1, <1>2, <1>3, <1>4, <1>6, <1>7, <1>9, <1>10, <1>11
  DEF Next, Operator, Voters, Worker
<1> QED
  BY <1>12 DEF Put, Same

LEMMA FiledAfter ==
  ASSUME NEW given, IsFiniteSet(Filed(given)), NEW b,
         NEW after, \A c \in Ballots : c # b => after[c] = given[c]
  PROVE  IsFiniteSet(Filed(after))
<1>1. Filed(after) \subseteq Filed(given) \cup {b}
  BY DEF Filed
<1>2. IsFiniteSet(Filed(given) \cup {b})
  BY FS_AddElement
<1> QED
  BY <1>1, <1>2, FS_Subset

LEMMA NextFewBallots ==
  ASSUME TypeOK, FewBallots, [Next]_vars
  PROVE  FewBallots'
<1>1. CASE UNCHANGED <<ballots, ballotEvents, cachedBallots>>
  BY <1>1 DEF FewBallots, Filed
<1>2. ASSUME NEW b \in Ballots, NEW object \in Maybe(Ballot), PutBallot(b, object)
      PROVE  FewBallots'
  <2>1. /\ \A c \in Ballots : c # b => ballots'[c] = ballots[c]
        /\ cachedBallots' = cachedBallots
    BY <1>2 DEF PutBallot, TypeOK
  <2>2. IsFiniteSet(Filed(ballots')) /\ IsFiniteSet(Filed(cachedBallots'))
    BY <2>1, FiledAfter DEF FewBallots
  <2> QED
    BY <2>2 DEF FewBallots, Filed
<1>3. CASE DeliverBallot
  <2> DEFINE event == Head(ballotEvents)
  <2>1. /\ \A c \in Ballots : c # event.name => cachedBallots'[c] = cachedBallots[c]
        /\ ballots' = ballots
    BY <1>3 DEF DeliverBallot, TypeOK, store
  <2> HIDE DEF event
  <2>2. IsFiniteSet(Filed(ballots')) /\ IsFiniteSet(Filed(cachedBallots'))
    BY <2>1, FiledAfter DEF FewBallots
  <2> QED
    BY <2>2 DEF FewBallots, Filed
<1>4. CASE RelistBallots \/ Restart
  <2>1. cachedBallots' = ballots /\ ballots' = ballots
    BY <1>4 DEF RelistBallots, Restart, store
  <2> QED
    BY <2>1 DEF FewBallots, Filed
<1> QED
  BY <1>1, <1>2, <1>3, <1>4, BallotMoves

-----------------------------------------------------------------------------
(* A cache follows what it caches.                                         *)

LEMMA FollowsPut ==
  ASSUME NEW N, NEW O, NEW wire \in Seq([name : N, object : O]), NEW cache,
         NEW truth \in [N -> O], Follows(wire, cache, truth, N), NEW n \in N,
         NEW o \in O
  PROVE  Follows(Append(wire, [name |-> n, object |-> o]), cache,
                 [truth EXCEPT ![n] = o], N)
<1> DEFINE e == [name |-> n, object |-> o]
           w == Append(wire, e)
           t == [truth EXCEPT ![n] = o]
<1>1. /\ Len(w) = Len(wire) + 1 /\ \A i \in 1..Len(wire) : w[i] = wire[i]
      /\ w[Len(wire) + 1] = e /\ e \in [name : N, object : O]
      /\ w \in Seq([name : N, object : O])
  BY AppendProperties
<1>2. /\ DOMAIN wire = 1..Len(wire) /\ Len(wire) \in Nat
      /\ DOMAIN w = 1..(Len(wire) + 1)
  BY <1>1, LenProperties
<1>3. e.name = n /\ e.object = o
  OBVIOUS
<1>4. /\ t[n] = o /\ \A m \in N : m # n => t[m] = truth[m]
  OBVIOUS
<1>5. \A i \in 1..Len(wire) : wire[i].name \in N
  <2>1. \A i \in 1..Len(wire) : wire[i] \in [name : N, object : O]
    BY ElementOfSeq
  <2> QED
    BY <2>1
<1> HIDE DEF e, w, t
<1>6. ASSUME NEW m \in N, \A i \in DOMAIN w : w[i].name # m PROVE cache[m] = t[m]
  <2>1. m # n
    BY <1>1, <1>2, <1>3, <1>6
  <2>2. \A i \in DOMAIN wire : wire[i].name # m
    BY <1>1, <1>2, <1>6
  <2> QED
    BY <1>4, <2>1, <2>2 DEF Follows
<1>7. ASSUME NEW i \in DOMAIN w,
             \A j \in DOMAIN w : j > i => w[j].name # w[i].name
      PROVE  w[i].object = t[w[i].name]
  <2>1. CASE i = Len(wire) + 1
    BY <1>1, <1>3, <1>4, <2>1
  <2>2. CASE i # Len(wire) + 1
    <3>1. i \in 1..Len(wire) /\ w[i] = wire[i]
      BY <1>1, <1>2, <2>2
    <3>2. wire[i].name # n
      BY <1>1, <1>2, <1>3, <1>7, <3>1
    <3>3. \A j \in DOMAIN wire : j > i => wire[j].name # wire[i].name
      BY <1>1, <1>2, <1>7, <3>1
    <3>4. wire[i].object = truth[wire[i].name]
      BY <1>2, <3>1, <3>3 DEF Follows
    <3> QED
      BY <1>4, <1>5, <3>1, <3>2, <3>4
  <2> QED
    BY <2>1, <2>2
<1>8. Follows(w, cache, t, N)
  BY <1>6, <1>7 DEF Follows
<1> QED
  BY <1>8 DEF e, w, t

LEMMA FollowsDeliver ==
  ASSUME NEW N, NEW O, NEW wire \in Seq([name : N, object : O]), wire # <<>>,
         NEW cache \in [N -> O], NEW truth, Follows(wire, cache, truth, N)
  PROVE  Follows(Tail(wire), [cache EXCEPT ![Head(wire).name] = Head(wire).object],
                 truth, N)
<1> DEFINE e == Head(wire)
           w == Tail(wire)
           c == [cache EXCEPT ![e.name] = e.object]
           n == Len(wire)
<1>1. /\ w \in Seq([name : N, object : O]) /\ Len(w) = n - 1
      /\ \A i \in 1..Len(w) : w[i] = wire[i + 1]
      /\ e \in [name : N, object : O]
  BY HeadTailProperties
<1>2. /\ DOMAIN wire = 1..n /\ n \in Nat /\ n # 0 /\ DOMAIN w = 1..(n - 1)
  BY <1>1, LenProperties, EmptySeq
<1>3. e = wire[1]
  BY <1>2
<1>4. /\ e.name \in N /\ c[e.name] = e.object
      /\ \A m \in N : m # e.name => c[m] = cache[m]
  BY <1>1
<1>5. \A i \in 1..(n - 1) : w[i] = wire[i + 1]
  BY <1>1
<1> HIDE DEF e, w, c, n
<1>6. ASSUME NEW m \in N, \A i \in DOMAIN w : w[i].name # m PROVE c[m] = truth[m]
  <2>1. \A j \in 1..n : j > 1 => wire[j].name # m
    <3> SUFFICES ASSUME NEW j \in 1..n, j > 1 PROVE wire[j].name # m
      OBVIOUS
    <3>1. j - 1 \in 1..(n - 1) /\ (j - 1) + 1 = j
      BY <1>2
    <3>2. w[j - 1] = wire[j]
      BY <1>5, <3>1
    <3> QED
      BY <1>2, <1>6, <3>1, <3>2
  <2>2. CASE m = e.name
    <3>1. wire[1].object = truth[wire[1].name]
      BY <1>2, <1>3, <2>1, <2>2 DEF Follows
    <3> QED
      BY <1>3, <1>4, <2>2, <3>1
  <2>3. CASE m # e.name
    <3>1. \A j \in DOMAIN wire : wire[j].name # m
      <4> SUFFICES ASSUME NEW j \in 1..n PROVE wire[j].name # m
        BY <1>2
      <4>1. j = 1 \/ j > 1
        OBVIOUS
      <4> QED
        BY <1>3, <2>1, <2>3, <4>1
    <3> QED
      BY <1>4, <2>3, <3>1 DEF Follows
  <2> QED
    BY <2>2, <2>3
<1>7. ASSUME NEW i \in DOMAIN w,
             \A j \in DOMAIN w : j > i => w[j].name # w[i].name
      PROVE  w[i].object = truth[w[i].name]
  <2>1. i \in 1..(n - 1) /\ i + 1 \in 1..n /\ w[i] = wire[i + 1]
    BY <1>2, <1>5
  <2>2. \A j \in DOMAIN wire : j > i + 1 => wire[j].name # wire[i + 1].name
    <3> SUFFICES ASSUME NEW j \in 1..n, j > i + 1
                 PROVE  wire[j].name # wire[i + 1].name
      BY <1>2
    <3>1. j - 1 \in 1..(n - 1) /\ (j - 1) + 1 = j /\ j - 1 > i
      BY <1>2, <2>1
    <3>2. w[j - 1] = wire[j]
      BY <1>5, <3>1
    <3> QED
      BY <1>2, <1>7, <2>1, <3>1, <3>2
  <2> QED
    BY <1>2, <2>1, <2>2 DEF Follows
<1>8. Follows(w, c, truth, N)
  BY <1>6, <1>7 DEF Follows
<1> QED
  BY <1>8 DEF e, w, c

LEMMA FollowsRelist ==
  ASSUME NEW N, NEW truth
  PROVE  Follows(<<>>, truth, truth, N)
  BY DEF Follows

(* When nothing is on the wire the cache is what there is.                 *)
LEMMA FollowsAtRest ==
  ASSUME NEW N, NEW cache, NEW truth, Follows(<<>>, cache, truth, N)
  PROVE  \A n \in N : cache[n] = truth[n]
  BY DEF Follows

LEMMA NextFollowed ==
  ASSUME TypeOK, Followed, [Next]_vars
  PROVE  Followed'
<1> DEFINE OnRounds == Follows(roundEvents', cachedRounds', rounds', Rounds)
           OnBallots == Follows(ballotEvents', cachedBallots', ballots', Ballots)
<1> USE DEF store, watches
<1>0. /\ roundEvents \in Seq([name : Rounds, object : Maybe(Round)])
      /\ ballotEvents \in Seq([name : Ballots, object : Maybe(Ballot)])
      /\ rounds \in [Rounds -> Maybe(Round)] /\ cachedRounds \in [Rounds -> Maybe(Round)]
      /\ ballots \in [Ballots -> Maybe(Ballot)]
      /\ cachedBallots \in [Ballots -> Maybe(Ballot)]
  BY DEF TypeOK
<1>1. OnRounds
  <2>1. CASE UNCHANGED <<rounds, roundEvents, cachedRounds>>
    BY <2>1 DEF Followed
  <2>2. ASSUME NEW r \in Rounds, NEW object \in Maybe(Round), PutRound(r, object),
               UNCHANGED cachedRounds
        PROVE  OnRounds
    <3>1. /\ roundEvents' = Append(roundEvents, [name |-> r, object |-> object])
          /\ rounds' = [rounds EXCEPT ![r] = object]
      BY <2>2 DEF PutRound
    <3>2. Follows(Append(roundEvents, [name |-> r, object |-> object]), cachedRounds,
                  [rounds EXCEPT ![r] = object], Rounds)
      BY <1>0, FollowsPut DEF Followed
    <3> QED
      BY <2>2, <3>1, <3>2
  <2>3. CASE DeliverRound
    <3>1. /\ roundEvents # <<>> /\ roundEvents' = Tail(roundEvents) /\ rounds' = rounds
          /\ cachedRounds' = [cachedRounds EXCEPT
                                ![Head(roundEvents).name] = Head(roundEvents).object]
      BY <2>3 DEF DeliverRound
    <3>2. Follows(Tail(roundEvents),
                  [cachedRounds EXCEPT
                     ![Head(roundEvents).name] = Head(roundEvents).object],
                  rounds, Rounds)
      BY <1>0, <3>1, FollowsDeliver DEF Followed
    <3> QED
      BY <3>1, <3>2
  <2>4. CASE RelistRounds \/ Restart
    <3>1. roundEvents' = <<>> /\ cachedRounds' = rounds /\ rounds' = rounds
      BY <2>4 DEF RelistRounds, Restart
    <3> QED
      BY <3>1, FollowsRelist
  <2> QED
    BY <2>1, <2>2, <2>3, <2>4, RoundMoves
<1>2. OnBallots
  <2>1. CASE UNCHANGED <<ballots, ballotEvents, cachedBallots>>
    BY <2>1 DEF Followed
  <2>2. ASSUME NEW b \in Ballots, NEW object \in Maybe(Ballot), PutBallot(b, object)
        PROVE  OnBallots
    <3>1. /\ ballotEvents' = Append(ballotEvents, [name |-> b, object |-> object])
          /\ ballots' = [ballots EXCEPT ![b] = object] /\ cachedBallots' = cachedBallots
      BY <2>2 DEF PutBallot
    <3>2. Follows(Append(ballotEvents, [name |-> b, object |-> object]), cachedBallots,
                  [ballots EXCEPT ![b] = object], Ballots)
      BY <1>0, FollowsPut DEF Followed
    <3> QED
      BY <3>1, <3>2
  <2>3. CASE DeliverBallot
    <3>1. /\ ballotEvents # <<>> /\ ballotEvents' = Tail(ballotEvents)
          /\ ballots' = ballots
          /\ cachedBallots' = [cachedBallots EXCEPT
                                 ![Head(ballotEvents).name] = Head(ballotEvents).object]
      BY <2>3 DEF DeliverBallot
    <3>2. Follows(Tail(ballotEvents),
                  [cachedBallots EXCEPT
                     ![Head(ballotEvents).name] = Head(ballotEvents).object],
                  ballots, Ballots)
      BY <1>0, <3>1, FollowsDeliver DEF Followed
    <3> QED
      BY <3>1, <3>2
  <2>4. CASE RelistBallots \/ Restart
    <3>1. ballotEvents' = <<>> /\ cachedBallots' = ballots /\ ballots' = ballots
      BY <2>4 DEF RelistBallots, Restart
    <3> QED
      BY <3>1, FollowsRelist
  <2> QED
    BY <2>1, <2>2, <2>3, <2>4, BallotMoves
<1> QED
  BY <1>1, <1>2 DEF Followed

-----------------------------------------------------------------------------
(* The versions of a round.                                                *)

LEMMA SaidAppend ==
  ASSUME NEW N, NEW O, NEW wire \in Seq([name : N, object : O]), NEW n \in N,
         NEW o \in O, NEW m
  PROVE  Said(Append(wire, [name |-> n, object |-> o]), m)
           = Said(wire, m) \cup (IF m = n THEN {o} ELSE {})
<1> DEFINE e == [name |-> n, object |-> o]
           w == Append(wire, e)
<1>1. /\ Len(w) = Len(wire) + 1 /\ \A i \in 1..Len(wire) : w[i] = wire[i]
      /\ w[Len(wire) + 1] = e /\ e \in [name : N, object : O]
      /\ w \in Seq([name : N, object : O])
  BY AppendProperties
<1>2. /\ DOMAIN wire = 1..Len(wire) /\ Len(wire) \in Nat
      /\ DOMAIN w = 1..(Len(wire) + 1)
  BY <1>1, LenProperties
<1>3. e.name = n /\ e.object = o
  OBVIOUS
<1> HIDE DEF e, w
<1>4. ASSUME NEW x \in Said(w, m)
      PROVE  x \in Said(wire, m) \cup (IF m = n THEN {o} ELSE {})
  <2>1. PICK i \in DOMAIN w : w[i].name = m /\ x = w[i].object
    BY <1>4 DEF Said
  <2>2. CASE i = Len(wire) + 1
    BY <1>1, <1>3, <2>1, <2>2
  <2>3. CASE i # Len(wire) + 1
    <3>1. i \in DOMAIN wire /\ w[i] = wire[i]
      BY <1>1, <1>2, <2>3
    <3> QED
      BY <2>1, <3>1 DEF Said
  <2> QED
    BY <2>2, <2>3
<1>5. ASSUME NEW x \in Said(wire, m) \cup (IF m = n THEN {o} ELSE {})
      PROVE  x \in Said(w, m)
  <2>1. CASE x \in Said(wire, m)
    <3>1. PICK i \in DOMAIN wire : wire[i].name = m /\ x = wire[i].object
      BY <2>1 DEF Said
    <3>2. i \in DOMAIN w /\ w[i] = wire[i]
      BY <1>1, <1>2
    <3> QED
      BY <3>1, <3>2 DEF Said
  <2>2. CASE m = n /\ x = o
    <3>1. Len(wire) + 1 \in DOMAIN w
      BY <1>2
    <3> QED
      BY <1>1, <1>3, <2>2, <3>1 DEF Said
  <2> QED
    BY <1>5, <2>1, <2>2
<1>6. Said(w, m) = Said(wire, m) \cup (IF m = n THEN {o} ELSE {})
  BY <1>4, <1>5
<1> QED
  BY <1>6 DEF e, w

LEMMA SaidTail ==
  ASSUME NEW N, NEW O, NEW wire \in Seq([name : N, object : O]), wire # <<>>, NEW m
  PROVE  /\ Said(Tail(wire), m) \subseteq Said(wire, m)
         /\ Head(wire).object \in Said(wire, Head(wire).name)
<1> DEFINE w == Tail(wire)
           n == Len(wire)
<1>1. /\ w \in Seq([name : N, object : O]) /\ Len(w) = n - 1
      /\ \A i \in 1..Len(w) : w[i] = wire[i + 1]
  BY HeadTailProperties
<1>2. /\ DOMAIN wire = 1..n /\ n \in Nat /\ n # 0 /\ DOMAIN w = 1..(n - 1)
      /\ \A i \in 1..(n - 1) : w[i] = wire[i + 1]
  BY <1>1, LenProperties, EmptySeq
<1>3. Head(wire) = wire[1]
  BY <1>2
<1> HIDE DEF w, n
<1>4. \A i \in DOMAIN w : i + 1 \in DOMAIN wire /\ w[i] = wire[i + 1]
  BY <1>2
<1>5. Said(w, m) \subseteq Said(wire, m)
  BY <1>4 DEF Said
<1>6. 1 \in DOMAIN wire
  BY <1>2
<1> QED
  BY <1>3, <1>5, <1>6 DEF Said, w

(* What is known of a round is a round, and grows by writes alone.         *)
LEMMA NextKnown ==
  ASSUME TypeOK, [Next]_vars
  PROVE  \/ /\ rounds' = rounds
            /\ \A q \in Rounds : Known(q)' \subseteq Known(q)
         \/ \E r \in Rounds, object \in Maybe(Round) :
              /\ Change(r, object) /\ rounds' = [rounds EXCEPT ![r] = object]
              /\ UNCHANGED cachedRounds
              /\ Known(r)' \subseteq Known(r) \cup {object}
              /\ \A q \in Rounds : q # r => Known(q)' \subseteq Known(q)
<1> DEFINE Shrinks == /\ rounds' = rounds
                      /\ \A q \in Rounds : Known(q)' \subseteq Known(q)
           Grows(r, object) ==
              /\ Change(r, object) /\ rounds' = [rounds EXCEPT ![r] = object]
              /\ UNCHANGED cachedRounds
              /\ Known(r)' \subseteq Known(r) \cup {object}
              /\ \A q \in Rounds : q # r => Known(q)' \subseteq Known(q)
<1> USE DEF store, watches
<1>0. /\ roundEvents \in Seq([name : Rounds, object : Maybe(Round)])
      /\ rounds \in [Rounds -> Maybe(Round)] /\ cachedRounds \in [Rounds -> Maybe(Round)]
  BY DEF TypeOK
<1>1. ASSUME UNCHANGED <<rounds, roundEvents, cachedRounds>> PROVE Shrinks
  BY <1>1 DEF Known
<1>2. ASSUME NEW r \in Rounds, NEW object \in Maybe(Round), PutRound(r, object),
             UNCHANGED cachedRounds, Change(r, object)
      PROVE  Grows(r, object)
  <2>1. /\ roundEvents' = Append(roundEvents, [name |-> r, object |-> object])
        /\ rounds' = [rounds EXCEPT ![r] = object]
    BY <1>2 DEF PutRound
  <2>2. ASSUME NEW q \in Rounds
        PROVE  Said(roundEvents', q)
                 = Said(roundEvents, q) \cup (IF q = r THEN {object} ELSE {})
    BY <1>0, <2>1, SaidAppend
  <2>3. rounds'[r] = object /\ \A q \in Rounds : q # r => rounds'[q] = rounds[q]
    BY <1>0, <2>1
  <2>4. ASSUME NEW q \in Rounds, q # r PROVE Known(q)' \subseteq Known(q)
    <3>1. Said(roundEvents', q) = Said(roundEvents, q) /\ rounds'[q] = rounds[q]
      BY <2>2, <2>3, <2>4
    <3> QED
      BY <1>2, <3>1 DEF Known
  <2>5. Known(r)' \subseteq Known(r) \cup {object}
    <3>1. Said(roundEvents', r) = Said(roundEvents, r) \cup {object}
      BY <2>2
    <3> QED
      BY <1>2, <2>3, <3>1 DEF Known
  <2> QED
    BY <1>2, <2>1, <2>4, <2>5
<1>3. ASSUME DeliverRound PROVE Shrinks
  <2> DEFINE e == Head(roundEvents)
  <2>1. /\ roundEvents # <<>> /\ roundEvents' = Tail(roundEvents) /\ rounds' = rounds
        /\ cachedRounds' = [cachedRounds EXCEPT ![e.name] = e.object]
    BY <1>3 DEF DeliverRound
  <2>2. /\ \A q : Said(roundEvents', q) \subseteq Said(roundEvents, q)
        /\ e.object \in Said(roundEvents, e.name)
    BY <1>0, <2>1, SaidTail
  <2> HIDE DEF e
  <2>3. ASSUME NEW q \in Rounds
        PROVE  cachedRounds'[q] \in {cachedRounds[q]} \cup Said(roundEvents, q)
    BY <1>0, <2>1, <2>2
  <2>4. ASSUME NEW q \in Rounds PROVE Known(q)' \subseteq Known(q)
    BY <2>1, <2>2, <2>3 DEF Known
  <2> QED
    BY <2>1, <2>4
<1>4. ASSUME RelistRounds \/ Restart PROVE Shrinks
  <2>1. roundEvents' = <<>> /\ cachedRounds' = rounds /\ rounds' = rounds
    BY <1>4 DEF RelistRounds, Restart
  <2>2. \A q : Said(roundEvents', q) = {}
    BY <2>1 DEF Said
  <2> QED
    BY <2>1, <2>2 DEF Known
<1> HIDE DEF Shrinks, Grows
<1>5. Shrinks \/ \E r \in Rounds, object \in Maybe(Round) : Grows(r, object)
  BY <1>1, <1>2, <1>3, <1>4, RoundMoves
<1> QED
  BY <1>5 DEF Shrinks, Grows

LEMMA KnownType ==
  ASSUME TypeOK, NEW r \in Rounds
  PROVE  /\ Known(r) \subseteq Round
         /\ Exists(rounds[r]) => rounds[r] \in Known(r)
         /\ Exists(cachedRounds[r]) => cachedRounds[r] \in Known(r)
<1>1. /\ rounds[r] \in Maybe(Round) /\ cachedRounds[r] \in Maybe(Round)
      /\ roundEvents \in Seq([name : Rounds, object : Maybe(Round)])
  BY DEF TypeOK
<1>2. \A i \in DOMAIN roundEvents :
        roundEvents[i] \in [name : Rounds, object : Maybe(Round)]
  BY <1>1, LenProperties, ElementOfSeq
<1>3. Said(roundEvents, r) \subseteq Maybe(Round)
  BY <1>2 DEF Said
<1> QED
  BY <1>1, <1>3 DEF Known, Exists, Maybe

LEMMA Absent == \A x \in Status \cup Round \cup Ballot \cup Patch : Exists(x)
  BY AbsentAssumption DEF Exists

LEMMA NextVersioned ==
  ASSUME TypeOK, Versioned, [Next]_vars, NamesAreFresh
  PROVE  Versioned'
<1> DEFINE Good(K, round) ==
             /\ \A x, y \in K : x.generation = y.generation => SameVersion(x, y)
             /\ Exists(round) => \A x \in K : x.generation <= round.generation
<1>0. \A q \in Rounds : Good(Known(q), rounds[q])
  BY DEF Versioned
<1>1. SUFFICES ASSUME NEW q \in Rounds PROVE Good(Known(q)', rounds'[q])
  BY DEF Versioned
<1>2. ASSUME rounds'[q] = rounds[q], Known(q)' \subseteq Known(q)
      PROVE  Good(Known(q)', rounds'[q])
  BY <1>0, <1>2
<1>3. CASE rounds' = rounds /\ Known(q)' \subseteq Known(q)
  BY <1>2, <1>3
<1>4. ASSUME NEW r \in Rounds, NEW object \in Maybe(Round), Change(r, object),
             rounds' = [rounds EXCEPT ![r] = object],
             Known(r)' \subseteq Known(r) \cup {object},
             q # r => Known(q)' \subseteq Known(q)
      PROVE  Good(Known(q)', rounds'[q])
  <2>1. CASE q # r
    <3>1. rounds'[q] = rounds[q]
      BY <1>4, <2>1 DEF TypeOK
    <3> QED
      BY <1>2, <1>4, <2>1, <3>1
  <2>2. CASE q = r
    <3>1. rounds'[r] = object /\ Known(r) \subseteq Round
          /\ \A x \in Round : x.generation \in Nat
      BY <1>4, KnownType DEF TypeOK, Round
    <3>2. CASE ~Exists(rounds[r]) /\ object \in Round
      <4>1. Exists(rounds'[r])
        BY <3>1, <3>2, Absent
      <4>2. Known(r) = {}
        BY <3>2, <4>1 DEF NamesAreFresh, Forgotten
      <4>3. \A x \in Known(r)' : x = object
        BY <1>4, <4>2
      <4> QED
        BY <2>2, <3>1, <3>2, <4>3 DEF SameVersion
    <3>3. CASE /\ rounds[r] \in Round /\ object \in Round
               /\ object.generation = rounds[r].generation + 1
      <4>1. Exists(rounds[r])
        BY <3>3, Absent
      <4>2. \A x \in Known(r) : x.generation <= rounds[r].generation
        BY <1>0, <4>1
      <4>3. \A x \in Known(r) : x.generation < object.generation
        BY <3>1, <3>3, <4>2
      <4>4. \A x, y \in Known(r) : x.generation = y.generation => SameVersion(x, y)
        BY <1>0
      <4> QED
        BY <1>4, <2>2, <3>1, <3>3, <4>3, <4>4 DEF SameVersion
    <3>4. CASE object = Nothing
      <4>1. Known(r)' \subseteq Known(r)
        BY <1>4, <3>4 DEF Known, Exists
      <4>2. ~Exists(rounds'[r])
        BY <3>1, <3>4 DEF Exists
      <4> QED
        BY <1>0, <2>2, <4>1, <4>2
    <3>5. CASE /\ rounds[r] \in Round /\ object \in Round
               /\ object.generation = rounds[r].generation
               /\ SameVersion(object, rounds[r])
      <4>1. Exists(rounds[r])
        BY <3>5, Absent
      <4>2. rounds[r] \in Known(r)
        BY <4>1, KnownType
      <4>3. /\ \A x, y \in Known(r) : x.generation = y.generation => SameVersion(x, y)
            /\ \A x \in Known(r) : x.generation <= rounds[r].generation
        BY <1>0, <4>1
      <4> QED
        BY <1>4, <2>2, <3>1, <3>5, <4>2, <4>3 DEF SameVersion
    <3> QED
      BY <1>4, <3>2, <3>3, <3>4, <3>5 DEF Change
  <2> QED
    BY <2>1, <2>2
<1> HIDE DEF Good
<1> QED
  BY <1>3, <1>4, NextKnown

(* The patch stays, goes, or is what the worker has just computed.         *)
LEMMA PatchMoves ==
  ASSUME [Next]_vars
  PROVE  patch' \in {patch, Nothing} \/ \E r \in Rounds : Reconcile(r)
<1> USE DEF store, watches, controller
<1> DEFINE Moves == patch' \in {patch, Nothing}
<1>1. ASSUME NEW r \in Rounds, NEW state \in States, NEW questions \in Questions,
             CreateRound(r, state, questions) \/ EditRound(r, state, questions)
      PROVE  Moves
  BY <1>1 DEF CreateRound, EditRound
<1>2. ASSUME NEW r \in Rounds, DeleteRound(r) \/ Due(r) \/ ReconcileQuietly(r)
      PROVE  Moves
  BY <1>2 DEF DeleteRound, Due, ReconcileQuietly
<1>3. ASSUME NEW b \in Ballots, NEW r \in Rounds, NEW answers \in Answers,
             Vote(b, r, answers) \/ Apply(b, r, answers)
      PROVE  Moves
  BY <1>3 DEF Vote, Apply, PutBallot
<1>4. ASSUME NEW b \in Ballots, DeleteBallot(b) PROVE Moves
  BY <1>4 DEF DeleteBallot, PutBallot
<1>5. ASSUME DeliverBallot \/ DeliverRound \/ RelistRounds \/ RelistBallots \/ Resync
      PROVE  Moves
  BY <1>5 DEF DeliverBallot, DeliverRound, RelistRounds, RelistBallots, Resync
<1>6. ASSUME Patched \/ PatchNotFound \/ PatchFails \/ Restart \/ Tick PROVE Moves
  BY <1>6 DEF Patched, PatchNotFound, PatchFails, Restart, Tick
<1>7. ASSUME UNCHANGED vars PROVE Moves
  BY <1>7 DEF vars
<1> HIDE DEF Moves
<1>8. Moves \/ \E r \in Rounds : Reconcile(r)
  BY <1>1, <1>2, <1>3, <1>4, <1>5, <1>6, <1>7 DEF Next, Operator, Voters, Worker
<1> QED
  BY <1>8 DEF Moves

(* What the worker computes is of a version the round has or had.          *)
LEMMA ReconciledCurrent ==
  ASSUME TypeOK, Versioned, NEW r \in Rounds, Reconcile(r), Exists(rounds[r])
  PROVE  patch'.round = r /\ Current(patch'.status, rounds[r])
<1> DEFINE cached == cachedRounds[r]
<1>1. /\ cached \in Known(r) /\ rounds[r] \in Known(r) /\ Known(r) \subseteq Round
  BY KnownType DEF Reconcile
<1>2. /\ patch' = [round |-> r, pins |-> Pins(r, cached, cachedBallots),
                   status |-> Wanted(r, cached, cachedBallots)]
  BY DEF Reconcile
<1>3. /\ Wanted(r, cached, cachedBallots).generation = cached.generation
      /\ Wanted(r, cached, cachedBallots).digest = cached.questions
  BY DEF Wanted
<1>4. /\ cached.generation <= rounds[r].generation
      /\ cached.generation = rounds[r].generation =>
           cached.questions = rounds[r].questions
  BY <1>1 DEF Versioned, SameVersion
<1>5. cached.generation \in Nat /\ rounds[r].generation \in Nat
  BY <1>1 DEF Round
<1> HIDE DEF cached
<1> QED
  BY <1>2, <1>3, <1>4, <1>5 DEF Current

LEMMA NextCurrent ==
  ASSUME TypeOK, Versioned, ResultsCurrent, [Next]_vars, NamesAreFresh
  PROVE  ResultsCurrent'
<1> DEFINE Good(p, q, round) ==
             Exists(round) =>
               /\ round.status # Nothing => Current(round.status, round)
               /\ p # Nothing /\ p.round = q => Current(p.status, round)
<1>0. \A q \in Rounds : Good(patch, q, rounds[q])
  BY DEF ResultsCurrent
<1>1. SUFFICES ASSUME NEW q \in Rounds PROVE Good(patch', q, rounds'[q])
  BY DEF ResultsCurrent
<1>2. ASSUME rounds'[q] = rounds[q], patch' \in {patch, Nothing}
      PROVE  Good(patch', q, rounds'[q])
  BY <1>0, <1>2
<1>3. CASE rounds' = rounds
  <2>1. CASE patch' \in {patch, Nothing}
    BY <1>2, <1>3, <2>1
  <2>2. ASSUME NEW r \in Rounds, Reconcile(r) PROVE Good(patch', q, rounds'[q])
    <3>1. CASE q = r
      BY <1>0, <1>3, <2>2, <3>1, ReconciledCurrent
    <3>2. CASE q # r
      <4>1. patch'.round = r
        BY <2>2 DEF Reconcile
      <4> QED
        BY <1>0, <1>3, <3>2, <4>1
    <3> QED
      BY <3>1, <3>2
  <2> HIDE DEF Good
  <2> QED
    BY <2>1, <2>2, PatchMoves
<1>4. ASSUME NEW r \in Rounds, NEW object \in Maybe(Round), Change(r, object),
             rounds' = [rounds EXCEPT ![r] = object]
      PROVE  Good(patch', q, rounds'[q])
  <2>1. CASE q # r
    <3>1. rounds'[q] = rounds[q] /\ patch' \in {patch, Nothing}
      BY <1>4, <2>1 DEF TypeOK, Change
    <3> QED
      BY <1>2, <3>1
  <2>2. CASE q = r
    <3>1. rounds'[r] = object
      BY <1>4 DEF TypeOK
    <3>2. CASE /\ ~Exists(rounds[r]) /\ object \in Round
               /\ object.status = Nothing /\ patch' = patch
      <4>1. Exists(rounds'[r])
        BY <3>1, <3>2, Absent
      <4>2. patch # Nothing => patch.round # r
        BY <3>2, <4>1 DEF NamesAreFresh, Forgotten
      <4> QED
        BY <2>2, <3>1, <3>2, <4>2
    <3>3. CASE /\ rounds[r] \in Round /\ object \in Round
               /\ object.generation = rounds[r].generation + 1
               /\ object.status = rounds[r].status /\ patch' = patch
      <4>1. Exists(rounds[r]) /\ rounds[r].generation \in Nat
        BY <3>3, Absent DEF Round
      <4>2. ASSUME NEW status, status.generation \in Nat, Current(status, rounds[r])
            PROVE  Current(status, object)
        BY <3>3, <4>1, <4>2 DEF Current
      <4>3. /\ rounds[r].status # Nothing => rounds[r].status.generation \in Nat
            /\ patch # Nothing => patch.status.generation \in Nat
        <5>1. rounds[r].status # Nothing => rounds[r].status \in Status
          BY <3>3 DEF Round, Maybe
        <5>2. patch # Nothing => patch.status \in Status
          BY DEF TypeOK, Patch, Maybe
        <5> QED
          BY <5>1, <5>2 DEF Status
      <4>4. Good(patch, r, rounds[r])
        BY <1>0
      <4> QED
        BY <2>2, <3>1, <3>3, <4>1, <4>2, <4>3, <4>4
    <3>4. CASE object = Nothing
      BY <2>2, <3>1, <3>4 DEF Exists
    <3>5. CASE /\ patch # Nothing /\ patch.round = r
               /\ rounds[r] \in Round /\ object \in Round
               /\ object.generation = rounds[r].generation
               /\ SameVersion(object, rounds[r])
               /\ object.status = patch.status /\ patch' = Nothing
      <4>1. Current(patch.status, rounds[r])
        BY <1>0, <3>5, Absent
      <4> QED
        BY <2>2, <3>1, <3>5, <4>1 DEF Current, SameVersion
    <3> HIDE DEF Good
    <3> QED
      BY <1>4, <3>2, <3>3, <3>4, <3>5 DEF Change
  <2> HIDE DEF Good
  <2> QED
    BY <2>1, <2>2
<1> HIDE DEF Good
<1> QED
  BY <1>3, <1>4, NextKnown

-----------------------------------------------------------------------------
(* The last result.                                                        *)

LEMMA NextNamed ==
  ASSUME NEW home, TypeOK, AllNamed(home), [Next]_vars, BallotsNamed(home)'
  PROVE  AllNamed(home)'
<1> DEFINE Good(S, b) == \A object \in S : Exists(object) => object.round = home[b]
<1> USE DEF store, watches
<1>0. /\ ballotEvents \in Seq([name : Ballots, object : Maybe(Ballot)])
      /\ ballots \in [Ballots -> Maybe(Ballot)]
      /\ cachedBallots \in [Ballots -> Maybe(Ballot)]
  BY DEF TypeOK
<1>1. SUFFICES ASSUME NEW b \in Ballots
               PROVE  Good({ballots'[b], cachedBallots'[b]} \cup Said(ballotEvents', b), b)
  BY DEF AllNamed
<1>2. Good({ballots[b], cachedBallots[b]} \cup Said(ballotEvents, b), b)
  BY DEF AllNamed
<1>3. Good({ballots'[b]}, b)
  BY DEF BallotsNamed
<1>4. CASE UNCHANGED <<ballots, ballotEvents, cachedBallots>>
  BY <1>2, <1>4
<1>5. ASSUME NEW c \in Ballots, NEW object \in Maybe(Ballot), PutBallot(c, object)
      PROVE  Good({ballots'[b], cachedBallots'[b]} \cup Said(ballotEvents', b), b)
  <2>1. /\ ballotEvents' = Append(ballotEvents, [name |-> c, object |-> object])
        /\ ballots' = [ballots EXCEPT ![c] = object] /\ cachedBallots' = cachedBallots
    BY <1>5 DEF PutBallot
  <2>2. Said(ballotEvents', b)
          = Said(ballotEvents, b) \cup (IF b = c THEN {object} ELSE {})
    BY <1>0, <2>1, SaidAppend
  <2>3. b = c => object = ballots'[b]
    BY <1>0, <2>1
  <2> QED
    BY <1>2, <1>3, <2>1, <2>2, <2>3
<1>6. CASE DeliverBallot
  <2> DEFINE e == Head(ballotEvents)
  <2>1. /\ ballotEvents # <<>> /\ ballotEvents' = Tail(ballotEvents) /\ ballots' = ballots
        /\ cachedBallots' = [cachedBallots EXCEPT ![e.name] = e.object]
    BY <1>6 DEF DeliverBallot
  <2>2. /\ \A q : Said(ballotEvents', q) \subseteq Said(ballotEvents, q)
        /\ e.object \in Said(ballotEvents, e.name)
    BY <1>0, <2>1, SaidTail
  <2> HIDE DEF e
  <2>3. cachedBallots'[b] \in {cachedBallots[b]} \cup Said(ballotEvents, b)
    BY <1>0, <2>1, <2>2
  <2>4. Said(ballotEvents', b) \subseteq Said(ballotEvents, b)
    BY <2>2
  <2> QED
    BY <1>2, <1>3, <2>3, <2>4
<1>7. CASE RelistBallots \/ Restart
  <2>1. ballotEvents' = <<>> /\ cachedBallots' = ballots /\ ballots' = ballots
    BY <1>7 DEF RelistBallots, Restart
  <2>2. Said(ballotEvents', b) = {}
    BY <2>1 DEF Said
  <2> QED
    BY <1>3, <2>1, <2>2
<1> HIDE DEF Good
<1> QED
  BY <1>4, <1>5, <1>6, <1>7, BallotMoves

(* Two collections that hold the same ballots of a round count the same.   *)
LEMMA SameCount ==
  ASSUME NEW r, NEW round, NEW given, NEW after,
         \A b \in Ballots :
           \/ given[b] = after[b]
           \/ b \notin Cast(r, given) /\ b \notin Cast(r, after)
  PROVE  /\ Cast(r, given) = Cast(r, after)
         /\ Counts(r, round, given) = Counts(r, round, after)
<1>1. Cast(r, given) = Cast(r, after)
  BY DEF Cast
<1>2. \A b \in Cast(r, given) : given[b] = after[b]
  BY DEF Cast
<1>3. Counted(r, round, given) = Counted(r, round, after)
  BY <1>1, <1>2 DEF Counted
<1>4. \A b \in Counted(r, round, given) : given[b] = after[b]
  BY <1>2 DEF Counted
<1>5. ASSUME NEW a
      PROVE  {b \in Counted(r, round, given) : given[b].answers = a}
               = {b \in Counted(r, round, after) : after[b].answers = a}
  BY <1>3, <1>4
<1> QED
  BY <1>1, <1>5 DEF Counts

(* A version is counted the same whatever else its object carries.         *)
LEMMA SameVersionCounts ==
  ASSUME NEW r, NEW x, NEW y, NEW given, SameVersion(x, y)
  PROVE  Counts(r, x, given) = Counts(r, y, given)
<1>1. Counted(r, x, given) = Counted(r, y, given)
  BY DEF Counted, Pinned, SameVersion
<1> QED
  BY <1>1 DEF Counts

LEMMA StillAgrees ==
  ASSUME NEW status, NEW r, NEW x, NEW y, NEW given, NEW after,
         Agrees(status, r, x, given),
         SameVersion(x, y), x.generation = y.generation,
         Cast(r, given) = Cast(r, after),
         Counts(r, x, given) = Counts(r, x, after)
  PROVE  Agrees(status, r, y, after)
<1>1. Counts(r, x, after) = Counts(r, y, after)
  BY SameVersionCounts
<1> QED
  BY <1>1 DEF Agrees, SameVersion

(* What is computed for a live round agrees with the caches.               *)
LEMMA WantedAgrees ==
  ASSUME TypeOK, FewBallots, NEW r \in Rounds, Exists(cachedRounds[r]),
         cachedRounds[r].state = "live"
  PROVE  Agrees(Wanted(r, cachedRounds[r], cachedBallots), r, cachedRounds[r],
                cachedBallots)
<1> DEFINE round == cachedRounds[r]
           status == Wanted(r, round, cachedBallots)
<1>1. round \in Round /\ now \in 1..MaxTime
  BY DEF TypeOK, Exists, Maybe
<1>2. status \in Status
  BY <1>1, WantedType DEF FewBallots
<1>3. status # Nothing
  BY <1>2, Absent DEF Exists
<1>4. status.openedAt = OpenedAt(round) /\ status.closedAt = ClosedAt(round)
  BY DEF Wanted
<1>5. OpenedAt(round) # Nothing
  BY <1>1, QuizAssumption DEF OpenedAt
<1>6. ClosedAt(round) = Nothing
  BY DEF ClosedAt
<1>7. /\ status.generation = round.generation /\ status.digest = round.questions
      /\ status.filed = Cardinality(Cast(r, cachedBallots))
      /\ status.counted = Counts(r, round, cachedBallots)
  BY DEF Wanted
<1> HIDE DEF round, status
<1>8. Agrees(status, r, round, cachedBallots)
  BY <1>3, <1>4, <1>5, <1>6, <1>7 DEF Agrees
<1> QED
  BY <1>8 DEF round, status

LEMMA NextComputed ==
  ASSUME NEW home, TypeOK, FewBallots, Versioned, AllNamed(home), Computed,
         [Next]_vars, NamesAreFresh
  PROVE  Computed'
<1> USE DEF store, watches, controller, bounds
<1> DEFINE Watched(q) == /\ Exists(rounds[q]) /\ Exists(cachedRounds[q])
                         /\ cachedRounds[q].state = "live"
                         /\ q \notin waiting \cup queue
           Watched1(q) == /\ Exists(rounds'[q]) /\ Exists(cachedRounds'[q])
                          /\ cachedRounds'[q].state = "live"
                          /\ q \notin waiting' \cup queue'
           Last(q) == LastResult(patch, q, rounds[q])
           Last1(q) == LastResult(patch', q, rounds'[q])
           Fine1(q) == Watched1(q) =>
                         Agrees(Last1(q), q, cachedRounds'[q], cachedBallots')
<1>0. ASSUME NEW q \in Rounds, Watched(q)
      PROVE  Agrees(Last(q), q, cachedRounds[q], cachedBallots)
  BY <1>0 DEF Computed
<1>1. SUFFICES ASSUME NEW q \in Rounds PROVE Fine1(q)
  BY DEF Computed
<1>2. ASSUME Watched1(q) => Watched(q), Last1(q) = Last(q),
             cachedRounds'[q] = cachedRounds[q], cachedBallots' = cachedBallots
      PROVE  Fine1(q)
  BY <1>0, <1>2
<1>3. ASSUME UNCHANGED <<rounds, cachedRounds, cachedBallots, patch>>,
             waiting \cup queue \subseteq waiting' \cup queue'
      PROVE  Fine1(q)
  BY <1>2, <1>3
<1>4. /\ rounds \in [Rounds -> Maybe(Round)] /\ cachedRounds \in [Rounds -> Maybe(Round)]
      /\ ballots \in [Ballots -> Maybe(Ballot)]
      /\ cachedBallots \in [Ballots -> Maybe(Ballot)] /\ patch \in Maybe(Patch)
  BY DEF TypeOK
<1>5. ASSUME UNCHANGED <<cachedRounds, cachedBallots, patch>>,
             waiting \cup queue \subseteq waiting' \cup queue',
             Exists(rounds'[q]) => Exists(rounds[q]) /\ rounds'[q].status = rounds[q].status
      PROVE  Fine1(q)
  <2> SUFFICES ASSUME Watched1(q)
               PROVE  Agrees(Last1(q), q, cachedRounds'[q], cachedBallots')
    OBVIOUS
  <2>1. Last1(q) = Last(q) /\ Watched(q)
    BY <1>5 DEF LastResult
  <2> HIDE DEF Last1, Last, Watched, Watched1
  <2> QED
    BY <1>0, <1>5, <2>1
<1>6. ASSUME NEW r \in Rounds, NEW state \in States, NEW questions \in Questions,
             CreateRound(r, state, questions)
      PROVE  Fine1(q)
  <2> DEFINE object == [uid |-> uids + 1, generation |-> 1, state |-> state,
                        questions |-> questions, status |-> Nothing]
  <2>1. /\ rounds' = [rounds EXCEPT ![r] = object] /\ ~Exists(rounds[r])
        /\ UNCHANGED <<cachedRounds, cachedBallots, patch, waiting, queue>>
    BY <1>6 DEF CreateRound, PutRound, Exists
  <2> HIDE DEF object
  <2>2. CASE q # r
    <3>1. rounds'[q] = rounds[q]
      BY <2>1, <2>2
    <3> QED
      BY <1>5, <2>1, <3>1
  <2>3. CASE q = r
    <3>1. ASSUME Exists(rounds'[r]) PROVE ~Exists(cachedRounds'[r])
      <4>1. Known(r) = {}
        BY <2>1, <3>1 DEF NamesAreFresh, Forgotten
      <4> QED
        BY <2>1, <4>1 DEF Known
    <3> QED
      BY <2>3, <3>1
  <2> QED
    BY <2>2, <2>3
<1>7. ASSUME NEW r \in Rounds, NEW state \in States, NEW questions \in Questions,
             EditRound(r, state, questions)
      PROVE  Fine1(q)
  <2>1. /\ Exists(rounds[r])
        /\ UNCHANGED <<cachedRounds, cachedBallots, patch, waiting, queue>>
        /\ rounds' = [rounds EXCEPT ![r] =
                        [rounds[r] EXCEPT !.state = state, !.questions = questions,
                                          !.generation = @ + 1]]
    BY <1>7 DEF EditRound, PutRound, Exists
  <2>2. rounds[r] \in Round
    BY <1>4, <2>1 DEF Exists, Maybe
  <2>3. q # r => rounds'[q] = rounds[q]
    BY <1>4, <2>1
  <2>4. rounds'[r].status = rounds[r].status
    <3> DEFINE g == rounds[r].generation + 1
    <3>1. rounds'[r] = [rounds[r] EXCEPT !.state = state, !.questions = questions,
                                         !.generation = g]
      BY <1>4, <2>1, Zenon
    <3> HIDE DEF g
    <3> QED
      BY <2>2, <3>1 DEF Round
  <2> QED
    BY <1>5, <2>1, <2>3, <2>4
<1>8. ASSUME NEW r \in Rounds, DeleteRound(r) PROVE Fine1(q)
  <2>1. /\ rounds' = [rounds EXCEPT ![r] = Nothing]
        /\ UNCHANGED <<cachedRounds, cachedBallots, patch, waiting, queue>>
    BY <1>8 DEF DeleteRound, PutRound
  <2>2. Exists(rounds'[q]) => rounds'[q] = rounds[q]
    BY <1>4, <2>1 DEF Exists
  <2> QED
    BY <1>5, <2>1, <2>2
<1>9. ASSUME NEW b \in Ballots, NEW object, PutBallot(b, object) PROVE Fine1(q)
  BY <1>3, <1>9 DEF PutBallot
<1>10. ASSUME NEW b \in Ballots, NEW r \in Rounds, NEW answers \in Answers,
              Vote(b, r, answers) \/ Apply(b, r, answers)
       PROVE  Fine1(q)
  <2>1. \E object : PutBallot(b, object)
    BY <1>10 DEF Vote, Apply
  <2> HIDE DEF Fine1
  <2> QED
    BY <1>9, <2>1
<1>11. ASSUME NEW b \in Ballots, DeleteBallot(b) PROVE Fine1(q)
  <2>1. PutBallot(b, Nothing)
    BY <1>11 DEF DeleteBallot
  <2> HIDE DEF Fine1
  <2> QED
    BY <1>9, <2>1
<1>12. ASSUME UNCHANGED <<rounds, cachedRounds, patch, queue>>, waiting \subseteq waiting',
              Watched1(q) =>
                \A b \in Ballots :
                  \/ cachedBallots[b] = cachedBallots'[b]
                  \/ b \notin Cast(q, cachedBallots) /\ b \notin Cast(q, cachedBallots')
       PROVE  Fine1(q)
  <2> SUFFICES ASSUME Watched1(q)
               PROVE  Agrees(Last1(q), q, cachedRounds'[q], cachedBallots')
    OBVIOUS
  <2>1. Watched(q) /\ Last1(q) = Last(q) /\ cachedRounds'[q] = cachedRounds[q]
    BY <1>12
  <2>2. /\ Cast(q, cachedBallots) = Cast(q, cachedBallots')
        /\ Counts(q, cachedRounds[q], cachedBallots)
             = Counts(q, cachedRounds[q], cachedBallots')
    <3>1. \A b \in Ballots :
            \/ cachedBallots[b] = cachedBallots'[b]
            \/ b \notin Cast(q, cachedBallots) /\ b \notin Cast(q, cachedBallots')
      BY <1>12
    <3> QED
      BY <3>1, SameCount
  <2>3. Agrees(Last(q), q, cachedRounds[q], cachedBallots)
    BY <1>0, <2>1
  <2> HIDE DEF Last, Last1, Watched, Watched1
  <2>4. Agrees(Last(q), q, cachedRounds[q], cachedBallots')
    BY <2>2, <2>3, StillAgrees DEF SameVersion
  <2> QED
    BY <2>1, <2>4
<1>13. CASE DeliverBallot
  <2> DEFINE e == Head(ballotEvents)
             woken == BallotRound(cachedBallots[e.name], e.object)
  <2>1. /\ ballotEvents # <<>>
        /\ cachedBallots' = [cachedBallots EXCEPT ![e.name] = e.object]
        /\ waiting' = waiting \cup woken
        /\ UNCHANGED <<rounds, cachedRounds, patch, queue>>
    BY <1>13 DEF DeliverBallot
  <2>2. e \in BallotEvent /\ e.object \in Said(ballotEvents, e.name)
    <3>1. ballotEvents \in Seq([name : Ballots, object : Maybe(Ballot)])
      BY DEF TypeOK
    <3> QED
      BY <2>1, <3>1, DeliveredBallot, SaidTail
  <2>3. woken = BallotRound(cachedBallots[e.name], e.object)
    OBVIOUS
  <2> HIDE DEF e, woken
  <2>4. e.name \in Ballots
    BY <2>2 DEF BallotEvent
  <2>5. /\ Exists(e.object) => e.object.round = home[e.name]
        /\ Exists(cachedBallots[e.name]) => cachedBallots[e.name].round = home[e.name]
    BY <2>2, <2>4 DEF AllNamed
  <2>6. Exists(e.object) \/ Exists(cachedBallots[e.name]) => woken = {home[e.name]}
    BY <2>3, <2>5 DEF BallotRound
  <2>7. /\ cachedBallots'[e.name] = e.object
        /\ \A b \in Ballots : b # e.name => cachedBallots'[b] = cachedBallots[b]
    BY <1>4, <2>1, <2>4
  <2>8. ASSUME q \notin waiting', NEW b \in Ballots, cachedBallots[b] # cachedBallots'[b]
        PROVE  b \notin Cast(q, cachedBallots) /\ b \notin Cast(q, cachedBallots')
    <3>1. b = e.name
      BY <2>7, <2>8
    <3>2. q \notin woken
      BY <2>1, <2>8
    <3> QED
      BY <2>5, <2>6, <2>7, <3>1, <3>2 DEF Cast
  <2>9. Watched1(q) => q \notin waiting'
    OBVIOUS
  <2> HIDE DEF Fine1, Watched1
  <2> QED
    BY <1>12, <2>1, <2>8, <2>9
<1>14. CASE RelistBallots
  <2> DEFINE woken == UNION {BallotRound(cachedBallots[b], ballots[b]) : b \in Ballots}
  <2>1. /\ cachedBallots' = ballots /\ waiting' = waiting \cup woken
        /\ UNCHANGED <<rounds, cachedRounds, patch, queue>>
    BY <1>14 DEF RelistBallots
  <2>2. ASSUME q \notin waiting', NEW b \in Ballots
        PROVE  b \notin Cast(q, cachedBallots) /\ b \notin Cast(q, cachedBallots')
    <3>1. q \notin BallotRound(cachedBallots[b], ballots[b])
      BY <2>1, <2>2
    <3>2. /\ Exists(ballots[b]) => ballots[b].round = home[b]
          /\ Exists(cachedBallots[b]) => cachedBallots[b].round = home[b]
      BY DEF AllNamed
    <3> QED
      BY <2>1, <3>1, <3>2 DEF Cast, BallotRound
  <2>3. Watched1(q) => q \notin waiting'
    OBVIOUS
  <2> HIDE DEF Fine1, Watched1, woken
  <2> QED
    BY <1>12, <2>1, <2>2, <2>3
<1>15. ASSUME UNCHANGED <<rounds, cachedBallots, patch, queue>>, waiting \subseteq waiting',
              Watched1(q) =>
                \/ cachedRounds'[q] = cachedRounds[q]
                \/ cachedRounds'[q] \in Known(q) /\ ~RoundChanged(cachedRounds[q], cachedRounds'[q])
       PROVE  Fine1(q)
  <2> SUFFICES ASSUME Watched1(q)
               PROVE  Agrees(Last1(q), q, cachedRounds'[q], cachedBallots')
    OBVIOUS
  <2>1. CASE cachedRounds'[q] = cachedRounds[q]
    BY <1>2, <1>15, <2>1
  <2>2. CASE cachedRounds'[q] \in Known(q) /\ ~RoundChanged(cachedRounds[q], cachedRounds'[q])
    <3>1. /\ Exists(cachedRounds[q])
          /\ cachedRounds[q].generation = cachedRounds'[q].generation
      BY <2>2 DEF RoundChanged
    <3>2. cachedRounds[q] \in Known(q)
      BY <3>1, KnownType
    <3>3. SameVersion(cachedRounds[q], cachedRounds'[q])
      BY <2>2, <3>1, <3>2 DEF Versioned
    <3>4. Watched(q) /\ Last1(q) = Last(q)
      BY <1>15, <3>1, <3>3 DEF SameVersion
    <3>5. Agrees(Last(q), q, cachedRounds[q], cachedBallots)
      BY <1>0, <3>4
    <3> HIDE DEF Last, Last1, Watched, Watched1
    <3>6. Agrees(Last(q), q, cachedRounds'[q], cachedBallots)
      BY <3>1, <3>3, <3>5, StillAgrees
    <3> QED
      BY <1>15, <3>4, <3>6
  <2> QED
    BY <1>15, <2>1, <2>2
<1>16. CASE DeliverRound
  <2> DEFINE e == Head(roundEvents)
  <2>1. /\ roundEvents # <<>>
        /\ cachedRounds' = [cachedRounds EXCEPT ![e.name] = e.object]
        /\ waiting' = IF RoundChanged(cachedRounds[e.name], e.object)
                      THEN waiting \cup {e.name} ELSE waiting
        /\ UNCHANGED <<rounds, cachedBallots, patch, queue>>
    BY <1>16 DEF DeliverRound
  <2>2. e \in RoundEvent /\ e.object \in Said(roundEvents, e.name)
    <3>1. roundEvents \in Seq([name : Rounds, object : Maybe(Round)])
      BY DEF TypeOK
    <3> QED
      BY <2>1, <3>1, DeliveredRound, SaidTail
  <2> HIDE DEF e
  <2>3. e.name \in Rounds
    BY <2>2 DEF RoundEvent
  <2>4. ASSUME Watched1(q), cachedRounds'[q] # cachedRounds[q]
        PROVE  cachedRounds'[q] \in Known(q) /\ ~RoundChanged(cachedRounds[q], cachedRounds'[q])
    <3>1. q = e.name /\ cachedRounds'[q] = e.object
      BY <1>4, <2>1, <2>3, <2>4
    <3>2. Exists(e.object)
      BY <2>4, <3>1
    <3>3. e.object \in Known(q)
      BY <2>2, <3>1, <3>2 DEF Known
    <3>4. ~RoundChanged(cachedRounds[q], e.object)
      BY <2>1, <2>4, <3>1
    <3> QED
      BY <3>1, <3>3, <3>4
  <2>5. waiting \subseteq waiting'
    BY <2>1
  <2> HIDE DEF Fine1, Watched1
  <2> QED
    BY <1>15, <2>1, <2>4, <2>5
<1>17. CASE RelistRounds
  <2>1. /\ cachedRounds' = rounds
        /\ waiting' = waiting \cup {r \in Rounds : RoundChanged(cachedRounds[r], rounds[r])}
        /\ UNCHANGED <<rounds, cachedBallots, patch, queue>>
    BY <1>17 DEF RelistRounds
  <2>2. ASSUME Watched1(q)
        PROVE  cachedRounds'[q] \in Known(q) /\ ~RoundChanged(cachedRounds[q], cachedRounds'[q])
    BY <2>1, <2>2, KnownType
  <2>3. waiting \subseteq waiting'
    BY <2>1
  <2> HIDE DEF Fine1, Watched1
  <2> QED
    BY <1>15, <2>1, <2>2, <2>3
<1>18. ASSUME NEW r \in Rounds, Due(r) PROVE Fine1(q)
  BY <1>3, <1>18 DEF Due
<1>19. ASSUME NEW r \in Rounds, ReconcileQuietly(r) PROVE Fine1(q)
  <2>1. /\ UNCHANGED <<rounds, cachedRounds, cachedBallots, patch, waiting>>
        /\ queue' = queue \ {r}
        /\ Exists(cachedRounds[r]) => cachedRounds[r].state # "live"
    BY <1>19 DEF ReconcileQuietly, Take, Quiet
  <2>2. CASE q = r
    BY <2>1, <2>2
  <2>3. CASE q # r
    BY <1>2, <2>1, <2>3
  <2> QED
    BY <2>2, <2>3
<1>20. ASSUME NEW r \in Rounds, Reconcile(r) PROVE Fine1(q)
  <2> DEFINE status == Wanted(r, cachedRounds[r], cachedBallots)
  <2>1. /\ UNCHANGED <<rounds, cachedRounds, cachedBallots, waiting>>
        /\ queue' = queue \ {r} /\ patch = Nothing /\ Exists(cachedRounds[r])
        /\ patch' = [round |-> r, status |-> status,
                     pins |-> Pins(r, cachedRounds[r], cachedBallots)]
    BY <1>20 DEF Reconcile, Take
  <2>2. patch'.round = r /\ patch'.status = status
    BY <2>1
  <2>3. CASE q = r
    <3> SUFFICES ASSUME Watched1(q)
                 PROVE  Agrees(Last1(q), q, cachedRounds'[q], cachedBallots')
      OBVIOUS
    <3>1. Agrees(status, r, cachedRounds[r], cachedBallots)
      BY <2>1, <2>3, WantedAgrees
    <3>2. patch' # Nothing
      <4>1. cachedRounds[r] \in Round
        BY <1>4, <2>1 DEF Exists, Maybe
      <4>2. status \in Status
        BY <4>1, WantedType DEF FewBallots, TypeOK
      <4>3. Pins(r, cachedRounds[r], cachedBallots) \in SUBSET (1..MaxUIDs)
        BY <4>1, PinsOfRound DEF Round
      <4> HIDE DEF status
      <4>4. patch' \in Patch
        BY <2>1, <4>2, <4>3 DEF Patch
      <4> QED
        BY <4>4, Absent DEF Exists
    <3> HIDE DEF status
    <3>3. Last1(q) = status
      BY <2>2, <2>3, <3>2 DEF LastResult
    <3> QED
      BY <2>1, <2>3, <3>1, <3>3
  <2>4. CASE q # r
    <3> HIDE DEF status
    <3>1. Last1(q) = Last(q)
      BY <2>1, <2>2, <2>4 DEF LastResult
    <3>2. Watched1(q) => Watched(q)
      BY <2>1, <2>4
    <3> QED
      BY <1>2, <2>1, <3>1, <3>2
  <2> QED
    BY <2>3, <2>4
<1>21. CASE Resync \/ Tick
  BY <1>3, <1>21 DEF Resync, Tick
<1>22. ASSUME Write, patch # Nothing
       PROVE  /\ q = patch.round => rounds'[q].status = patch.status /\ Exists(rounds[q])
              /\ q # patch.round => rounds'[q] = rounds[q]
  <2>1. /\ patch \in Patch /\ patch.round \in Rounds /\ rounds[patch.round] \in Round
        /\ rounds' = [rounds EXCEPT ![patch.round] =
                        [rounds[patch.round] EXCEPT !.status = patch.status]]
    BY <1>22, WriteType
  <2>2. Exists(rounds[patch.round])
    BY <2>1, Absent
  <2>3. rounds'[patch.round] = [rounds[patch.round] EXCEPT !.status = patch.status]
    BY <1>4, <2>1
  <2>4. rounds'[patch.round].status = patch.status
    BY <2>1, <2>3 DEF Round
  <2> QED
    BY <1>4, <2>1, <2>2, <2>4
<1>23. CASE Patched
  <2>1. /\ patch # Nothing /\ Write /\ patch' = Nothing
        /\ UNCHANGED <<cachedRounds, cachedBallots, waiting, queue>>
    BY <1>23 DEF Patched
  <2>2. Last1(q) = Last(q)
    BY <1>22, <2>1 DEF LastResult
  <2>3. Watched1(q) => Watched(q)
    BY <1>22, <2>1
  <2> HIDE DEF Last, Last1, Watched, Watched1
  <2> QED
    BY <1>2, <2>1, <2>2, <2>3
<1>24. CASE PatchNotFound
  <2>1. /\ patch # Nothing /\ ~Exists(rounds[patch.round]) /\ patch' = Nothing
        /\ UNCHANGED <<rounds, cachedRounds, cachedBallots, waiting, queue>>
    BY <1>24 DEF PatchNotFound
  <2>2. CASE q = patch.round
    BY <2>1, <2>2
  <2>3. CASE q # patch.round
    <3>1. Last1(q) = Last(q)
      BY <2>1, <2>3 DEF LastResult
    <3> QED
      BY <1>2, <2>1, <3>1
  <2> QED
    BY <2>2, <2>3
<1>25. CASE PatchFails
  <2>1. /\ patch # Nothing /\ patch' = Nothing /\ waiting' = waiting \cup {patch.round}
        /\ UNCHANGED <<cachedRounds, cachedBallots, queue>>
        /\ Write \/ rounds' = rounds
    BY <1>25 DEF PatchFails
  <2>2. CASE q = patch.round
    BY <2>1, <2>2
  <2>3. CASE q # patch.round
    <3>1. rounds'[q] = rounds[q]
      BY <1>22, <2>1, <2>3
    <3>2. Last1(q) = Last(q)
      BY <2>1, <2>3, <3>1 DEF LastResult
    <3>3. Watched1(q) => Watched(q)
      BY <2>1, <3>1
    <3> HIDE DEF Last, Last1, Watched, Watched1
    <3> QED
      BY <1>2, <2>1, <3>2, <3>3
  <2> QED
    BY <2>2, <2>3
<1>26. CASE Restart
  BY <1>26 DEF Restart
<1>27. CASE UNCHANGED vars
  BY <1>3, <1>27 DEF vars
<1> HIDE DEF Fine1
<1> QED
  BY <1>6, <1>7, <1>8, <1>10, <1>11, <1>13, <1>14, <1>16, <1>17, <1>18, <1>19, <1>20,
     <1>21, <1>23, <1>24, <1>25, <1>26, <1>27 DEF Next, Operator, Voters, Worker

-----------------------------------------------------------------------------
(* Whose ballots a result counts.                                          *)

(* A round that is there after a step carries the result it had, or none   *)
(* and so no ballot's, or that of the patch.                               *)
LEMMA ResultMoves ==
  ASSUME TypeOK, [Next]_vars, NEW q \in Rounds, Exists(rounds'[q])
  PROVE  \/ /\ Exists(rounds[q]) /\ tallied'[q] = tallied[q]
            /\ rounds'[q].uid = rounds[q].uid
         \/ tallied'[q] = {}
         \/ /\ Exists(rounds[q]) /\ rounds'[q].uid = rounds[q].uid
            /\ patch # Nothing /\ patch.round = q /\ tallied'[q] = patch.pins
<1> DEFINE Kept == /\ Exists(rounds[q]) /\ tallied'[q] = tallied[q]
                   /\ rounds'[q].uid = rounds[q].uid
           None == tallied'[q] = {}
           Patches == /\ Exists(rounds[q]) /\ rounds'[q].uid = rounds[q].uid
                      /\ patch # Nothing /\ patch.round = q /\ tallied'[q] = patch.pins
<1>0. /\ rounds \in [Rounds -> Maybe(Round)]
      /\ tallied \in [Rounds -> SUBSET (1..MaxUIDs)]
  BY DEF TypeOK
<1> USE DEF store, watches, controller, bounds
<1>1. ASSUME NEW r \in Rounds, NEW state \in States, NEW questions \in Questions,
             CreateRound(r, state, questions)
      PROVE  Kept \/ None
  <2> DEFINE object == [uid |-> uids + 1, generation |-> 1, state |-> state,
                        questions |-> questions, status |-> Nothing]
  <2>1. /\ rounds' = [rounds EXCEPT ![r] = object]
        /\ tallied' = [tallied EXCEPT ![r] = {}]
    BY <1>1 DEF CreateRound, PutRound
  <2> HIDE DEF object
  <2> QED
    BY <1>0, <2>1
<1>2. ASSUME NEW r \in Rounds, NEW state \in States, NEW questions \in Questions,
             EditRound(r, state, questions)
      PROVE  Kept
  <2> DEFINE g == rounds[r].generation + 1
             object == [rounds[r] EXCEPT !.state = state, !.questions = questions,
                                         !.generation = g]
  <2>1. /\ rounds[r] \in Round /\ Exists(rounds[r]) /\ tallied' = tallied
    BY <1>0, <1>2 DEF EditRound, Maybe, Exists
  <2>2. rounds' = [rounds EXCEPT ![r] = object]
    BY <1>2, Zenon DEF EditRound, PutRound
  <2> HIDE DEF g
  <2>3. object.uid = rounds[r].uid
    BY <2>1 DEF Round
  <2> HIDE DEF object
  <2> QED
    BY <1>0, <2>1, <2>2, <2>3
<1>3. ASSUME NEW r \in Rounds, DeleteRound(r) PROVE Kept
  BY <1>0, <1>3 DEF DeleteRound, PutRound, Exists
<1>4. ASSUME UNCHANGED <<rounds, tallied>> PROVE Kept
  BY <1>4
<1>5. ASSUME NEW r \in Rounds, Due(r) \/ ReconcileQuietly(r) \/ Reconcile(r)
      PROVE  UNCHANGED <<rounds, tallied>>
  BY <1>5 DEF Due, ReconcileQuietly, Reconcile
<1>6. ASSUME NEW b \in Ballots, NEW r \in Rounds, NEW answers \in Answers,
             Vote(b, r, answers) \/ Apply(b, r, answers)
      PROVE  UNCHANGED <<rounds, tallied>>
  BY <1>6 DEF Vote, Apply, PutBallot
<1>7. ASSUME NEW b \in Ballots, DeleteBallot(b) PROVE UNCHANGED <<rounds, tallied>>
  BY <1>7 DEF DeleteBallot, PutBallot
<1>8. ASSUME DeliverBallot \/ DeliverRound \/ RelistRounds \/ RelistBallots \/ Resync
      PROVE  UNCHANGED <<rounds, tallied>>
  BY <1>8 DEF DeliverBallot, DeliverRound, RelistRounds, RelistBallots, Resync
<1>9. ASSUME PatchNotFound \/ Restart \/ Tick PROVE UNCHANGED <<rounds, tallied>>
  BY <1>9 DEF PatchNotFound, Restart, Tick
<1>10. ASSUME UNCHANGED vars PROVE UNCHANGED <<rounds, tallied>>
  BY <1>10 DEF vars
<1>11. ASSUME patch # Nothing, Write PROVE Kept \/ Patches
  <2> DEFINE r == patch.round
             object == [rounds[r] EXCEPT !.status = patch.status]
  <2>1. /\ r \in Rounds /\ rounds[r] \in Round /\ Exists(rounds[r])
        /\ rounds' = [rounds EXCEPT ![r] = object]
        /\ tallied' = [tallied EXCEPT ![r] = patch.pins]
    BY <1>11, WriteType DEF Write
  <2>2. object.uid = rounds[r].uid
    BY <2>1 DEF Round
  <2> HIDE DEF object
  <2> QED
    BY <1>0, <1>11, <2>1, <2>2
<1>12. ASSUME Patched \/ PatchFails
       PROVE  patch # Nothing /\ (Write \/ UNCHANGED <<rounds, tallied>>)
  BY <1>12 DEF Patched, PatchFails
<1> HIDE DEF Kept, None, Patches
<1>13. Kept \/ None \/ Patches
  BY <1>1, <1>2, <1>3, <1>4, <1>5, <1>6, <1>7, <1>8, <1>9, <1>10, <1>11, <1>12
  DEF Next, Operator, Voters, Worker
<1> QED
  BY <1>13 DEF Kept, None, Patches

LEMMA NextOwned ==
  ASSUME TypeOK, Owned, [Next]_vars, NamesAreFresh
  PROVE  Owned'
<1> SUFFICES ASSUME NEW q \in Rounds, Exists(rounds'[q])
             PROVE  /\ \A x \in Known(q)' : x.uid = rounds'[q].uid
                    /\ patch' # Nothing /\ patch'.round = q =>
                         patch'.pins \subseteq {rounds'[q].uid}
                    /\ tallied'[q] \subseteq {rounds'[q].uid}
  BY DEF Owned
<1>0. /\ rounds \in [Rounds -> Maybe(Round)]
      /\ Exists(rounds[q]) =>
           /\ \A x \in Known(q) : x.uid = rounds[q].uid
           /\ patch # Nothing /\ patch.round = q =>
                patch.pins \subseteq {rounds[q].uid}
           /\ tallied[q] \subseteq {rounds[q].uid}
  BY DEF Owned, TypeOK
<1>1. ~Exists(rounds[q]) => Forgotten(q)
  BY DEF NamesAreFresh
(* The round is the one it was, or a new one of a name that was forgotten. *)
<1>2. /\ Known(q)' \subseteq Known(q) \cup {rounds'[q]}
      /\ Exists(rounds[q]) => rounds'[q].uid = rounds[q].uid
  <2>1. CASE rounds' = rounds /\ Known(q)' \subseteq Known(q)
    BY <2>1
  <2>2. ASSUME NEW r \in Rounds, NEW object \in Maybe(Round), Change(r, object),
               rounds' = [rounds EXCEPT ![r] = object],
               Known(r)' \subseteq Known(r) \cup {object},
               q # r => Known(q)' \subseteq Known(q)
        PROVE  <1>2!1 /\ <1>2!2
    <3>1. CASE q # r
      BY <1>0, <2>2, <3>1
    <3>2. CASE q = r
      <4>1. rounds'[q] = object
        BY <1>0, <2>2, <3>2
      <4>2. Exists(rounds[q]) => object.uid = rounds[q].uid
        BY <2>2, <3>2, <4>1 DEF Change, SameVersion, Exists
      <4> QED
        BY <2>2, <3>2, <4>1, <4>2
    <3> QED
      BY <3>1, <3>2
  <2> QED
    BY <2>1, <2>2, NextKnown
<1>3. \A x \in Known(q)' : x.uid = rounds'[q].uid
  BY <1>0, <1>1, <1>2 DEF Forgotten
<1>4. ASSUME patch' # Nothing, patch'.round = q
      PROVE  patch'.pins \subseteq {rounds'[q].uid}
  <2>1. CASE patch' \in {patch, Nothing}
    BY <1>0, <1>1, <1>2, <1>4, <2>1 DEF Forgotten
  <2>2. ASSUME NEW r \in Rounds, Reconcile(r)
        PROVE  patch'.pins \subseteq {rounds'[q].uid}
    <3>1. /\ r = q /\ patch'.pins \subseteq {cachedRounds[q].uid} /\ rounds' = rounds
          /\ Exists(cachedRounds[q])
      BY <1>4, <2>2, PinsOfRound DEF Reconcile, store
    <3>2. cachedRounds[q] \in Known(q)
      BY <3>1, KnownType
    <3> QED
      BY <1>0, <3>1, <3>2
  <2> QED
    BY <2>1, <2>2, PatchMoves
<1>5. tallied'[q] \subseteq {rounds'[q].uid}
  BY <1>0, ResultMoves
<1> QED
  BY <1>3, <1>4, <1>5

-----------------------------------------------------------------------------
(* The theorems.                                                           *)

LEMMA InitHolds ==
  ASSUME Init, NEW home
  PROVE  /\ TypeOK /\ FewBallots /\ Followed /\ Versioned /\ ResultsCurrent
         /\ Computed /\ AllNamed(home)
<1> USE QuizAssumption DEF Init
<1>1. /\ roundEvents = <<>> /\ ballotEvents = <<>>
      /\ roundEvents \in Seq([name : Rounds, object : Maybe(Round)])
      /\ ballotEvents \in Seq([name : Ballots, object : Maybe(Ballot)])
  OBVIOUS
<1>2. TypeOK
  BY <1>1 DEF TypeOK, Maybe
<1>3. /\ \A r \in Rounds : ~Exists(rounds[r]) /\ ~Exists(cachedRounds[r])
      /\ \A b \in Ballots : ~Exists(ballots[b]) /\ ~Exists(cachedBallots[b])
  BY DEF Exists
<1>4. (\A r : Said(roundEvents, r) = {}) /\ (\A b : Said(ballotEvents, b) = {})
  BY <1>1 DEF Said
<1>5. FewBallots
  <2>1. Filed(ballots) = {} /\ Filed(cachedBallots) = {}
    BY <1>3 DEF Filed
  <2> QED
    BY <2>1, FS_EmptySet DEF FewBallots
<1>6. Followed
  BY FollowsRelist DEF Followed
<1>7. \A r \in Rounds : Known(r) = {}
  BY <1>3, <1>4 DEF Known
<1>8. Versioned
  BY <1>3, <1>7 DEF Versioned
<1>9. ResultsCurrent /\ Computed
  BY <1>3 DEF ResultsCurrent, Computed
<1>10. AllNamed(home)
  BY <1>3, <1>4 DEF AllNamed
<1> QED
  BY <1>2, <1>5, <1>6, <1>8, <1>9, <1>10

LEMMA StandingStill == ASSUME UNCHANGED vars PROVE NamesAreFresh
  BY DEF NamesAreFresh, vars, store

LEMMA UidsMove == ASSUME [Next]_vars PROVE uids' \in {uids, uids + 1}
<1> USE DEF bounds
<1>1. ASSUME NEW r \in Rounds, NEW state \in States, NEW questions \in Questions,
             CreateRound(r, state, questions) \/ EditRound(r, state, questions)
      PROVE  uids' \in {uids, uids + 1}
  BY <1>1 DEF CreateRound, EditRound
<1>2. ASSUME NEW r \in Rounds,
             DeleteRound(r) \/ Due(r) \/ ReconcileQuietly(r) \/ Reconcile(r)
      PROVE  uids' = uids
  BY <1>2 DEF DeleteRound, Due, ReconcileQuietly, Reconcile
<1>3. ASSUME NEW b \in Ballots,
             \/ \E r \in Rounds, answers \in Answers : Vote(b, r, answers) \/ Apply(b, r, answers)
             \/ DeleteBallot(b)
      PROVE  uids' = uids
  BY <1>3 DEF Vote, Apply, DeleteBallot
<1>4. ASSUME DeliverBallot \/ DeliverRound \/ RelistRounds \/ RelistBallots \/ Resync
      PROVE  uids' = uids
  BY <1>4 DEF DeliverBallot, DeliverRound, RelistRounds, RelistBallots, Resync
<1>5. ASSUME Patched \/ PatchNotFound \/ PatchFails \/ Restart \/ Tick
      PROVE  uids' = uids
  BY <1>5 DEF Patched, PatchNotFound, PatchFails, Restart, Tick
<1>6. ASSUME UNCHANGED vars PROVE uids' = uids
  BY <1>6 DEF vars
<1> QED
  BY <1>1, <1>2, <1>3, <1>4, <1>5, <1>6 DEF Next, Operator, Voters, Worker

(* When one round is ever created, no name is used twice.                  *)
NoneYet == uids = 0 => patch = Nothing /\ \A r \in Rounds : Known(r) = {}

LEMMA InitHasNone == ASSUME Init PROVE NoneYet
<1>1. \A r \in Rounds : ~Exists(rounds[r]) /\ ~Exists(cachedRounds[r])
  BY DEF Init, Exists
<1>2. \A r : Said(roundEvents, r) = {}
  BY DEF Init, Said
<1> QED
  BY <1>1, <1>2 DEF NoneYet, Known, Init

LEMMA OneRound ==
  ASSUME MaxUIDs = 1, TypeOK, NoneYet, [Next]_vars
  PROVE  NoneYet' /\ NamesAreFresh
<1> USE DEF store, watches, controller, bounds
<1>0. uids \in Nat /\ rounds \in [Rounds -> Maybe(Round)]
  BY QuizAssumption DEF TypeOK
<1>1. \/ /\ rounds' = rounds
         /\ \A q \in Rounds : Known(q)' \subseteq Known(q)
      \/ \E r \in Rounds, object \in Maybe(Round) :
           /\ Change(r, object) /\ rounds' = [rounds EXCEPT ![r] = object]
           /\ Known(r)' \subseteq Known(r) \cup {object}
           /\ \A q \in Rounds : q # r => Known(q)' \subseteq Known(q)
  BY NextKnown
<1>2. NamesAreFresh
  <2>1. ASSUME NEW q \in Rounds, ~Exists(rounds[q]), Exists(rounds'[q])
        PROVE  uids = 0
    <3>1. PICK r \in Rounds, object \in Maybe(Round) :
            Change(r, object) /\ rounds' = [rounds EXCEPT ![r] = object]
      BY <1>1, <2>1
    <3>2. q = r /\ Exists(object)
      BY <1>0, <2>1, <3>1
    <3>3. rounds[r] \notin Round
      BY <2>1, <3>2, Absent
    <3>4. uids < MaxUIDs
      BY <2>1, <3>1, <3>2, <3>3 DEF Change, Exists
    <3> QED
      BY <1>0, <3>4
  <2> QED
    BY <2>1 DEF NamesAreFresh, Forgotten, NoneYet
<1>3. ASSUME uids' = 0 PROVE patch' = Nothing /\ \A r \in Rounds : Known(r)' = {}
  <2>1. uids' # uids + 1 /\ (uids' = uids \/ uids' = uids + 1)
    <3>1. uids' = uids \/ uids' = uids + 1
      BY UidsMove
    <3> QED
      BY <1>0, <1>3, <3>1
  <2>2. patch = Nothing /\ \A r \in Rounds : Known(r) = {}
    BY <1>0, <1>3, <2>1 DEF NoneYet
  <2>3. ASSUME NEW r \in Rounds PROVE rounds[r] \notin Round /\ ~Exists(cachedRounds[r])
    BY <2>2, KnownType, Absent
  <2>4. patch' = Nothing
    <3>1. ASSUME NEW r \in Rounds, Reconcile(r) PROVE FALSE
      BY <2>3, <3>1 DEF Reconcile
    <3> QED
      BY <2>2, <3>1, PatchMoves
  <2>5. ASSUME NEW q \in Rounds PROVE Known(q)' = {}
    <3>1. ASSUME NEW r \in Rounds, NEW object, Change(r, object) PROVE object = Nothing
      BY <2>1, <2>2, <2>3, <3>1 DEF Change
    <3>2. Known(q)' \subseteq {Nothing}
      BY <1>1, <2>2, <3>1
    <3>3. Nothing \notin Known(q)'
      BY DEF Known, Exists
    <3> QED
      BY <3>2, <3>3
  <2> QED
    BY <2>4, <2>5
<1> QED
  BY <1>2, <1>3 DEF NoneYet

(* Every state has the types it should have.                               *)
THEOREM TallyTypeCorrect == Spec => []TypeOK
<1>1. Init => TypeOK /\ FewBallots
  BY InitHolds
<1>2. TypeOK /\ FewBallots /\ [Next]_vars => TypeOK' /\ FewBallots'
  BY NextType, NextFewBallots
<1> QED
  BY <1>1, <1>2, PTL DEF Spec

LEMMA CurrentIsEnough == ResultsCurrent => ObservedMeansCurrent
  BY DEF ResultsCurrent, Current, ObservedMeansCurrent

(* While no name is used again before its last round is forgotten, a       *)
(* status that says it observed today's generation was computed against    *)
(* today's questions, whichever cache, retry or restart it came by         *)
(* (quiz_tally.go, ObservedGeneration).                                    *)
THEOREM ObservedIsCurrent ==
  Spec /\ [][NamesAreFresh]_vars => []ObservedMeansCurrent
<1> DEFINE Inv == TypeOK /\ FewBallots /\ Versioned /\ ResultsCurrent
<1>1. Init => Inv
  BY InitHolds
<1>2. Inv /\ [Next]_vars /\ [NamesAreFresh]_vars => Inv'
  BY NextType, NextFewBallots, NextVersioned, NextCurrent, StandingStill
<1>3. Inv => ObservedMeansCurrent
  BY CurrentIsEnough
<1> QED
  BY <1>1, <1>2, <1>3, PTL DEF Spec

(* The same with nothing assumed of the names, when one round is created:  *)
(* the bound of the runs.                                                  *)
THEOREM ObservedIsCurrentOnce ==
  ASSUME MaxUIDs = 1 PROVE Spec => []ObservedMeansCurrent
<1> DEFINE Inv == TypeOK /\ FewBallots /\ NoneYet
<1>1. Init => Inv
  BY InitHolds, InitHasNone
<1>2. Inv /\ [Next]_vars => Inv' /\ NamesAreFresh
  BY NextType, NextFewBallots, OneRound
<1>3. Spec => [][NamesAreFresh]_vars
  BY <1>1, <1>2, PTL DEF Spec
<1> QED
  BY <1>3, ObservedIsCurrent, PTL

(* While no name is used again before its last round is forgotten, a       *)
(* ballot for a deleted round never counts for its same-named successor    *)
(* (quiz_tally.go, ballotPinned).  Without that it may: see QuizRecreated. *)
THEOREM OwnBallotsCounted ==
  Spec /\ [][NamesAreFresh]_vars => []OwnBallotsOnly
<1> DEFINE Inv == TypeOK /\ FewBallots /\ Owned
<1>1. Init => Inv
  BY InitHolds DEF Init, Exists, Owned
<1>2. Inv /\ [Next]_vars /\ [NamesAreFresh]_vars => Inv'
  BY NextType, NextFewBallots, NextOwned, StandingStill
<1>3. Inv => OwnBallotsOnly
  BY DEF Owned, OwnBallotsOnly
<1> QED
  BY <1>1, <1>2, <1>3, PTL DEF Spec

(* At rest the caches hold what the API server holds, and the last result  *)
(* is on the round.                                                        *)
LEMMA AtRest ==
  ASSUME TypeOK, Followed, Computed
  PROVE  WatchSuffices
<1> SUFFICES ASSUME NEW r \in Rounds,
                    Exists(rounds[r]), rounds[r].state = "live",
                    roundEvents = <<>>, ballotEvents = <<>>,
                    r \notin waiting \cup queue, patch = Nothing
             PROVE  Right(r)
  BY DEF WatchSuffices
<1>1. cachedRounds[r] = rounds[r] /\ \A b \in Ballots : cachedBallots[b] = ballots[b]
  BY FollowsAtRest DEF Followed
<1>2. Agrees(rounds[r].status, r, rounds[r], cachedBallots)
  BY <1>1 DEF Computed, LastResult
<1>3. /\ Cast(r, cachedBallots) = Cast(r, ballots)
      /\ Counts(r, rounds[r], cachedBallots) = Counts(r, rounds[r], ballots)
  BY <1>1, SameCount
<1> QED
  BY <1>2, <1>3 DEF Agrees, Right

(* While names are fresh and a ballot stays with its round, the watches    *)
(* alone make a live round right: once they have delivered and the worker  *)
(* has nothing to do, with no help from the resync, what the round shows   *)
(* is the count of the ballots there are, against the questions of now     *)
(* (quiz_reconciler.go, watch and reconcile).                              *)
THEOREM WatchAloneSuffices ==
  ASSUME NEW home
  PROVE  Spec /\ [][NamesAreFresh]_vars /\ []BallotsNamed(home) => []WatchSuffices
<1> DEFINE Inv == /\ TypeOK /\ FewBallots /\ Followed /\ Versioned /\ AllNamed(home)
                  /\ Computed
<1>1. Init => Inv
  BY InitHolds
<1>2. Inv /\ [Next]_vars /\ [NamesAreFresh]_vars /\ BallotsNamed(home)' => Inv'
  BY NextType, NextFewBallots, NextFollowed, NextVersioned, NextNamed, NextComputed,
     StandingStill
<1>3. Inv => WatchSuffices
  BY AtRest
<1> QED
  BY <1>1, <1>2, <1>3, PTL DEF Spec

(* With one round nothing has to be assumed.                               *)
THEOREM WatchAloneSufficesOnce ==
  ASSUME MaxUIDs = 1, NEW only, Rounds = {only}
  PROVE  Spec => []WatchSuffices
<1> DEFINE Inv == TypeOK /\ FewBallots /\ NoneYet
           home == [b \in Ballots |-> only]
<1>1. Init => Inv
  BY InitHolds, InitHasNone
<1>2. Inv /\ [Next]_vars => Inv' /\ NamesAreFresh
  BY NextType, NextFewBallots, OneRound
<1>3. Inv => BallotsNamed(home)
  BY DEF TypeOK, Maybe, Ballot, BallotsNamed, Exists
<1> HIDE DEF home
<1>4. Spec => [][NamesAreFresh]_vars /\ []BallotsNamed(home)
  BY <1>1, <1>2, <1>3, PTL DEF Spec
<1> QED
  BY <1>4, WatchAloneSuffices, PTL

=============================================================================
