------------------------------- MODULE Ballot -------------------------------
(***************************************************************************)
(* One participant answering rounds on one phone (AnswerScreen.vue): the   *)
(* round is read when the page comes up or its link changes, answers are   *)
(* kept as a draft in the browser (stores/draftSubmission.ts), and the     *)
(* ballot is built from both and created (quiz.ts, ballot.ts), while the   *)
(* operator opens, closes, edits and makes rounds again.                   *)
(*                                                                         *)
(* The draft belongs to the tab and not to the page: whatever load or      *)
(* submit a page left behind still works on it.  Each round asks one       *)
(* required question, under an identifier another round may use as well.   *)
(* Who may vote is left out (RoomGrants), and the sentences of a refusal.  *)
(***************************************************************************)
EXTENDS Naturals

CONSTANTS
  Rounds,      \* the names of rounds
  Nobody,      \* no round, no draft, no answer, no ballot
  MaxTaps      \* bound: what the person and the operator do, and failures

Uids == Rounds \X {1, 2}    \* bound: a round is made again once

VARIABLES
  rounds,      \* the rounds: uid, the questions asked, the digest told, state
  ballots,     \* the ballots, by the round's name in theirs
  followed,    \* the states that came on the stream, Nobody before
  page,        \* the page: the round in its link, or Nobody for another page
  round,       \* round: as it was loaded
  voted,       \* voted
  draft,       \* the draft in memory: the round it is for, and the answer,
               \* which is remembered as the round on screen when it was given
  stored,      \* the drafts in localStorage
  loads,       \* getQuizSession in flight
  presses,     \* submit in flight
  taps         \* how much of MaxTaps is used

apiVars == <<rounds, ballots>>
viewVars == <<page, round, voted>>
ballotVars == <<apiVars, followed, viewVars, draft, stored, loads, presses, taps>>

Tap == taps < MaxTaps /\ taps' = taps + 1
States == {"live", "closed"}

-----------------------------------------------------------------------------
(* The operator, the tally controller and the stream.                      *)

RoundChanges(r) ==
  /\ Tap
  /\ \/ \E state \in States \ {rounds[r].state} : rounds' = [rounds EXCEPT ![r].state = state]
     \/ rounds[r].asked = 1 /\ rounds' = [rounds EXCEPT ![r].asked = 2]
     \/ /\ rounds[r].uid = <<r, 1>>
        /\ rounds' = [rounds EXCEPT ![r] = [uid |-> <<r, 2>>, asked |-> 1, told |-> 0, state |-> "live"]]
  /\ UNCHANGED <<ballots, followed, viewVars, draft, stored, loads, presses>>

(* The digest of the questions comes with the first tally after them.      *)
DigestTold(r) ==
  /\ rounds[r].told # rounds[r].asked
  /\ rounds' = [rounds EXCEPT ![r].told = rounds[r].asked]
  /\ UNCHANGED <<ballots, followed, viewVars, draft, stored, loads, presses, taps>>

Followed(r) ==
  /\ followed[r] # rounds[r].state
  /\ followed' = [followed EXCEPT ![r] = rounds[r].state]
  /\ UNCHANGED <<apiVars, viewVars, draft, stored, loads, presses, taps>>

(* Only the state follows the stream; the questions do not.                *)
State == IF followed[page] = Nobody THEN round.state ELSE followed[page]

-----------------------------------------------------------------------------
(* Pages.                                                                  *)

(* Another page: this one's refs are gone, and what it asked is not.       *)
Gone(set) == {[x EXCEPT !.here = FALSE] : x \in set}

Load(r) == [name |-> r, at |-> "sent", got |-> Nobody, here |-> TRUE]

(* From one round straight to another the page stays, and so do its loads. *)
Open(r) ==
  /\ Tap /\ page # r /\ page' = r
  /\ round' = Nobody /\ voted' = FALSE
  /\ loads' = (IF page = Nobody THEN Gone(loads) ELSE loads) \cup {Load(r)}
  /\ presses' = IF page = Nobody THEN Gone(presses) ELSE presses
  /\ UNCHANGED <<apiVars, followed, draft, stored>>

Away ==
  /\ page' = Nobody /\ round' = Nobody /\ voted' = FALSE /\ loads' = Gone(loads)

Leave ==
  /\ Tap /\ page # Nobody /\ Away /\ presses' = Gone(presses)
  /\ UNCHANGED <<apiVars, followed, draft, stored>>

LoadServed(l) ==
  /\ l.at = "sent"
  /\ loads' = (loads \ {l}) \cup {[l EXCEPT !.at = "served", !.got = rounds[l.name]]}
  /\ UNCHANGED <<apiVars, followed, viewVars, draft, stored, presses, taps>>

(* draftSubmission load: the draft of this round of this login.            *)
LoadDraft(uid) == draft' = [for |-> uid, answer |-> stored[uid]]

(* The ballot's name was looked for in between.  A load that is answered   *)
(* is shown and loads its draft, whichever load that is.                   *)
LoadAnswered(l) ==
  /\ l.at = "served" /\ loads' = loads \ {l}
  /\ LoadDraft(l.got.uid)
  /\ IF l.here THEN round' = l.got /\ voted' = (ballots[l.name] # Nobody)
     ELSE UNCHANGED <<round, voted>>
  /\ UNCHANGED <<apiVars, followed, page, stored, presses, taps>>

LoadFails(l) ==
  /\ Tap /\ loads' = loads \ {l}
  /\ UNCHANGED <<apiVars, followed, viewVars, draft, stored, presses>>

-----------------------------------------------------------------------------
(* Answering.                                                              *)

(* setAnswer, and an answer taken back.                                    *)
SetAnswer(answer) ==
  /\ Tap /\ round # Nobody /\ ~voted /\ draft.answer # answer
  /\ draft' = [draft EXCEPT !.answer = answer]
  /\ stored' = [stored EXCEPT ![draft.for] = answer]
  /\ UNCHANGED <<apiVars, followed, viewVars, loads, presses>>

Answers == SetAnswer(round.uid) \/ SetAnswer(Nobody)

-----------------------------------------------------------------------------
(* submit.                                                                 *)

Busy == \E s \in presses : s.here

(* The answers are settled, and found complete, before the first wait.     *)
Submit ==
  /\ Tap /\ ~Busy /\ round # Nobody /\ ~voted /\ State = "live" /\ draft.answer # Nobody
  /\ presses' = presses \cup
       {[at |-> IF round.told = 0 THEN "digest" ELSE "create",
         round |-> round, answer |-> draft.answer, name |-> page, here |-> TRUE]}
  /\ UNCHANGED <<apiVars, followed, viewVars, draft, stored, loads>>

To(s, next) == presses' = (presses \ {s}) \cup {next}

(* withDigest: another look at a round that had no digest.  It is used     *)
(* when it is the same round asking the same questions.                    *)
DigestLooked(s) ==
  /\ s.at = "digest"
  /\ LET fresh == rounds[s.round.uid[1]]
     IN /\ fresh.told # 0
        /\ To(s, [s EXCEPT !.at = "create",
                           !.round.told = IF fresh.uid = s.round.uid /\ fresh.asked = s.round.asked
                                          THEN fresh.told ELSE 0])
  /\ UNCHANGED <<apiVars, followed, viewVars, draft, stored, loads, taps>>

(* The API server: one ballot per name, and the pins admission holds.      *)
BallotCreated(s) ==
  /\ s.at = "create"
  /\ LET name == s.round.uid[1]
         now == rounds[name]
     IN \/ /\ ballots[name] # Nobody /\ To(s, [s EXCEPT !.at = "taken"])
           /\ UNCHANGED ballots
        \/ /\ ballots[name] = Nobody
           /\ now.uid = s.round.uid /\ now.state = "live"
           /\ s.round.told # 0 /\ s.round.told = now.told
           /\ ballots' = [ballots EXCEPT ![name] = [uid |-> s.round.uid, answer |-> s.answer]]
           /\ To(s, [s EXCEPT !.at = "landed"])
        \/ /\ ballots[name] = Nobody
           /\ now.uid # s.round.uid \/ now.state # "live" \/ s.round.told # now.told \/ s.round.told = 0
           /\ To(s, [s EXCEPT !.at = "refused"]) /\ UNCHANGED ballots
  /\ UNCHANGED <<rounds, followed, viewVars, draft, stored, loads, taps>>

(* draftSubmission clear, then the results of the round in the link.       *)
Submitted(s) ==
  /\ s.at = "landed"
  /\ draft' = [draft EXCEPT !.answer = Nobody]
  /\ stored' = IF draft.for = Nobody THEN stored ELSE [stored EXCEPT ![draft.for] = Nobody]
  /\ Away /\ presses' = Gone(presses \ {s})
  /\ UNCHANGED <<apiVars, followed, taps>>

AlreadyVoted(s) ==
  /\ s.at = "taken"
  /\ Away /\ presses' = Gone(presses \ {s})
  /\ UNCHANGED <<apiVars, followed, draft, stored, taps>>

(* Refused, or no answer, or no digest in eight seconds.                   *)
SubmitFails(s) ==
  /\ IF s.at = "refused" THEN UNCHANGED taps ELSE Tap
  /\ presses' = presses \ {s}
  /\ UNCHANGED <<apiVars, followed, viewVars, draft, stored, loads>>

-----------------------------------------------------------------------------
BallotInit ==
  /\ rounds = [r \in Rounds |-> [uid |-> <<r, 1>>, asked |-> 1, told |-> 0, state |-> "live"]]
  /\ ballots = [r \in Rounds |-> Nobody] /\ followed = [r \in Rounds |-> Nobody]
  /\ page = Nobody /\ round = Nobody /\ voted = FALSE
  /\ draft = [for |-> Nobody, answer |-> Nobody] /\ stored = [u \in Uids |-> Nobody]
  /\ loads = {} /\ presses = {} /\ taps = 0

BallotNext ==
  \/ \E r \in Rounds : RoundChanges(r) \/ DigestTold(r) \/ Followed(r) \/ Open(r)
  \/ Leave \/ Answers \/ Submit
  \/ \E l \in loads : LoadServed(l) \/ LoadAnswered(l) \/ LoadFails(l)
  \/ \E s \in presses :
       DigestLooked(s) \/ BallotCreated(s) \/ Submitted(s) \/ AlreadyVoted(s) \/ SubmitFails(s)

BallotSpec == BallotInit /\ [][BallotNext]_ballotVars

(* Drafts are kept per round (docs/voting-demo.md: drafts survive reloads, *)
(* per round, in the browser): what is stored for a round was answered     *)
(* with that round on the screen.                                          *)
DraftPerRound ==
  \A uid \in Uids : stored[uid] # Nobody => stored[uid] = uid
=============================================================================
