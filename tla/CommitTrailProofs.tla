-------------------------- MODULE CommitTrailProofs --------------------------
(***************************************************************************)
(* What the lines under a Save button say is true for every number of      *)
(* presses and of broken streams: TrailIsLatest of CommitTrail is an       *)
(* invariant.  TrailIsLatest alone is not inductive: a stream that failed  *)
(* may come back and speak for its request, so Inv also says of streams,   *)
(* and of what was granted, whose press they are.                          *)
(***************************************************************************)
EXTENDS CommitTrail, FiniteSetTheorems, TLAPS

Conditions == [stalled : BOOLEAN, ready : BOOLEAN, lost : BOOLEAN, sha : BOOLEAN]
Lines == [state : {"idle", "pending", "committed", "failed"}, of : Nat \cup {NoRequest}]

(* The types, with the requests numbered as they were made.                *)
TrailTypes ==
  /\ editor \in Pages /\ presses \in Nat
  /\ \E n \in Nat : requests \in [1 .. n -> [press : Nat, conditions : Conditions]]
  /\ streams \subseteq [target : Targets, name : Nat]
  /\ trail \in [Targets -> Lines]
  /\ granted \in [Targets -> Nat \cup {NoRequest}]

(* What a press was granted is its own.                                    *)
GrantedIsNew ==
  \A t \in Targets : granted[t] # NoRequest =>
    granted[t] \in Filed /\ requests[granted[t]].press = presses

(* A stream is for the request its line is about, in the menu editor the   *)
(* last press's.                                                           *)
StreamIsLatest ==
  \A s \in streams :
    /\ s.name \in Filed /\ s.name = trail[s.target].of
    /\ editor = "menu" => requests[s.name].press = presses

(* A line is about a request, in the menu editor the last press's, and an  *)
(* outcome is that request's.                                              *)
LineIsTrue ==
  \A t \in Targets : trail[t].state # "idle" =>
    /\ trail[t].of \in Filed
    /\ editor = "menu" => requests[trail[t].of].press = presses
    /\ trail[t].state # "pending" =>
         trail[t].state = ReadCommitOutcome(requests[trail[t].of].conditions)

Inv == TrailTypes /\ GrantedIsNew /\ StreamIsLatest /\ LineIsTrue

(* An outcome belongs to a request that has ended.                         *)
LEMMA OutcomeEnds ==
  ASSUME NEW conditions \in Conditions, ReadCommitOutcome(conditions) # "pending"
  PROVE  Ended(conditions)
BY DEF ReadCommitOutcome, Ended

LEMMA InitInv == TrailInit => Inv
<1>1. SUFFICES ASSUME TrailInit PROVE Inv
  OBVIOUS
<1>2. requests \in [1 .. 0 -> [press : Nat, conditions : Conditions]]
  BY <1>1 DEF TrailInit
<1>3. TrailTypes
  BY <1>1, <1>2 DEF TrailInit, TrailTypes, NoTrail, Lines, Targets
<1>4. QED
  BY <1>1, <1>3 DEF TrailInit, Inv, GrantedIsNew, StreamIsLatest, LineIsTrue, NoTrail

(* The stream of one line closes, and the line follows another request.    *)
LEMMA FollowInv ==
  ASSUME Inv, NEW target \in Targets, NEW name \in Filed, FollowCommit(target, name),
         requests[name].press = presses,
         UNCHANGED <<editor, requests, granted, presses>>
  PROVE  Inv'
<1>0. PICK n \in Nat : requests \in [1 .. n -> [press : Nat, conditions : Conditions]]
  BY DEF Inv, TrailTypes
<1>1. name \in Nat
  BY <1>0 DEF Filed
<1>2. TrailTypes'
  <2>1. streams' \subseteq [target : Targets, name : Nat]
    BY <1>1 DEF Inv, TrailTypes, FollowCommit, Stop
  <2>2. trail' \in [Targets -> Lines]
    BY <1>1 DEF Inv, TrailTypes, FollowCommit, Lines
  <2>3. QED
    BY <2>1, <2>2 DEF Inv, TrailTypes
<1>3. GrantedIsNew'
  BY DEF Inv, GrantedIsNew, Filed
<1>4. StreamIsLatest'
  <2>1. SUFFICES ASSUME NEW s \in streams'
                 PROVE  /\ s.name \in Filed /\ s.name = trail'[s.target].of
                        /\ editor = "menu" => requests[s.name].press = presses
    BY DEF StreamIsLatest, Filed
  <2>2. CASE s = [target |-> target, name |-> name]
    BY <2>2 DEF FollowCommit, Inv, TrailTypes
  <2>3. CASE s \in streams /\ s.target # target
    BY <2>3 DEF FollowCommit, Inv, StreamIsLatest, TrailTypes
  <2>4. QED
    BY <2>1, <2>2, <2>3 DEF FollowCommit, Stop
<1>5. LineIsTrue'
  <2>1. SUFFICES ASSUME NEW t \in Targets, trail'[t].state # "idle"
                 PROVE  /\ trail'[t].of \in Filed
                        /\ editor = "menu" => requests[trail'[t].of].press = presses
                        /\ trail'[t].state # "pending" =>
                             trail'[t].state = ReadCommitOutcome(requests[trail'[t].of].conditions)
    BY DEF LineIsTrue, Filed, ReadCommitOutcome
  <2>2. CASE t = target
    BY <2>2 DEF FollowCommit, Inv, TrailTypes
  <2>3. CASE t # target
    BY <2>1, <2>3 DEF FollowCommit, Inv, TrailTypes, LineIsTrue
  <2>4. QED
    BY <2>2, <2>3
<1>6. QED
  BY <1>2, <1>3, <1>4, <1>5 DEF Inv

LEMMA NextInv == Inv /\ [TrailNext]_trailVars => Inv'
<1> SUFFICES ASSUME Inv, [TrailNext]_trailVars PROVE Inv'
  OBVIOUS
<1>0. PICK n \in Nat : requests \in [1 .. n -> [press : Nat, conditions : Conditions]]
  BY DEF Inv, TrailTypes
<1>n. Filed = 1 .. n
  BY <1>0 DEF Filed
<1>1. ASSUME NEW name \in Filed, EndCommit(name) PROVE Inv'
  <2>1. PICK end \in Conditions : requests' = [requests EXCEPT ![name].conditions = end]
    BY <1>1 DEF EndCommit, Conditions
  <2>2. /\ requests' \in [1 .. n -> [press : Nat, conditions : Conditions]]
        /\ Filed' = Filed
        /\ \A m \in Filed : requests'[m].press = requests[m].press
        /\ \A m \in Filed : m # name => requests'[m] = requests[m]
    BY <1>0, <1>n, <2>1 DEF Filed
  <2>3. UNCHANGED <<editor, streams, trail, granted, presses>>
    BY <1>1 DEF EndCommit
  <2>4. TrailTypes'
    BY <2>2, <2>3 DEF Inv, TrailTypes
  <2>5. GrantedIsNew'
    BY <2>2, <2>3 DEF Inv, GrantedIsNew
  <2>6. StreamIsLatest'
    BY <2>2, <2>3 DEF Inv, StreamIsLatest
  <2>7. LineIsTrue'
    <3>1. SUFFICES ASSUME NEW t \in Targets, trail[t].state # "idle"
                   PROVE  /\ trail[t].of \in Filed'
                          /\ editor = "menu" => requests'[trail[t].of].press = presses
                          /\ trail[t].state # "pending" =>
                               trail[t].state = ReadCommitOutcome(requests'[trail[t].of].conditions)
      BY <2>3 DEF LineIsTrue
    <3>2. ASSUME trail[t].state # "pending" PROVE trail[t].of # name
      <4>1. ReadCommitOutcome(requests[trail[t].of].conditions) # "pending" /\ trail[t].of \in Filed
        BY <3>1, <3>2 DEF Inv, LineIsTrue
      <4>2. Ended(requests[trail[t].of].conditions)
        BY <4>1, <1>0, <1>n, OutcomeEnds
      <4>3. QED
        BY <4>2, <1>1 DEF EndCommit
    <3>3. QED
      BY <3>1, <3>2, <2>2 DEF Inv, LineIsTrue
  <2>8. QED
    BY <2>4, <2>5, <2>6, <2>7 DEF Inv
<1>2. ASSUME NEW s \in streams, Streamed(s) PROVE Inv'
  <2> DEFINE outcome == ReadCommitOutcome(requests[s.name].conditions)
  <2>1. /\ trail' = [trail EXCEPT ![s.target] = [state |-> outcome, of |-> s.name]]
        /\ streams' \subseteq streams
        /\ UNCHANGED <<editor, requests, granted, presses>>
    BY <1>2 DEF Streamed
  <2>2. outcome \in {"pending", "committed", "failed"}
    BY DEF ReadCommitOutcome
  <2>3. s.target \in Targets /\ s.name \in Nat /\ s.name \in Filed /\ s.name = trail[s.target].of
    BY DEF Inv, TrailTypes, StreamIsLatest
  <2>4. trail' \in [Targets -> Lines]
    BY <2>1, <2>2, <2>3 DEF Inv, TrailTypes, Lines
  <2>5. /\ \A t \in Targets : trail'[t].of = trail[t].of
        /\ \A t \in Targets : t # s.target => trail'[t] = trail[t]
        /\ trail'[s.target].state = outcome
    BY <2>1, <2>3 DEF Inv, TrailTypes
  <2>6. TrailTypes'
    BY <2>1, <2>4 DEF Inv, TrailTypes
  <2>7. GrantedIsNew'
    BY <2>1 DEF Inv, GrantedIsNew, Filed
  <2>8. StreamIsLatest'
    BY <2>1, <2>5 DEF Inv, StreamIsLatest, Filed, TrailTypes
  <2>9. LineIsTrue'
    <3>1. SUFFICES ASSUME NEW t \in Targets, trail'[t].state # "idle"
                   PROVE  /\ trail'[t].of \in Filed
                          /\ editor = "menu" => requests[trail'[t].of].press = presses
                          /\ trail'[t].state # "pending" =>
                               trail'[t].state = ReadCommitOutcome(requests[trail'[t].of].conditions)
      BY <2>1 DEF LineIsTrue, Filed, ReadCommitOutcome
    <3>2. CASE t = s.target
      BY <3>2, <2>3, <2>5 DEF Inv, StreamIsLatest
    <3>3. CASE t # s.target
      BY <3>1, <3>3, <2>5 DEF Inv, LineIsTrue
    <3>4. QED
      BY <3>2, <3>3
  <2>10. QED
    BY <2>6, <2>7, <2>8, <2>9 DEF Inv
<1>3. ASSUME NEW s \in streams, StreamFails(s) PROVE Inv'
  <2>1. UNCHANGED <<editor, requests, streams, granted, presses>>
    BY <1>3 DEF StreamFails
  <2>2. s.target \in Targets
    BY DEF Inv, TrailTypes
  <2>3. /\ trail' \in [Targets -> Lines]
        /\ \A t \in Targets : trail'[t].of = trail[t].of
        /\ \A t \in Targets : trail'[t].state = trail[t].state \/ trail'[t].state = "idle"
    BY <1>3, <2>2 DEF StreamFails, Inv, TrailTypes, Lines
  <2>4. TrailTypes'
    BY <2>1, <2>3 DEF Inv, TrailTypes
  <2>5. GrantedIsNew'
    BY <2>1 DEF Inv, GrantedIsNew, Filed
  <2>6. StreamIsLatest'
    BY <2>1, <2>3 DEF Inv, StreamIsLatest, Filed, TrailTypes
  <2>7. LineIsTrue'
    BY <2>1, <2>3 DEF Inv, LineIsTrue, Filed, ReadCommitOutcome
  <2>8. QED
    BY <2>4, <2>5, <2>6, <2>7 DEF Inv
<1>4. ASSUME PressSave PROVE Inv'
  <2>1. /\ presses' = presses + 1 /\ granted' = [t \in Targets |-> NoRequest]
        /\ UNCHANGED <<editor, requests>>
    BY <1>4 DEF PressSave
  <2>2. GrantedIsNew'
    BY <2>1 DEF GrantedIsNew
  <2>3. CASE editor = "menu"
    <3>1. streams' = {} /\ trail' = [t \in Targets |-> NoTrail]
      BY <1>4, <2>3 DEF PressSave, Stop, Inv, TrailTypes, Targets
    <3>2. TrailTypes'
      <4>1. NoTrail \in Lines
        BY DEF NoTrail, Lines
      <4>2. trail' \in [Targets -> Lines]
        BY <3>1, <4>1
      <4>3. granted' \in [Targets -> Nat \cup {NoRequest}] /\ presses' \in Nat
        BY <2>1 DEF Inv, TrailTypes
      <4>4. QED
        BY <2>1, <3>1, <4>2, <4>3 DEF Inv, TrailTypes
    <3>3. StreamIsLatest' /\ LineIsTrue'
      BY <3>1 DEF StreamIsLatest, LineIsTrue, NoTrail
    <3>4. QED
      BY <2>2, <3>2, <3>3 DEF Inv
  <2>4. CASE editor # "menu"
    <3>1. UNCHANGED <<streams, trail>>
      BY <1>4, <2>4 DEF PressSave
    <3>2. TrailTypes'
      BY <2>1, <3>1 DEF Inv, TrailTypes
    <3>3. StreamIsLatest' /\ LineIsTrue'
      BY <2>1, <2>4, <3>1 DEF Inv, StreamIsLatest, LineIsTrue, Filed, ReadCommitOutcome
    <3>4. QED
      BY <2>2, <3>2, <3>3 DEF Inv
  <2>5. QED
    BY <2>3, <2>4
<1>5. ASSUME TrailAsked PROVE Inv'
  <2>1. UNCHANGED <<editor, streams, trail, presses>> /\ saveAt \in Targets
    BY <1>5 DEF TrailAsked
  <2>2. CASE UNCHANGED <<requests, granted>>
    BY <2>1, <2>2 DEF Inv, TrailTypes, GrantedIsNew, StreamIsLatest, LineIsTrue, Filed,
                      ReadCommitOutcome
  <2>3. CASE ~UNCHANGED <<requests, granted>>
    <3>0. Cardinality(Filed) = n
      BY <1>n, FS_Interval
    <3>1. /\ requests' = [m \in Filed \cup {n + 1} |->
                            IF m = n + 1 THEN [press |-> presses, conditions |-> Waiting]
                            ELSE requests[m]]
          /\ granted' = [granted EXCEPT ![saveAt] = n + 1]
      BY <1>5, <2>3, <3>0 DEF TrailAsked
    <3>2. /\ requests' \in [1 .. (n + 1) -> [press : Nat, conditions : Conditions]]
          /\ Filed' = 1 .. (n + 1)
          /\ requests'[n + 1].press = presses
          /\ \A m \in Filed : requests'[m] = requests[m]
      <4>1. Filed \cup {n + 1} = 1 .. (n + 1) /\ n + 1 \notin Filed
        BY <1>n
      <4>2. [press |-> presses, conditions |-> Waiting] \in [press : Nat, conditions : Conditions]
        BY DEF Waiting, Conditions, Inv, TrailTypes
      <4>3. QED
        BY <1>0, <1>n, <3>1, <4>1, <4>2 DEF Filed
    <3>3. TrailTypes'
      <4>1. granted' \in [Targets -> Nat \cup {NoRequest}]
        BY <2>1, <3>1 DEF Inv, TrailTypes
      <4>2. QED
        BY <2>1, <3>2, <4>1 DEF Inv, TrailTypes
    <3>4. GrantedIsNew'
      BY <1>n, <2>1, <3>1, <3>2 DEF Inv, GrantedIsNew, TrailTypes
    <3>5. \A m \in Filed : m \in Filed' /\ requests'[m] = requests[m]
      BY <1>n, <3>2
    <3>6. StreamIsLatest'
      BY <2>1, <3>5 DEF Inv, StreamIsLatest
    <3>7. LineIsTrue'
      BY <2>1, <3>5 DEF Inv, LineIsTrue, ReadCommitOutcome
    <3>8. QED
      BY <3>3, <3>4, <3>6, <3>7 DEF Inv
  <2>4. QED
    BY <2>2, <2>3
<1>6. ASSUME Wrote PROVE Inv'
  <2>1. UNCHANGED <<editor, requests, granted, presses>>
    BY <1>6 DEF Wrote
  <2>2. CASE granted["object"] = NoRequest
    BY <1>6, <2>1, <2>2 DEF Wrote, Inv, TrailTypes, GrantedIsNew, StreamIsLatest, LineIsTrue, Filed,
                            ReadCommitOutcome
  <2>3. CASE granted["object"] # NoRequest
    <3>1. FollowCommit("object", granted["object"])
      BY <1>6, <2>3 DEF Wrote
    <3>2. "object" \in Targets
      BY DEF Targets
    <3>3. granted["object"] \in Filed /\ requests[granted["object"]].press = presses
      BY <2>3, <3>2 DEF Inv, GrantedIsNew
    <3>4. QED
      BY <2>1, <3>1, <3>2, <3>3, FollowInv
  <2>4. QED
    BY <2>2, <2>3
<1>7. ASSUME KeysWritten PROVE Inv'
  <2>1. UNCHANGED <<editor, requests, granted, presses>>
    BY <1>7 DEF KeysWritten
  <2>2. CASE UNCHANGED <<streams, trail>>
    BY <2>1, <2>2 DEF Inv, TrailTypes, GrantedIsNew, StreamIsLatest, LineIsTrue, Filed,
                      ReadCommitOutcome
  <2>3. CASE granted["settings"] # NoRequest /\ FollowCommit("settings", granted["settings"])
    <3>1. "settings" \in Targets
      BY DEF Targets
    <3>2. granted["settings"] \in Filed /\ requests[granted["settings"]].press = presses
      BY <2>3, <3>1 DEF Inv, GrantedIsNew
    <3>3. QED
      BY <2>1, <2>3, <3>1, <3>2, FollowInv
  <2>4. QED
    BY <1>7, <2>2, <2>3 DEF KeysWritten
<1>8. ASSUME NotSaved \/ UNCHANGED trailVars PROVE Inv'
  BY <1>8 DEF NotSaved, trailVars, Inv, TrailTypes, GrantedIsNew, StreamIsLatest, LineIsTrue, Filed,
              ReadCommitOutcome
<1>9. QED
  BY <1>1, <1>2, <1>3, <1>4, <1>5, <1>6, <1>7, <1>8 DEF TrailNext

(* An outcome on the page is how the latest press's own commit ended       *)
(* (commitStatus.ts), however many presses, and however many streams fail. *)
THEOREM OutcomeIsOfTheLatest == TrailSpec => []TrailIsLatest
<1>1. Inv => TrailIsLatest
  BY DEF Inv, TrailTypes, StreamIsLatest, LineIsTrue, TrailIsLatest
<1>2. QED
  BY <1>1, InitInv, NextInv, PTL DEF TrailSpec
==============================================================================
