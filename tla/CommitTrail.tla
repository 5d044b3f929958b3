----------------------------- MODULE CommitTrail -----------------------------
(***************************************************************************)
(* The lines under a Save button that say what became of it in Git         *)
(* (commitStatus.ts, in AdminScreen.vue and DatabaseEditScreen.vue).  A    *)
(* press asks for its commit before it writes (kube.ts), the menu editor   *)
(* for two, one per repository; each that was granted is a CommitRequest,  *)
(* which ConfigButler ends in its own time, and the page follows it on a   *)
(* stream until it says how.  The next press may come before that.         *)
(***************************************************************************)
EXTENDS Naturals, FiniteSets

CONSTANTS
  NoRequest,        \* no request
  MaxPresses,  \* bound: presses of Save
  MaxErrors    \* bound: streams that fail

TrailAssumption ==
  NoRequest \notin Nat /\ MaxPresses \in Nat /\ MaxErrors \in Nat

Pages == {"menu", "database"}
Targets == {"object", "settings"}    \* gitTargetName, settingsGitTargetName

VARIABLES
  editor,     \* which page this is
  requests,   \* the CommitRequests: their conditions, and which press asked
  streams,    \* the streams that are open, and what each is for
  trail,      \* useCommitStatus, per target: state, and whose sha
  saveAt,     \* where the press is
  granted,    \* the request of each target in this press, or NoRequest
  changed,    \* menuChanged
  presses, errors  \* how much of the bounds is used

trailVars == <<editor, requests, streams, trail, saveAt, granted, changed, presses, errors>>

Filed == DOMAIN requests
Waiting == [stalled |-> FALSE, ready |-> FALSE, lost |-> FALSE, sha |-> FALSE]

-----------------------------------------------------------------------------
(* ConfigButler.  Ready with one of the reasons of MESSAGE_LOST is an end  *)
(* without this person's message.                                          *)

Ended(conditions) == conditions.stalled \/ conditions.ready

EndCommit(name) ==
  /\ ~Ended(requests[name].conditions)
  /\ \E end \in [stalled : BOOLEAN, ready : BOOLEAN, lost : BOOLEAN, sha : BOOLEAN] :
       /\ end.stalled # end.ready /\ (end.lost \/ end.sha => end.ready)
       /\ requests' = [requests EXCEPT ![name].conditions = end]
  /\ UNCHANGED <<editor, streams, trail, saveAt, granted, changed, presses, errors>>

ReadCommitOutcome(conditions) ==
  IF conditions.stalled THEN "failed"
  ELSE IF ~conditions.ready THEN "pending"
  ELSE IF conditions.lost /\ ~conditions.sha THEN "failed"
  ELSE "committed"

-----------------------------------------------------------------------------
(* useCommitStatus.                                                        *)

(* Mutant: the stream before this one stays open.                          *)
StopNone(target) == streams

Stop(target) == {s \in streams : s.target # target}

FollowCommit(target, name) ==
  /\ streams' = Stop(target) \cup {[target |-> target, name |-> name]}
  /\ trail' = [trail EXCEPT ![target] = [state |-> "pending", of |-> name]]

(* An event.  Once there is an outcome, the stream is closed.              *)
Streamed(s) ==
  LET outcome == ReadCommitOutcome(requests[s.name].conditions)
  IN /\ trail' = [trail EXCEPT ![s.target] = [state |-> outcome, of |-> s.name]]
     /\ streams' = IF outcome = "pending" THEN streams ELSE streams \ {s}
     /\ trail' # trail \/ streams' # streams
     /\ UNCHANGED <<editor, requests, saveAt, granted, changed, presses, errors>>

(* A stream that fails says nothing about the commit, so the line goes; it *)
(* may come back with the stream.                                          *)
StreamFails(s) ==
  /\ errors < MaxErrors /\ errors' = errors + 1
  /\ trail' = [trail EXCEPT ![s.target].state = IF @ = "pending" THEN "idle" ELSE @]
  /\ UNCHANGED <<editor, requests, streams, saveAt, granted, changed, presses>>

-----------------------------------------------------------------------------
(* A press of Save, as far as its commits go.                              *)

NoTrail == [state |-> "idle", of |-> NoRequest]

(* Only the menu editor clears what the last press committed.              *)
PressSave ==
  /\ saveAt = "idle" /\ presses < MaxPresses /\ presses' = presses + 1
  /\ granted' = [t \in Targets |-> NoRequest]
  /\ \/ /\ editor = "menu" /\ changed' \in BOOLEAN /\ saveAt' = "settings"
        /\ streams' = Stop("object") \cap Stop("settings")
        /\ trail' = [t \in Targets |-> NoTrail]
     \/ /\ editor = "database" /\ changed' = TRUE /\ saveAt' = "object"
        /\ UNCHANGED <<streams, trail>>
  /\ UNCHANGED <<editor, requests, errors>>

(* requestCommit: granted, or not, and the save goes on.                   *)
TrailAsked ==
  /\ saveAt \in Targets
  /\ \/ LET name == Cardinality(Filed) + 1
        IN /\ requests' = [n \in Filed \cup {name} |->
                             IF n = name THEN [press |-> presses, conditions |-> Waiting]
                             ELSE requests[n]]
           /\ granted' = [granted EXCEPT ![saveAt] = name]
     \/ UNCHANGED <<requests, granted>>
  /\ saveAt' = IF saveAt = "object" THEN "write" ELSE IF changed THEN "object" ELSE "keys"
  /\ UNCHANGED <<editor, streams, trail, changed, presses, errors>>

(* The write landed: the watch of commitRequest follows it, if there is    *)
(* one and it is another than before.                                      *)
Wrote ==
  /\ saveAt = "write"
  /\ saveAt' = IF editor = "menu" THEN "keys" ELSE "idle"
  /\ IF granted["object"] = NoRequest THEN UNCHANGED <<streams, trail>>
     ELSE FollowCommit("object", granted["object"])
  /\ UNCHANGED <<editor, requests, granted, changed, presses, errors>>

(* Not saved, before it asked or after: the press is over.                 *)
NotSaved ==
  /\ saveAt \in {"object", "write"} /\ saveAt' = "idle"
  /\ UNCHANGED <<editor, requests, streams, trail, granted, changed, presses, errors>>

(* The keys are written, some refused.  With nothing written at all there  *)
(* is nothing to follow.                                                   *)
KeysWritten ==
  /\ saveAt = "keys" /\ saveAt' = "idle"
  /\ \/ granted["settings"] # NoRequest /\ FollowCommit("settings", granted["settings"])
     \/ (granted["settings"] = NoRequest \/ ~changed) /\ UNCHANGED <<streams, trail>>
  /\ UNCHANGED <<editor, requests, granted, changed, presses, errors>>

-----------------------------------------------------------------------------
TrailInit ==
  /\ editor \in Pages
  /\ requests = [n \in {} |-> Waiting] /\ streams = {}
  /\ trail = [t \in Targets |-> NoTrail]
  /\ saveAt = "idle" /\ granted = [t \in Targets |-> NoRequest] /\ changed = FALSE
  /\ presses = 0 /\ errors = 0

TrailNext ==
  \/ \E name \in Filed : EndCommit(name)
  \/ \E s \in streams : Streamed(s) \/ StreamFails(s)
  \/ PressSave \/ TrailAsked \/ Wrote \/ NotSaved \/ KeysWritten

TrailSpec == TrailInit /\ [][TrailNext]_trailVars

(* An outcome on the page is how the last press that was granted a commit  *)
(* and saved ended, and in the menu editor of no press but the last        *)
(* (commitStatus.ts: an editor saved twice is waiting on its latest        *)
(* commit; AdminScreen.vue, saveConfig: a refused save would otherwise sit *)
(* above that old sha), whenever the ends of earlier ones arrive.          *)
TrailIsLatest ==
  \A t \in Targets : trail[t].state # "idle" =>
    LET name == trail[t].of
    IN /\ editor = "menu" => requests[name].press = presses
       /\ \A s \in streams : s.target = t => s.name = name
       /\ trail[t].state # "pending" =>
            trail[t].state = ReadCommitOutcome(requests[name].conditions)
=============================================================================
