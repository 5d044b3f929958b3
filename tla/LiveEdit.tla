------------------------------- MODULE LiveEdit -------------------------------
(***************************************************************************)
(* One page editing one object of the API while others write it: the menu  *)
(* editor (AdminScreen.vue) or the database editor (DatabaseEditScreen),   *)
(* both on liveEditableResource.ts, which follows the object over a        *)
(* stream, keeps what the person typed apart from what the server says,    *)
(* and saves with the version it was editing as the condition.             *)
(*                                                                         *)
(* A press of Save is one CommitRequest, then attempts to write until one  *)
(* lands, then, in the menu editor, the keys that were typed, each a patch *)
(* of its Secret.  Between any two of its steps the person goes on typing, *)
(* events arrive, others save, replace or remove the object, the stream    *)
(* breaks, and requests are refused or their answers lost.  The sentences  *)
(* the page says of all this (error, notice, the toast) are left out.      *)
(***************************************************************************)
EXTENDS Naturals, Sequences

CONSTANTS
  Fields,       \* the fields of the form
  Row,          \* those in one keyed list, which a patch writes whole
  Provider,     \* the provider of an integration, and
  Reference,    \* the reference to its key, which comes and goes with it
  Values,       \* what a field may hold
  Ref,          \* what the reference holds when there is one
  None,         \* a field that is absent, a key that was not typed
  Untouched,    \* a field this person has not edited
  First,        \* what the object may hold when the page opens
  Screens,      \* which editors: "menu", "database"
  Slots,        \* the keys of the menu editor
  Keys,         \* what a person may type as a key
  SaveAttempts, \* saveAttempts
  MaxRev,       \* bound: versions of the object
  MaxTurns      \* bound: edits, presses, breaks, refusals and lost answers,
                \* all together

NoKey == "no key"     \* the empty value a Secret is seeded with
Spec0 == [f \in Fields |-> None]
Specs == [Fields -> Values \cup {Ref, None}]
Uids == {0, 1, 2}     \* 0: there is no such object
Objects == [uid : Uids, rev : Nat, spec : Specs]
Object(u, r, s) == [uid |-> u, rev |-> r, spec |-> s]
NoObject == Object(0, 0, Spec0)

ASSUME EditAssumption ==
  /\ Row \subseteq Fields /\ Provider \in Fields \ Row /\ Reference \in Fields \ Row
  /\ Provider # Reference
  /\ None \notin Values \cup {Ref} /\ Untouched \notin Values \cup {Ref, None}
  /\ First \subseteq [Fields -> Values \cup {Ref, None}]
  /\ Screens \subseteq {"menu", "database"}
  /\ None \notin Keys /\ NoKey \notin Keys /\ None # NoKey
  /\ SaveAttempts \in Nat \ {0} /\ MaxRev \in Nat /\ MaxTurns \in Nat

VARIABLES
  object,     \* the object in the API
  secrets,    \* the value of each key's Secret there
  wire,       \* the versions the stream has yet to deliver
  screen,     \* which editor this page is
  stream,     \* state.status: "connecting", "live", "terminal", "exhausted"
  uid,        \* uid: the first object the page saw, 0 before that
  server,     \* store.server, NoObject when the store has no object of uid
  mine,       \* what the person made of each field, Untouched if nothing
  base,       \* what the server said of a field when they touched it
  recovery,   \* recoveryDraft: the edits, kept when the object goes
  needsRead,  \* needsRead
  timer,      \* recoveryTimer is armed
  reads,      \* the reads in flight: of the press, and of the page
  pending,    \* pendingKeys
  left,       \* the keys this press has yet to write
  sent,       \* the key being written, and its value
  at,         \* where the press of Save is
  attempt,    \* attempt
  intent,     \* what captureSave returned
  menuChanged,\* menuChanged
  turns       \* how much of MaxTurns is used

apiVars == <<object, secrets, wire>>
pageVars == <<screen, stream>>
storeVars == <<uid, server, mine, base, recovery>>
readVars == <<needsRead, timer, reads>>
keyVars == <<pending, left, sent>>
intentVars == <<attempt, intent, menuChanged>>
pressVars == <<at, intentVars>>
vars == <<apiVars, pageVars, storeVars, readVars, keyVars, pressVars, turns>>

Turn == turns < MaxTurns /\ turns' = turns + 1

-----------------------------------------------------------------------------
(* The store of krm-stream, as this code uses it.                          *)

NoEdits == [f \in Fields |-> Untouched]
Changes == {f \in Fields : mine[f] # Untouched}
Conflicts == {f \in Changes : base[f] # server.spec[f]}
Draft(f) == IF mine[f] = Untouched THEN server.spec[f] ELSE mine[f]

(* An edit that says what the server says is no edit.                      *)
Merge(edited, o) ==
  [f \in Fields |-> IF edited[f] = o.spec[f] THEN Untouched ELSE edited[f]]
Rebase(edited, old, o) ==
  [f \in Fields |-> IF edited[f] = Untouched THEN o.spec[f] ELSE old[f]]

(* The store takes a version of the object, and the page copies it out:    *)
(* refresh.  The page keeps its first uid, and once that object is gone    *)
(* keeps what was typed in recoveryDraft only.                             *)
Take(o) ==
  /\ uid' = IF uid = 0 THEN o.uid ELSE uid
  /\ \/ /\ o.uid = uid' /\ o.uid # 0
        /\ server' = o
        /\ mine' = Merge(mine, o)
        /\ base' = Rebase(mine', base, o)
        /\ recovery' = mine'
     \/ /\ o.uid # uid' \/ o.uid = 0
        /\ server' = NoObject /\ mine' = NoEdits /\ base' = Spec0
        /\ UNCHANGED recovery

Available == uid # 0 /\ server.uid = uid

(* captureSave: the fields to write, a keyed list as a whole, and the      *)
(* version they are meant for.                                             *)
Written == Changes \cup (IF Changes \cap Row # {} THEN Row ELSE {})
Intent(to, fields, values) == [to |-> to, fields |-> fields, values |-> values]
CaptureSave == Intent(server, Written, [f \in Fields |-> Draft(f)])

-----------------------------------------------------------------------------
(* The API server.                                                         *)

(* The CRD's rule: a provider and its reference together, or neither.      *)
Valid(spec) == (spec[Provider] # None) <=> (spec[Reference] # None)
Possible(spec) ==
  /\ Valid(spec) /\ spec[Reference] \in {Ref, None}
  /\ \A f \in Fields \ {Reference} : spec[f] # Ref

Publish(o) ==
  /\ object' = o
  /\ wire' = IF stream = "live" THEN Append(wire, o) ELSE wire

Elsewhere == UNCHANGED <<pageVars, storeVars, readVars, keyVars, pressVars>>

(* Somebody else saves: another page, kubectl or Flux.                     *)
OthersWrite ==
  /\ object.uid # 0 /\ object.rev < MaxRev
  /\ \E spec \in Specs \ {object.spec} :
       /\ Possible(spec)
       /\ \/ \E f \in Fields \ {Provider, Reference} :
               \A g \in Fields \ {f} : spec[g] = object.spec[g]
          \/ \A g \in Fields \ {Provider, Reference} : spec[g] = object.spec[g]
       /\ Publish(Object(object.uid, object.rev + 1, spec))
  /\ Elsewhere /\ UNCHANGED <<secrets, turns>>

OthersRemove ==
  /\ object.uid = 1 /\ object.rev < MaxRev
  /\ Publish(Object(0, object.rev, object.spec))
  /\ Elsewhere /\ UNCHANGED <<secrets, turns>>

(* The same name, another object.                                          *)
OthersRecreate ==
  /\ object.uid = 0 /\ object.rev < MaxRev
  /\ Publish(Object(2, object.rev + 1, object.spec))
  /\ Elsewhere /\ UNCHANGED <<secrets, turns>>

(* A key is taken away, or Flux seeds it again.                            *)
SeedKey(slot) ==
  /\ Turn
  /\ secrets' = [secrets EXCEPT ![slot] = IF @ = None THEN NoKey ELSE None]
  /\ Elsewhere /\ UNCHANGED <<object, wire>>

-----------------------------------------------------------------------------
(* The stream.                                                             *)

Read(state, fresh, o) == [state |-> state, fresh |-> fresh, object |-> o]
NoRead == Read("none", FALSE, NoObject)
Overtaken == [who \in {"press", "page"} |->
                Read(reads[who].state, FALSE, reads[who].object)]

Follow(status) ==
  /\ stream' = status /\ UNCHANGED screen

Deliver ==
  /\ stream = "live" /\ wire # <<>>
  /\ Take(Head(wire)) /\ wire' = Tail(wire)
  /\ reads' = Overtaken
  /\ UNCHANGED <<object, secrets, pageVars, needsRead, timer, keyVars, pressVars, turns>>

(* A snapshot: reset, the object if there is one, synced.                  *)
Connect ==
  /\ stream = "connecting" /\ Follow("live")
  /\ Take(object) /\ wire' = <<>>
  /\ reads' = Overtaken
  /\ UNCHANGED <<object, secrets, needsRead, timer, keyVars, pressVars, turns>>

(* The library connects again by itself, or gives up; or access ended.     *)
Break ==
  /\ Turn /\ stream \in {"live", "connecting"}
  /\ \E status \in {"connecting", "terminal", "exhausted"} \ {stream} : Follow(status)
  /\ wire' = <<>>
  /\ UNCHANGED <<object, secrets, storeVars, readVars, keyVars, pressVars>>

(* The button that is there when the library gave up: reconnect.           *)
Reconnect == Follow("connecting") /\ wire' = <<>> /\ UNCHANGED <<object, secrets>>

Retry ==
  /\ stream = "exhausted" /\ Reconnect
  /\ UNCHANGED <<storeVars, readVars, keyVars, pressVars, turns>>

-----------------------------------------------------------------------------
(* The person.  Nothing on the form is closed while a save runs.           *)

(* The store's new draft, and refresh.                                     *)
Become(edited, old) ==
  /\ mine' = Merge(edited, server) /\ base' = Rebase(mine', old, server)
  /\ recovery' = mine'
  /\ UNCHANGED <<uid, server>>

OnForm ==
  /\ Turn /\ Available
  /\ UNCHANGED <<apiVars, pageVars, readVars, keyVars, pressVars>>

Type(f, v) ==
  /\ f \notin {Provider, Reference} /\ v # Draft(f)
  /\ Become([mine EXCEPT ![f] = v], base)
  /\ OnForm

(* setProvider: the reference comes and goes with it.                      *)
SetProvider(v) ==
  /\ screen = "menu" /\ v # Draft(Provider)
  /\ Become([f \in Fields |-> CASE f = Provider -> v
                                [] f = Reference -> (IF v = None THEN None ELSE Ref)
                                [] OTHER -> mine[f]], base)
  /\ OnForm

(* applyServerValue, for a conflict or a plain Revert; the reference goes  *)
(* back with its provider.                                                 *)
ApplyServerValue(f) ==
  /\ f \in Changes /\ (f = Reference => f \in Conflicts)
  /\ LET back == {f} \cup (IF f = Provider THEN {Reference} ELSE {})
     IN Become([g \in Fields |-> IF g \in back THEN Untouched ELSE mine[g]], base)
  /\ OnForm

(* keepMine: takeTheirs, then the same value again.                        *)
KeepMine(f) ==
  /\ f \in Conflicts
  /\ Become(mine, [base EXCEPT ![f] = server.spec[f]])
  /\ OnForm

(* setPendingKey; discardKey when the field is emptied or reverted.        *)
SetPendingKey(slot, key) ==
  /\ Turn /\ screen = "menu" /\ Available /\ pending[slot] # key
  /\ pending' = [pending EXCEPT ![slot] = key]
  /\ UNCHANGED <<apiVars, pageVars, storeVars, readVars, left, sent, pressVars>>

-----------------------------------------------------------------------------
(* refreshFromServer: a guarded read, which the store takes only if no     *)
(* event came since it was asked for.                                      *)

(* The API answers with the object as it is then.                          *)
ReadServed(who) ==
  /\ reads[who].state = "sent"
  /\ reads' = [reads EXCEPT ![who] = Read("served", reads[who].fresh, object)]
  /\ UNCHANGED <<apiVars, pageVars, storeVars, needsRead, timer, keyVars, pressVars, turns>>

Replaced(who) == reads[who].object.uid # uid \/ ~Available

(* Mutant: the read is taken whatever came meanwhile.                      *)
AcceptedAlways(who) == ~Replaced(who)

Accepted(who) == ~Replaced(who) /\ reads[who].fresh

(* What a read that was answered does to the store.                        *)
Reconcile(who) ==
  /\ reads[who].state = "served"
  /\ reads' = [reads EXCEPT ![who] = NoRead]
  /\ \/ Accepted(who) /\ Take(reads[who].object)
     \/ ~Accepted(who) /\ UNCHANGED storeVars
  /\ needsRead' = (~Accepted(who) \/ stream # "live")

(* Without the object, the page connects again instead.                    *)
Ask(who) ==
  \/ /\ Available
     /\ needsRead' = TRUE
     /\ reads' = [reads EXCEPT ![who] = Read("sent", TRUE, NoObject)]
     /\ UNCHANGED <<apiVars, pageVars>>
  \/ /\ ~Available /\ Reconnect /\ UNCHANGED <<needsRead, reads>>

(* The button Refresh from cluster, and the read 1.5 s after a save, which *)
(* recovers an echo that never came.                                       *)
PageRead ==
  /\ reads["page"].state = "none"
  /\ \/ timer /\ timer' = FALSE /\ UNCHANGED turns
     \/ screen = "database" /\ at = "idle" /\ Turn /\ UNCHANGED timer
  /\ Ask("page")
  /\ UNCHANGED <<storeVars, keyVars, pressVars>>

PageReadAnswered ==
  /\ Reconcile("page")
  /\ UNCHANGED <<apiVars, pageVars, timer, keyVars, pressVars, turns>>

ReadFails(who) ==
  /\ Turn /\ reads[who].state # "none"
  /\ reads' = [reads EXCEPT ![who] = NoRead]
  /\ UNCHANGED <<apiVars, pageVars, storeVars, needsRead, timer, keyVars, intentVars>>

PageReadFails == ReadFails("page") /\ UNCHANGED at

-----------------------------------------------------------------------------
(* A press of Save.                                                        *)

CanSave == stream = "live" /\ Available /\ Conflicts = {}

Typed == {slot \in Slots : pending[slot] # None}

(* live.save up to its first wait: nothing when it cannot save any more or *)
(* there is nothing to send, a read when one is due, or the CommitRequest. *)
BeginSave ==
  \/ ~CanSave /\ at' = "idle" /\ UNCHANGED <<attempt, intent, readVars>>
  \/ /\ CanSave /\ needsRead
     /\ at' = "refresh" /\ timer' = FALSE
     /\ reads' = [reads EXCEPT !["press"] = Read("sent", TRUE, NoObject)]
     /\ UNCHANGED <<attempt, intent, needsRead>>
  \/ /\ CanSave /\ ~needsRead /\ timer' = FALSE
     /\ \/ Changes = {} /\ at' = "idle" /\ UNCHANGED <<attempt, intent>>
        \/ Changes # {} /\ at' = "ask" /\ intent' = CaptureSave /\ attempt' = 1
     /\ UNCHANGED <<needsRead, reads>>

(* save of the database editor, saveConfig of the menu editor: what to     *)
(* write is settled here, before the first wait.                           *)
Press ==
  /\ Turn /\ at = "idle" /\ CanSave
  /\ menuChanged' = (Changes # {})
  /\ \/ screen = "database" /\ Changes # {} /\ BeginSave /\ UNCHANGED keyVars
     \/ /\ screen = "menu" /\ (Changes \ {Reference} # {} \/ Typed # {})
        /\ at' = "settings" /\ left' = Typed
        /\ UNCHANGED <<attempt, intent, readVars, pending, sent>>
  /\ UNCHANGED <<apiVars, pageVars, storeVars>>

(* Mutant: a key stays among those to write until it is written.           *)
NextKeyAgain(slots) ==
  \/ slots = {} /\ at' = "idle" /\ left' = {} /\ UNCHANGED sent
  \/ \E slot \in slots :
       /\ at' = "key" /\ left' = slots
       /\ sent' = [slot |-> slot,
                   value |-> IF pending'[slot] = None THEN NoKey ELSE pending'[slot]]

(* The next key to write, with what the field holds by now, or the end.    *)
NextKey(slots) ==
  \/ slots = {} /\ at' = "idle" /\ left' = {} /\ UNCHANGED sent
  \/ \E slot \in slots :
       /\ at' = "key" /\ left' = slots \ {slot}
       /\ sent' = [slot |-> slot,
                   value |-> IF pending'[slot] = None THEN NoKey ELSE pending'[slot]]

(* requestSettingsCommit was answered, one way or the other.               *)
SettingsAsked ==
  /\ at = "settings"
  /\ \/ menuChanged /\ BeginSave /\ UNCHANGED keyVars
     \/ ~menuChanged /\ UNCHANGED <<pending, attempt, intent, readVars>> /\ NextKey(left)
  /\ UNCHANGED <<apiVars, pageVars, storeVars, menuChanged, turns>>

(* requestCommit was answered, and its lead is over.  A request that was   *)
(* refused does not stop the write.                                        *)
CommitAsked ==
  /\ at = "ask" /\ at' = "write"
  /\ UNCHANGED <<apiVars, pageVars, storeVars, readVars, keyVars, intentVars, turns>>

(* Mutant: the patch goes without its resourceVersion.                     *)
MatchesAny(o) == o.uid = intent.to.uid

(* conditionalPatch: the uid and the version are preconditions.            *)
Matches(o) == o.uid = intent.to.uid /\ o.rev = intent.to.rev

Patched(o) ==
  [f \in Fields |-> IF f \in intent.fields THEN intent.values[f] ELSE o.spec[f]]

WriteLands ==
  /\ at = "write" /\ object.uid # 0 /\ Matches(object) /\ Valid(Patched(object))
  /\ at' = "landed"
  /\ Publish(Object(object.uid, object.rev + 1, Patched(object)))
  /\ UNCHANGED <<secrets, pageVars, storeVars, readVars, keyVars, intentVars, turns>>

WriteStale ==
  /\ at = "write" /\ object.uid # 0 /\ ~Matches(object)
  /\ at' = "stale"
  /\ UNCHANGED <<apiVars, pageVars, storeVars, readVars, keyVars, intentVars, turns>>

(* The CRD, an admission policy or RBAC says no, or the object is gone.    *)
WriteRefused ==
  /\ at = "write"
  /\ \/ (object.uid = 0 \/ (Matches(object) /\ ~Valid(Patched(object)))) /\ UNCHANGED turns
     \/ Turn
  /\ at' = "refused"
  /\ UNCHANGED <<apiVars, pageVars, storeVars, readVars, keyVars, intentVars>>

(* Mutant: a write that landed drops the edits it carried.                 *)
AfterSaveDropped == mine' = NoEdits /\ UNCHANGED <<uid, server, base, recovery>>

(* The edits stay: they go when the echo of the write arrives.             *)
AfterSave == UNCHANGED storeVars

(* The write is answered with what it wrote: the keys are next.            *)
WriteAnswered ==
  /\ at = "landed"
  /\ timer' = TRUE /\ AfterSave
  /\ UNCHANGED pending /\ NextKey(left)
  /\ UNCHANGED <<apiVars, pageVars, needsRead, reads, intentVars, turns>>

(* Refused, or no answer: the press is over, whatever was written.         *)
WriteFailed ==
  /\ \/ at = "refused" /\ UNCHANGED turns
     \/ at \in {"write", "landed", "stale"} /\ Turn
  /\ at' = "idle"
  /\ UNCHANGED <<apiVars, pageVars, storeVars, readVars, keyVars, intentVars>>

(* 409: somebody saved first, so the page reads what they saved.           *)
StaleAnswered ==
  /\ at = "stale"
  /\ at' = (IF Available THEN "reread" ELSE "idle")
  /\ Ask("press")
  /\ UNCHANGED <<storeVars, timer, keyVars, intentVars, turns>>

(* Mutant: one attempt too many.                                           *)
GivesUpLate == attempt > SaveAttempts

GivesUp == attempt = SaveAttempts

(* The edits are sent again over what was read, unless they collide with   *)
(* it, are in it already, or the attempts are used up.                     *)
Reread ==
  /\ at = "reread" /\ Reconcile("press")
  /\ \/ /\ needsRead' \/ Conflicts' # {} \/ GivesUp \/ Changes' = {}
        /\ at' = "idle" /\ UNCHANGED intentVars
     \/ /\ ~needsRead' /\ Conflicts' = {} /\ ~GivesUp /\ Changes' # {}
        /\ at' = "write" /\ attempt' = attempt + 1 /\ intent' = CaptureSave'
        /\ UNCHANGED menuChanged
  /\ UNCHANGED <<apiVars, pageVars, timer, keyVars, turns>>

(* The read a press makes instead of a save.                               *)
Refreshed ==
  /\ at = "refresh" /\ Reconcile("press")
  /\ at' = "idle"
  /\ UNCHANGED <<apiVars, pageVars, timer, keyVars, intentVars, turns>>

PressReadFails == at \in {"refresh", "reread"} /\ ReadFails("press") /\ at' = "idle"

-----------------------------------------------------------------------------
(* setCoffeeKey: a patch of the Secret, or an apply that brings it back.   *)
(* Admission refuses a patch that changes nothing, and RBAC whoever does   *)
(* not hold the grant.                                                     *)
KeyWritten ==
  /\ at = "key" /\ secrets[sent.slot] # sent.value
  /\ secrets' = [secrets EXCEPT ![sent.slot] = sent.value]
  /\ at' = "keyset"
  /\ UNCHANGED <<object, wire, pageVars, storeVars, readVars, keyVars, intentVars, turns>>

KeyRefused ==
  /\ at = "key"
  /\ \/ secrets[sent.slot] = sent.value /\ UNCHANGED turns
     \/ Turn
  /\ at' = "keyrefused"
  /\ UNCHANGED <<apiVars, pageVars, storeVars, readVars, keyVars, intentVars>>

(* Each key is answered on its own, and the next one follows.              *)
KeyAnswered ==
  /\ \/ at = "keyset" /\ pending' = [pending EXCEPT ![sent.slot] = None] /\ UNCHANGED turns
     \/ at = "keyrefused" /\ UNCHANGED <<pending, turns>>
     \/ at \in {"key", "keyset"} /\ Turn /\ UNCHANGED pending
  /\ NextKey(left)
  /\ UNCHANGED <<apiVars, pageVars, storeVars, readVars, intentVars>>

-----------------------------------------------------------------------------
Init ==
  /\ \E spec \in First : Possible(spec) /\ object = Object(1, 1, spec)
  /\ secrets = [slot \in Slots |-> NoKey] /\ wire = <<>>
  /\ screen \in Screens /\ stream = "connecting"
  /\ uid = 0 /\ server = NoObject /\ mine = NoEdits /\ base = Spec0 /\ recovery = NoEdits
  /\ needsRead = FALSE /\ timer = FALSE /\ reads = [who \in {"press", "page"} |-> NoRead]
  /\ pending = [slot \in Slots |-> None] /\ left = {}
  /\ sent \in [slot : Slots, value : {NoKey}]
  /\ at = "idle" /\ attempt = 0 /\ intent = Intent(NoObject, {}, Spec0)
  /\ menuChanged = FALSE /\ turns = 0

Others == OthersWrite \/ OthersRemove \/ OthersRecreate \/ \E slot \in Slots : SeedKey(slot)

Types ==
  \/ \E f \in Fields, v \in Values \cup {None} : Type(f, v)
  \/ \E v \in Values \cup {None} : SetProvider(v)
  \/ \E f \in Fields : ApplyServerValue(f) \/ KeepMine(f)
  \/ \E slot \in Slots, key \in Keys \cup {None} : SetPendingKey(slot, key)

Answers ==
  \/ SettingsAsked \/ CommitAsked
  \/ WriteLands \/ WriteStale \/ WriteRefused \/ WriteAnswered \/ WriteFailed \/ StaleAnswered
  \/ Reread \/ Refreshed \/ PressReadFails \/ ReadServed("press")
  \/ KeyWritten \/ KeyRefused \/ KeyAnswered

PageReads == PageRead \/ ReadServed("page") \/ PageReadAnswered \/ PageReadFails

Next == Others \/ Deliver \/ Connect \/ Break \/ Retry \/ Types \/ Press \/ Answers \/ PageReads

Spec == Init /\ [][Next]_vars

(* A request ends, with an answer or without.                              *)
FairSpec == Spec /\ WF_vars(Answers)

-----------------------------------------------------------------------------
(* Types: among them, that no press makes more than saveAttempts attempts. *)
TypeOK ==
  /\ object \in Objects /\ server \in Objects
  /\ secrets \in [Slots -> Keys \cup {NoKey, None}]
  /\ wire \in Seq(Objects)
  /\ screen \in Screens /\ stream \in {"connecting", "live", "terminal", "exhausted"}
  /\ uid \in Uids
  /\ mine \in [Fields -> Values \cup {Ref, None, Untouched}]
  /\ recovery \in [Fields -> Values \cup {Ref, None, Untouched}]
  /\ base \in Specs
  /\ needsRead \in BOOLEAN /\ timer \in BOOLEAN /\ menuChanged \in BOOLEAN
  /\ reads \in [{"press", "page"} ->
        [state : {"none", "sent", "served"}, fresh : BOOLEAN, object : Objects]]
  /\ pending \in [Slots -> Keys \cup {None}] /\ left \subseteq Slots
  /\ sent \in [slot : Slots, value : Keys \cup {NoKey}]
  /\ at \in {"idle", "settings", "ask", "write", "landed", "stale", "refused", "reread", "refresh",
             "key", "keyset", "keyrefused"}
  /\ attempt \in 0 .. SaveAttempts
  /\ intent \in [to : Objects, fields : SUBSET Fields, values : Specs]
  /\ turns \in Nat

(* A write of this page changes only fields this person edited, from the   *)
(* value the page was showing beside the edit, of the very object it was   *)
(* editing (kube.ts, conditionalPatch: two editors can never overwrite     *)
(* each other unseen), although a list goes out whole.                     *)
NoLostUpdate ==
  [][ WriteLands =>
        /\ object.uid = uid
        /\ \A f \in Fields : object'.spec[f] # object.spec[f] =>
             /\ object.spec[f] = intent.to.spec[f]
             /\ intent.values[f] # intent.to.spec[f] ]_vars

(* What somebody typed stays until they change it themselves, the server   *)
(* says the same, or the object goes; and then it stays to be copied       *)
(* (liveEditableResource.ts, refresh and recoveryDraft).                   *)
EditsSurvive ==
  [][ \A f \in Fields : mine[f] # Untouched =>
        \/ mine'[f] = mine[f]
        \/ server'.uid # 0 /\ server'.spec[f] = mine[f]
        \/ server'.uid = 0 /\ recovery'[f] = mine[f]
        \/ Types ]_vars

(* With nothing on the wire, a page that says it is live shows the object  *)
(* as it is: no read takes it back to an older version (refreshFromServer).*)
LiveMeansCurrent ==
  (stream = "live" /\ wire = <<>> /\ uid = object.uid /\ uid # 0) => server = object

(* Every press of Save ends, with the button back (save, the loop over     *)
(* saveAttempts and its finally).                                          *)
PressEnds == at # "idle" ~> at = "idle"
=============================================================================
