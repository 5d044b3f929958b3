---------------------------- MODULE LiveEditProofs ----------------------------
(***************************************************************************)
(* What LiveEdit promises, for any fields, values, keys and bounds: its    *)
(* types; that a save never overwrites what this page did not show; that   *)
(* a page which says it is live is; and that what somebody typed stays.    *)
(***************************************************************************)
EXTENDS LiveEdit, SequenceTheorems, TLAPS

-----------------------------------------------------------------------------
(* TypeOK, one part per group of variables.                                *)

Edits == [Fields -> Values \cup {Ref, None, Untouched}]
Intents == [to : Objects, fields : SUBSET Fields, values : Specs]
Steps == {"idle", "settings", "ask", "write", "landed", "stale", "refused", "reread", "refresh",
          "key", "keyset", "keyrefused"}
Readers == {"press", "page"}
ReadStates == [state : {"none", "sent", "served"}, fresh : BOOLEAN, object : Objects]

ApiTypes == /\ object \in Objects
            /\ secrets \in [Slots -> Keys \cup {NoKey, None}]
            /\ wire \in Seq(Objects)
PageTypes == screen \in Screens /\ stream \in {"connecting", "live", "terminal", "exhausted"}
StoreTypes == /\ uid \in Uids /\ server \in Objects
              /\ mine \in Edits /\ recovery \in Edits /\ base \in Specs
ReadTypes == needsRead \in BOOLEAN /\ timer \in BOOLEAN /\ reads \in [Readers -> ReadStates]
KeyTypes == /\ pending \in [Slots -> Keys \cup {None}] /\ left \subseteq Slots
            /\ sent \in [slot : Slots, value : Keys \cup {NoKey}]
IntentTypes == attempt \in 0 .. SaveAttempts /\ intent \in Intents /\ menuChanged \in BOOLEAN

LEMMA TypeParts ==
  TypeOK <=> /\ ApiTypes /\ PageTypes /\ StoreTypes /\ ReadTypes /\ KeyTypes /\ IntentTypes
             /\ at \in Steps /\ turns \in Nat
BY DEF TypeOK, ApiTypes, PageTypes, StoreTypes, ReadTypes, KeyTypes, IntentTypes, Edits, Intents,
       Steps, Readers, ReadStates

LEMMA NothingTypes ==
  Spec0 \in Specs /\ NoEdits \in Edits /\ NoObject \in Objects /\ NoRead \in ReadStates
<1>1. Spec0 \in Specs
  BY DEF Spec0, Specs
<1>2. NoObject \in Objects
  BY <1>1 DEF NoObject, Object, Objects, Uids
<1>3. QED
  BY <1>1, <1>2 DEF NoEdits, Edits, NoRead, Read, ReadStates

LEMMA TakeTypes ==
  ASSUME StoreTypes, NEW o \in Objects, Take(o)
  PROVE  StoreTypes'
<1>1. uid' \in Uids
  BY DEF StoreTypes, Take, Objects
<1>2. CASE o.uid = uid' /\ o.uid # 0
  <2>1. server' = o /\ mine' = Merge(mine, o) /\ base' = Rebase(mine', base, o) /\ recovery' = mine'
    BY <1>2 DEF Take
  <2>2. mine' \in Edits
    BY <2>1 DEF StoreTypes, Merge, Edits
  <2>3. base' \in Specs
    BY <2>1 DEF StoreTypes, Rebase, Specs, Objects
  <2>4. QED
    BY <1>1, <2>1, <2>2, <2>3 DEF StoreTypes
<1>3. CASE ~(o.uid = uid' /\ o.uid # 0)
  BY <1>1, <1>3, NothingTypes DEF Take, StoreTypes
<1>4. QED
  BY <1>2, <1>3

LEMMA BecomeTypes ==
  ASSUME StoreTypes, NEW edited \in Edits, NEW old \in Specs, Become(edited, old)
  PROVE  StoreTypes'
<1>1. mine' \in Edits
  BY DEF StoreTypes, Become, Merge, Edits
<1>2. base' \in Specs
  BY DEF StoreTypes, Become, Rebase, Specs, Objects
<1>3. QED
  BY <1>1, <1>2 DEF StoreTypes, Become

LEMMA DraftTypes ==
  ASSUME StoreTypes, NEW f \in Fields
  PROVE  Draft(f) \in Values \cup {Ref, None}
BY DEF StoreTypes, Draft, Edits, Objects, Specs

LEMMA CaptureTypes == ASSUME StoreTypes PROVE CaptureSave \in Intents
<1>1. [f \in Fields |-> Draft(f)] \in Specs
  BY DraftTypes DEF Specs
<1>2. Written \subseteq Fields
  BY EditAssumption DEF Written, Changes, EditAssumption
<1>3. QED
  BY <1>1, <1>2 DEF CaptureSave, Intent, Intents, StoreTypes

LEMMA CaptureTypesNext == ASSUME StoreTypes' PROVE CaptureSave' \in Intents
<1>1. \A f \in Fields : Draft(f)' \in Values \cup {Ref, None}
  BY DEF StoreTypes, Draft, Edits, Objects, Specs
<1>2. [f \in Fields |-> Draft(f)]' \in Specs
  BY <1>1 DEF Specs
<1>3. Written' \subseteq Fields
  BY EditAssumption DEF Written, Changes, EditAssumption
<1>4. QED
  BY <1>2, <1>3 DEF CaptureSave, Intent, Intents, StoreTypes

LEMMA PublishTypes ==
  ASSUME ApiTypes, NEW o \in Objects, Publish(o)
  PROVE  object' \in Objects /\ wire' \in Seq(Objects)
BY AppendProperties DEF ApiTypes, Publish

LEMMA ReadsTypes ==
  ASSUME reads \in [Readers -> ReadStates]
  PROVE  /\ Overtaken \in [Readers -> ReadStates]
         /\ \A who \in Readers, r \in ReadStates :
              [reads EXCEPT ![who] = r] \in [Readers -> ReadStates]
         /\ \A s \in {"sent", "served"}, b \in BOOLEAN, o \in Objects : Read(s, b, o) \in ReadStates
<1>1. Overtaken \in [Readers -> ReadStates]
  <2>1. \A who \in Readers : Read(reads[who].state, FALSE, reads[who].object) \in ReadStates
    BY DEF Read, ReadStates
  <2>2. QED
    BY <2>1 DEF Overtaken, Readers
<1>2. QED
  BY <1>1 DEF Read, ReadStates

-----------------------------------------------------------------------------
(* One lemma per group of variables: every step keeps its types.           *)

LEMMA ApiStep == TypeOK /\ Next => ApiTypes'
<1> SUFFICES ASSUME TypeOK, Next PROVE ApiTypes'
  OBVIOUS
<1>t. ApiTypes /\ StoreTypes /\ KeyTypes /\ IntentTypes
  BY TypeParts
<1>1. ASSUME NEW o \in Objects, Publish(o), UNCHANGED secrets PROVE ApiTypes'
  BY <1>t, <1>1, PublishTypes DEF ApiTypes
<1>2. CASE OthersWrite
  <2>1. PICK spec \in Specs : Publish(Object(object.uid, object.rev + 1, spec))
    BY <1>2 DEF OthersWrite
  <2>2. Object(object.uid, object.rev + 1, spec) \in Objects
    BY <1>t DEF ApiTypes, Object, Objects
  <2>3. QED
    BY <1>1, <1>2, <2>1, <2>2 DEF OthersWrite
<1>3. CASE OthersRemove
  <2>1. Object(0, object.rev, object.spec) \in Objects
    BY <1>t DEF ApiTypes, Object, Objects, Uids
  <2>2. QED
    BY <1>1, <1>3, <2>1 DEF OthersRemove
<1>4. CASE OthersRecreate
  <2>1. Object(2, object.rev + 1, object.spec) \in Objects
    BY <1>t DEF ApiTypes, Object, Objects, Uids
  <2>2. QED
    BY <1>1, <1>4, <2>1 DEF OthersRecreate
<1>5. CASE WriteLands
  <2>1. Patched(object) \in Specs
    BY <1>t DEF ApiTypes, IntentTypes, Intents, Patched, Objects, Specs
  <2>2. Object(object.uid, object.rev + 1, Patched(object)) \in Objects
    BY <1>t, <2>1 DEF ApiTypes, Object, Objects
  <2>3. QED
    BY <1>1, <1>5, <2>2 DEF WriteLands
<1>6. ASSUME NEW slot \in Slots, SeedKey(slot) PROVE ApiTypes'
  BY <1>t, <1>6 DEF SeedKey, ApiTypes
<1>7. CASE KeyWritten
  BY <1>t, <1>7 DEF KeyWritten, ApiTypes, KeyTypes, pageVars, storeVars, readVars, keyVars, intentVars
<1>8. CASE Deliver
  BY <1>t, <1>8, HeadTailProperties DEF Deliver, ApiTypes
<1>9. CASE Connect \/ Break \/ Retry
  BY <1>t, <1>9, EmptySeq DEF Connect, Break, Retry, Reconnect, ApiTypes
<1>10. ASSUME NEW who \in Readers, Ask(who) PROVE ApiTypes'
  BY <1>t, <1>10, EmptySeq DEF Ask, Reconnect, ApiTypes, apiVars
<1>11. CASE PageRead \/ StaleAnswered
  BY <1>10, <1>11 DEF PageRead, StaleAnswered, Readers
<1>12. CASE UNCHANGED apiVars
  BY <1>t, <1>12 DEF ApiTypes, apiVars
<1>13. ASSUME Types PROVE UNCHANGED apiVars
  BY <1>13 DEF Types, Type, SetProvider, ApplyServerValue, KeepMine, SetPendingKey, OnForm
<1>14. ASSUME \/ Press \/ SettingsAsked \/ CommitAsked \/ WriteStale \/ WriteRefused
              \/ WriteAnswered \/ WriteFailed \/ Reread \/ Refreshed \/ PressReadFails
              \/ KeyRefused \/ KeyAnswered \/ PageReadAnswered \/ PageReadFails
              \/ \E who \in Readers : ReadServed(who)
       PROVE  UNCHANGED apiVars
  BY <1>14 DEF Press, SettingsAsked, CommitAsked, WriteStale, WriteRefused, WriteAnswered,
               WriteFailed, Reread, Refreshed, PressReadFails, KeyRefused, KeyAnswered,
               PageReadAnswered, PageReadFails, ReadFails, ReadServed
<1>15. QED
  BY <1>2, <1>3, <1>4, <1>5, <1>6, <1>7, <1>8, <1>9, <1>11, <1>12, <1>13, <1>14
     DEF Next, Others, Answers, PageReads, Readers

LEMMA PageStep == TypeOK /\ Next => PageTypes'
<1> SUFFICES ASSUME TypeOK, Next PROVE PageTypes'
  OBVIOUS
<1>t. PageTypes
  BY TypeParts
<1>1. ASSUME Connect \/ Break \/ Retry PROVE PageTypes'
  BY <1>t, <1>1 DEF Connect, Break, Retry, Reconnect, Follow, PageTypes
<1>2. ASSUME NEW who \in Readers, Ask(who) PROVE PageTypes'
  BY <1>t, <1>2 DEF Ask, Reconnect, Follow, PageTypes, pageVars
<1>3. ASSUME PageRead \/ StaleAnswered PROVE PageTypes'
  BY <1>2, <1>3 DEF PageRead, StaleAnswered, Readers
<1>4. ASSUME Others \/ Types PROVE UNCHANGED pageVars
  BY <1>4 DEF Others, OthersWrite, OthersRemove, OthersRecreate, SeedKey, Elsewhere,
              Types, Type, SetProvider, ApplyServerValue, KeepMine, SetPendingKey, OnForm
<1>5. ASSUME \/ Deliver \/ Press \/ SettingsAsked \/ CommitAsked \/ WriteLands \/ WriteStale
             \/ WriteRefused \/ WriteAnswered \/ WriteFailed \/ Reread \/ Refreshed
             \/ PressReadFails \/ KeyWritten \/ KeyRefused \/ KeyAnswered
             \/ PageReadAnswered \/ PageReadFails \/ \E who \in Readers : ReadServed(who)
      PROVE  UNCHANGED pageVars
  BY <1>5 DEF Deliver, Press, SettingsAsked, CommitAsked, WriteLands, WriteStale, WriteRefused,
              WriteAnswered, WriteFailed, Reread, Refreshed, PressReadFails, KeyWritten,
              KeyRefused, KeyAnswered, PageReadAnswered, PageReadFails, ReadFails, ReadServed
<1>6. CASE UNCHANGED pageVars
  BY <1>t, <1>6 DEF PageTypes, pageVars
<1>7. QED
  BY <1>1, <1>3, <1>4, <1>5, <1>6 DEF Next, Answers, PageReads, Readers

LEMMA StoreStep == TypeOK /\ Next => StoreTypes'
<1> SUFFICES ASSUME TypeOK, Next PROVE StoreTypes'
  OBVIOUS
<1>t. ApiTypes /\ StoreTypes /\ ReadTypes
  BY TypeParts
<1>0. CASE UNCHANGED storeVars
  BY <1>t, <1>0 DEF StoreTypes, storeVars
<1>1. CASE Deliver
  <2>1. Head(wire) \in Objects
    BY <1>t, <1>1, HeadTailProperties DEF Deliver, ApiTypes
  <2>2. QED
    BY <1>t, <1>1, <2>1, TakeTypes DEF Deliver
<1>2. CASE Connect
  BY <1>t, <1>2, TakeTypes DEF Connect, ApiTypes
<1>3. ASSUME NEW who \in Readers, Reconcile(who) PROVE StoreTypes'
  <2>1. reads[who].object \in Objects
    BY <1>t DEF ReadTypes, ReadStates
  <2>2. QED
    BY <1>t, <1>0, <1>3, <2>1, TakeTypes DEF Reconcile
<1>4. CASE PageReadAnswered \/ Reread \/ Refreshed
  BY <1>3, <1>4 DEF PageReadAnswered, Reread, Refreshed, Readers
<1>5. CASE Types
  <2>1. ASSUME NEW f \in Fields, NEW v \in Values \cup {None}, Type(f, v) PROVE StoreTypes'
    <3>1. [mine EXCEPT ![f] = v] \in Edits /\ base \in Specs
      BY <1>t DEF StoreTypes, Edits
    <3>2. QED
      BY <1>t, <2>1, <3>1, BecomeTypes DEF Type
  <2>2. ASSUME NEW v \in Values \cup {None}, SetProvider(v) PROVE StoreTypes'
    <3> DEFINE edited == [f \in Fields |-> CASE f = Provider -> v
                            [] f = Reference -> (IF v = None THEN None ELSE Ref)
                            [] OTHER -> mine[f]]
    <3>1. edited \in Edits /\ base \in Specs
      BY <1>t DEF StoreTypes, Edits
    <3>2. Become(edited, base)
      BY <2>2 DEF SetProvider
    <3>3. QED
      BY <1>t, <3>1, <3>2, BecomeTypes
  <2>3. ASSUME NEW f \in Fields, ApplyServerValue(f) PROVE StoreTypes'
    <3> DEFINE back == {f} \cup (IF f = Provider THEN {Reference} ELSE {})
               edited == [g \in Fields |-> IF g \in back THEN Untouched ELSE mine[g]]
    <3>1. edited \in Edits /\ base \in Specs
      BY <1>t DEF StoreTypes, Edits
    <3>2. Become(edited, base)
      BY <2>3 DEF ApplyServerValue
    <3>3. QED
      BY <1>t, <3>1, <3>2, BecomeTypes
  <2>4. ASSUME NEW f \in Fields, KeepMine(f) PROVE StoreTypes'
    <3>1. [base EXCEPT ![f] = server.spec[f]] \in Specs /\ mine \in Edits
      BY <1>t DEF StoreTypes, Objects, Specs
    <3>2. QED
      BY <1>t, <2>4, <3>1, BecomeTypes DEF KeepMine
  <2>5. ASSUME NEW slot \in Slots, NEW key \in Keys \cup {None}, SetPendingKey(slot, key)
        PROVE  StoreTypes'
    BY <1>0, <2>5 DEF SetPendingKey
  <2>6. QED
    BY <1>5, <2>1, <2>2, <2>3, <2>4, <2>5 DEF Types
<1>6. ASSUME Others PROVE UNCHANGED storeVars
  BY <1>6 DEF Others, OthersWrite, OthersRemove, OthersRecreate, SeedKey, Elsewhere
<1>7. ASSUME \/ Break \/ Retry \/ Press \/ SettingsAsked \/ CommitAsked \/ WriteLands
             \/ WriteStale \/ WriteRefused \/ WriteAnswered \/ WriteFailed \/ StaleAnswered
             \/ PressReadFails \/ KeyWritten \/ KeyRefused \/ KeyAnswered \/ PageRead
             \/ PageReadFails \/ \E who \in Readers : ReadServed(who)
      PROVE  UNCHANGED storeVars
  BY <1>7 DEF Break, Retry, Press, SettingsAsked, CommitAsked, WriteLands, WriteStale,
              WriteRefused, WriteAnswered, AfterSave, WriteFailed, StaleAnswered, PressReadFails,
              KeyWritten, KeyRefused, KeyAnswered, PageRead, PageReadFails, ReadFails, ReadServed
<1>8. QED
  BY <1>0, <1>1, <1>2, <1>4, <1>5, <1>6, <1>7 DEF Next, Answers, PageReads, Readers

LEMMA ReadStep == TypeOK /\ Next => ReadTypes'
<1> SUFFICES ASSUME TypeOK, Next PROVE ReadTypes'
  OBVIOUS
<1>t. ApiTypes /\ ReadTypes
  BY TypeParts
<1>r. reads \in [Readers -> ReadStates] /\ NoRead \in ReadStates /\ NoObject \in Objects
  BY <1>t, NothingTypes DEF ReadTypes
<1>0. CASE UNCHANGED readVars
  BY <1>t, <1>0 DEF ReadTypes, readVars
<1>1. ASSUME NEW who \in Readers, Reconcile(who)
      PROVE  needsRead' \in BOOLEAN /\ reads' \in [Readers -> ReadStates]
  <2>1. needsRead' \in BOOLEAN
    BY <1>1 DEF Reconcile
  <2>2. reads' = [reads EXCEPT ![who] = NoRead]
    BY <1>1 DEF Reconcile
  <2>3. QED
    BY <1>r, <2>1, <2>2, ReadsTypes
<1>2. ASSUME NEW who \in Readers, Ask(who)
      PROVE  needsRead' \in BOOLEAN /\ reads' \in [Readers -> ReadStates]
  <2>1. needsRead' \in BOOLEAN
    BY <1>t, <1>2 DEF Ask, ReadTypes
  <2>2. reads' = reads \/ reads' = [reads EXCEPT ![who] = Read("sent", TRUE, NoObject)]
    BY <1>2 DEF Ask
  <2>3. QED
    BY <1>r, <2>1, <2>2, ReadsTypes
<1>3. ASSUME NEW who \in Readers, ReadServed(who) PROVE ReadTypes'
  <2>1. UNCHANGED <<needsRead, timer>>
    BY <1>3 DEF ReadServed
  <2>2. reads' = [reads EXCEPT ![who] = Read("served", reads[who].fresh, object)]
    BY <1>3 DEF ReadServed
  <2>3. reads[who].fresh \in BOOLEAN /\ object \in Objects
    BY <1>t DEF ReadTypes, ReadStates, ApiTypes
  <2>4. reads' \in [Readers -> ReadStates]
    BY <1>r, <2>2, <2>3, ReadsTypes
  <2>5. QED
    BY <1>t, <2>1, <2>4 DEF ReadTypes
<1>4. CASE Deliver \/ Connect
  <2>1. UNCHANGED <<needsRead, timer>> /\ reads' = Overtaken
    BY <1>4 DEF Deliver, Connect
  <2>2. reads' \in [Readers -> ReadStates]
    BY <1>r, <2>1, ReadsTypes
  <2>3. QED
    BY <1>t, <2>1, <2>2 DEF ReadTypes
<1>5. ASSUME NEW who \in Readers, ReadFails(who) PROVE ReadTypes'
  <2>1. UNCHANGED <<needsRead, timer>> /\ reads' = [reads EXCEPT ![who] = NoRead]
    BY <1>5 DEF ReadFails
  <2>2. reads' \in [Readers -> ReadStates]
    BY <1>r, <2>1, ReadsTypes
  <2>3. QED
    BY <1>t, <2>1, <2>2 DEF ReadTypes
<1>6. CASE PageReadFails \/ PressReadFails
  BY <1>5, <1>6 DEF PageReadFails, PressReadFails, Readers
<1>7. CASE PageRead
  <2>1. timer' \in BOOLEAN
    BY <1>t, <1>7 DEF PageRead, ReadTypes
  <2>2. QED
    BY <1>2, <1>7, <2>1 DEF PageRead, ReadTypes, Readers
<1>8. CASE StaleAnswered
  BY <1>t, <1>2, <1>8 DEF StaleAnswered, ReadTypes, Readers
<1>9. CASE PageReadAnswered \/ Reread \/ Refreshed
  <2>1. UNCHANGED timer
    BY <1>9 DEF PageReadAnswered, Reread, Refreshed
  <2>2. QED
    BY <1>t, <1>1, <1>9, <2>1 DEF PageReadAnswered, Reread, Refreshed, ReadTypes, Readers
<1>10. ASSUME BeginSave PROVE ReadTypes'
  <2>1. needsRead' = needsRead /\ (timer' = timer \/ timer' = FALSE)
    BY <1>10 DEF BeginSave, readVars
  <2>2. reads' = reads \/ reads' = [reads EXCEPT !["press"] = Read("sent", TRUE, NoObject)]
    BY <1>10 DEF BeginSave, readVars
  <2>3. reads' \in [Readers -> ReadStates]
    BY <1>r, <2>2, ReadsTypes DEF Readers
  <2>4. QED
    BY <1>t, <2>1, <2>3 DEF ReadTypes
<1>11. CASE Press \/ SettingsAsked
  BY <1>0, <1>10, <1>11 DEF Press, SettingsAsked
<1>12. CASE WriteAnswered
  BY <1>t, <1>12 DEF WriteAnswered, ReadTypes
<1>13. ASSUME Others \/ Types PROVE UNCHANGED readVars
  BY <1>13 DEF Others, OthersWrite, OthersRemove, OthersRecreate, SeedKey, Elsewhere,
               Types, Type, SetProvider, ApplyServerValue, KeepMine, SetPendingKey, OnForm
<1>14. ASSUME \/ Break \/ Retry \/ CommitAsked \/ WriteLands \/ WriteStale \/ WriteRefused
              \/ WriteFailed \/ KeyWritten \/ KeyRefused \/ KeyAnswered
       PROVE  UNCHANGED readVars
  BY <1>14 DEF Break, Retry, CommitAsked, WriteLands, WriteStale, WriteRefused, WriteFailed,
               KeyWritten, KeyRefused, KeyAnswered
<1>15. QED
  BY <1>0, <1>3, <1>4, <1>6, <1>7, <1>8, <1>9, <1>11, <1>12, <1>13, <1>14
     DEF Next, Answers, PageReads, Readers

LEMMA KeyStep == TypeOK /\ Next => KeyTypes'
<1> SUFFICES ASSUME TypeOK, Next PROVE KeyTypes'
  OBVIOUS
<1>t. KeyTypes
  BY TypeParts
<1>0. CASE UNCHANGED keyVars
  BY <1>t, <1>0 DEF KeyTypes, keyVars
<1>1. ASSUME pending' \in [Slots -> Keys \cup {None}], NextKey(left) PROVE KeyTypes'
  <2>1. CASE UNCHANGED sent /\ left' = {}
    BY <1>t, <1>1, <2>1 DEF KeyTypes
  <2>2. ASSUME NEW slot \in left, left' = left \ {slot},
               sent' = [slot |-> slot,
                        value |-> IF pending'[slot] = None THEN NoKey ELSE pending'[slot]]
        PROVE  KeyTypes'
    BY <1>t, <1>1, <2>2 DEF KeyTypes
  <2>3. QED
    BY <1>1, <2>1, <2>2 DEF NextKey
<1>2. CASE KeyAnswered
  <2>1. pending' = pending \/ pending' = [pending EXCEPT ![sent.slot] = None]
    BY <1>2 DEF KeyAnswered
  <2>2. pending' \in [Slots -> Keys \cup {None}]
    BY <1>t, <2>1 DEF KeyTypes
  <2>3. QED
    BY <1>1, <1>2, <2>2 DEF KeyAnswered
<1>3. CASE SettingsAsked \/ WriteAnswered
  BY <1>t, <1>0, <1>1, <1>3 DEF SettingsAsked, WriteAnswered, KeyTypes
<1>4. CASE Press
  BY <1>t, <1>0, <1>4 DEF Press, Typed, KeyTypes
<1>5. CASE Types
  <2>1. ASSUME NEW slot \in Slots, NEW key \in Keys \cup {None}, SetPendingKey(slot, key)
        PROVE  KeyTypes'
    BY <1>t, <2>1 DEF SetPendingKey, KeyTypes
  <2>2. CASE \/ \E f \in Fields, v \in Values \cup {None} : Type(f, v)
             \/ \E v \in Values \cup {None} : SetProvider(v)
             \/ \E f \in Fields : ApplyServerValue(f) \/ KeepMine(f)
    BY <1>0, <2>2 DEF Type, SetProvider, ApplyServerValue, KeepMine, OnForm
  <2>3. QED
    BY <1>5, <2>1, <2>2 DEF Types
<1>6. ASSUME Others \/ PageReads PROVE UNCHANGED keyVars
  BY <1>6 DEF Others, OthersWrite, OthersRemove, OthersRecreate, SeedKey, Elsewhere,
              PageReads, PageRead, ReadServed, PageReadAnswered, PageReadFails, ReadFails
<1>7. ASSUME \/ Deliver \/ Connect \/ Break \/ Retry \/ CommitAsked \/ WriteLands \/ WriteStale
             \/ WriteRefused \/ WriteFailed \/ StaleAnswered \/ Reread \/ Refreshed
             \/ PressReadFails \/ KeyWritten \/ KeyRefused \/ ReadServed("press")
      PROVE  UNCHANGED keyVars
  BY <1>7 DEF Deliver, Connect, Break, Retry, CommitAsked, WriteLands, WriteStale, WriteRefused,
              WriteFailed, StaleAnswered, Reread, Refreshed, PressReadFails, ReadFails,
              KeyWritten, KeyRefused, ReadServed
<1>8. QED
  BY <1>0, <1>2, <1>3, <1>4, <1>5, <1>6, <1>7 DEF Next, Answers

(* saveAttempts bounds the attempts: the one after the last is not made.   *)
LEMMA IntentStep == TypeOK /\ Next => IntentTypes'
<1> SUFFICES ASSUME TypeOK, Next PROVE IntentTypes'
  OBVIOUS
<1>t. StoreTypes /\ IntentTypes /\ SaveAttempts \in Nat \ {0}
  BY TypeParts, EditAssumption DEF EditAssumption
<1>0. CASE UNCHANGED intentVars
  BY <1>t, <1>0 DEF IntentTypes, intentVars
<1>1. ASSUME BeginSave PROVE attempt' \in 0 .. SaveAttempts /\ intent' \in Intents
  <2>1. CASE UNCHANGED <<attempt, intent>>
    BY <1>t, <2>1 DEF IntentTypes
  <2>2. CASE attempt' = 1 /\ intent' = CaptureSave
    BY <1>t, <2>2, CaptureTypes
  <2>3. QED
    BY <1>1, <2>1, <2>2 DEF BeginSave
<1>2. CASE Press
  <2>1. menuChanged' \in BOOLEAN
    BY <1>2 DEF Press
  <2>2. attempt' \in 0 .. SaveAttempts /\ intent' \in Intents
    BY <1>t, <1>1, <1>2 DEF Press, IntentTypes
  <2>3. QED
    BY <2>1, <2>2 DEF IntentTypes
<1>3. CASE SettingsAsked
  <2>1. UNCHANGED menuChanged
    BY <1>3 DEF SettingsAsked
  <2>2. attempt' \in 0 .. SaveAttempts /\ intent' \in Intents
    BY <1>t, <1>1, <1>3 DEF SettingsAsked, IntentTypes
  <2>3. QED
    BY <1>t, <2>1, <2>2 DEF IntentTypes
<1>4. CASE Reread
  <2>1. CASE UNCHANGED intentVars
    BY <1>0, <2>1
  <2>2. CASE /\ ~GivesUp /\ attempt' = attempt + 1 /\ intent' = CaptureSave'
             /\ UNCHANGED menuChanged
    <3>1. StoreTypes'
      BY StoreStep
    <3>2. intent' \in Intents
      BY <2>2, <3>1, CaptureTypesNext
    <3>3. attempt' \in 0 .. SaveAttempts
      BY <1>t, <2>2 DEF GivesUp, IntentTypes
    <3>4. QED
      BY <1>t, <2>2, <3>2, <3>3 DEF IntentTypes
  <2>3. QED
    BY <1>4, <2>1, <2>2 DEF Reread
<1>5. ASSUME Others \/ Types \/ PageReads PROVE UNCHANGED intentVars
  BY <1>5 DEF Others, OthersWrite, OthersRemove, OthersRecreate, SeedKey, Elsewhere,
              Types, Type, SetProvider, ApplyServerValue, KeepMine, SetPendingKey, OnForm,
              PageReads, PageRead, ReadServed, PageReadAnswered, PageReadFails, ReadFails, pressVars
<1>6. ASSUME \/ Deliver \/ Connect \/ Break \/ Retry \/ CommitAsked \/ WriteLands \/ WriteStale
             \/ WriteRefused \/ WriteAnswered \/ WriteFailed \/ StaleAnswered \/ Refreshed
             \/ PressReadFails \/ KeyWritten \/ KeyRefused \/ KeyAnswered \/ ReadServed("press")
      PROVE  UNCHANGED intentVars
  BY <1>6 DEF Deliver, Connect, Break, Retry, CommitAsked, WriteLands, WriteStale, WriteRefused,
              WriteAnswered, WriteFailed, StaleAnswered, Refreshed, PressReadFails, ReadFails,
              KeyWritten, KeyRefused, KeyAnswered, ReadServed, pressVars
<1>7. QED
  BY <1>0, <1>2, <1>3, <1>4, <1>5, <1>6 DEF Next, Answers

LEMMA AtStep == TypeOK /\ Next => at' \in Steps /\ turns' \in Nat
<1> SUFFICES ASSUME TypeOK, Next PROVE at' \in Steps /\ turns' \in Nat
  OBVIOUS
<1>t. at \in Steps /\ turns \in Nat
  BY TypeParts
<1>1. at' \in Steps
  <2>1. CASE UNCHANGED at
    BY <1>t, <2>1
  <2>2. ASSUME Others \/ Types \/ PageReads PROVE UNCHANGED at
    BY <2>2 DEF Others, OthersWrite, OthersRemove, OthersRecreate, SeedKey, Elsewhere,
                Types, Type, SetProvider, ApplyServerValue, KeepMine, SetPendingKey, OnForm,
                PageReads, PageRead, ReadServed, PageReadAnswered, PageReadFails, pressVars
  <2>3. ASSUME \/ Deliver \/ Connect \/ Break \/ Retry \/ ReadServed("press") PROVE UNCHANGED at
    BY <2>3 DEF Deliver, Connect, Break, Retry, ReadServed, pressVars
  <2>4. ASSUME \/ SettingsAsked \/ CommitAsked \/ WriteLands \/ WriteStale \/ WriteRefused
               \/ WriteAnswered \/ WriteFailed \/ StaleAnswered \/ Reread \/ Refreshed
               \/ PressReadFails \/ KeyWritten \/ KeyRefused \/ KeyAnswered \/ Press
        PROVE  at' \in Steps
    BY <2>4 DEF SettingsAsked, CommitAsked, WriteLands, WriteStale, WriteRefused, WriteAnswered,
                WriteFailed, StaleAnswered, Reread, Refreshed, PressReadFails, KeyWritten,
                KeyRefused, KeyAnswered, Press, NextKey, BeginSave, Steps
  <2>5. QED
    BY <2>1, <2>2, <2>3, <2>4 DEF Next, Answers
<1>2. turns' \in Nat
  <2>1. CASE Turn \/ UNCHANGED turns
    BY <1>t, <2>1 DEF Turn
  <2>2. ASSUME Others \/ Types \/ PageReads PROVE Turn \/ UNCHANGED turns
    BY <2>2 DEF Others, OthersWrite, OthersRemove, OthersRecreate, SeedKey,
                Types, Type, SetProvider, ApplyServerValue, KeepMine, SetPendingKey, OnForm,
                PageReads, PageRead, ReadServed, PageReadAnswered, PageReadFails, ReadFails
  <2>3. ASSUME \/ SettingsAsked \/ CommitAsked \/ WriteLands \/ WriteStale \/ WriteRefused
               \/ WriteAnswered \/ WriteFailed \/ StaleAnswered \/ Reread \/ Refreshed
               \/ PressReadFails \/ KeyWritten \/ KeyRefused \/ KeyAnswered \/ Press
               \/ Deliver \/ Connect \/ Break \/ Retry \/ ReadServed("press")
        PROVE  Turn \/ UNCHANGED turns
    BY <2>3 DEF SettingsAsked, CommitAsked, WriteLands, WriteStale, WriteRefused, WriteAnswered,
                WriteFailed, StaleAnswered, Reread, Refreshed, PressReadFails, ReadFails,
                KeyWritten, KeyRefused, KeyAnswered, Press, Deliver, Connect, Break, Retry, ReadServed
  <2>4. QED
    BY <2>1, <2>2, <2>3 DEF Next, Answers
<1>3. QED
  BY <1>1, <1>2

LEMMA InitTypes == Init => TypeOK
<1> SUFFICES ASSUME Init PROVE TypeOK
  OBVIOUS
<1>1. PICK spec \in First : object = Object(1, 1, spec)
  BY DEF Init
<1>2. object \in Objects
  BY <1>1, EditAssumption DEF EditAssumption, Object, Objects, Uids, Specs
<1>3. ApiTypes
  BY <1>2, EmptySeq DEF Init, ApiTypes
<1>4. PageTypes /\ StoreTypes
  BY NothingTypes DEF Init, PageTypes, StoreTypes, Uids
<1>5. ReadTypes
  BY NothingTypes DEF Init, ReadTypes, Readers
<1>6. KeyTypes
  BY DEF Init, KeyTypes
<1>7. IntentTypes
  <2>1. Intent(NoObject, {}, Spec0) \in Intents
    BY NothingTypes DEF Intent, Intents
  <2>2. 0 \in 0 .. SaveAttempts
    BY EditAssumption DEF EditAssumption
  <2>3. QED
    BY <2>1, <2>2 DEF Init, IntentTypes
<1>8. at \in Steps /\ turns \in Nat
  BY DEF Init, Steps
<1>9. QED
  BY <1>3, <1>4, <1>5, <1>6, <1>7, <1>8, TypeParts

LEMMA NextTypes == TypeOK /\ [Next]_vars => TypeOK'
<1> SUFFICES ASSUME TypeOK, [Next]_vars PROVE TypeOK'
  OBVIOUS
<1>1. CASE Next
  <2>1. /\ ApiTypes' /\ PageTypes' /\ StoreTypes' /\ ReadTypes' /\ KeyTypes' /\ IntentTypes'
        /\ at' \in Steps /\ turns' \in Nat
    BY <1>1, ApiStep, PageStep, StoreStep, ReadStep, KeyStep, IntentStep, AtStep
  <2>2. QED
    BY <2>1 DEF TypeOK, ApiTypes, PageTypes, StoreTypes, ReadTypes, KeyTypes, IntentTypes, Edits,
                Intents, Steps, Readers, ReadStates
<1>2. CASE UNCHANGED vars
  BY <1>2 DEF TypeOK, vars, apiVars, pageVars, storeVars, readVars, keyVars, pressVars, intentVars
<1>3. QED
  BY <1>1, <1>2

(* Every variable of an editor keeps its type, and no press of Save makes  *)
(* more than saveAttempts attempts (liveEditableResource.ts, save).        *)
THEOREM EditTypeCorrect == Spec => []TypeOK
BY InitTypes, NextTypes, PTL DEF Spec

-----------------------------------------------------------------------------
(* The invariant.  A version of the object is one spec, however old it is  *)
(* by now: whatever the page holds is a version that was, so a write whose *)
(* precondition holds is over the spec it was made from.                   *)

Known(o) ==
  o.uid # 0 =>
    /\ o.rev <= object.rev
    /\ o.uid = object.uid /\ o.rev = object.rev => o.spec = object.spec

History ==
  /\ Known(server) /\ Known(intent.to)
  /\ \A who \in Readers : Known(reads[who].object)
  /\ \A i \in 1 .. Len(wire) : Known(wire[i])

(* A write is for the object that this page shows.                         *)
Aimed == at \in {"ask", "write"} => intent.to.uid = uid /\ uid # 0

(* The stream's last word is the object as it is; with nothing on the wire *)
(* the page has it, and so has a read that no event overtook.              *)
Caught ==
  stream = "live" =>
    IF wire # <<>> THEN wire[Len(wire)] = object
    ELSE /\ uid = object.uid /\ uid # 0 => server = object
         /\ \A who \in Readers :
              reads[who].state = "served" /\ reads[who].fresh => reads[who].object = object

(* What is kept to be copied is what was typed, if anything was.           *)
Kept == recovery = mine \/ mine = NoEdits

EditInv == TypeOK /\ History /\ Aimed /\ Caught /\ Kept

(* The object moves on, or goes and keeps its version.                     *)
LEMMA ObjectMoves ==
  TypeOK /\ Next =>
    \/ UNCHANGED object
    \/ object'.rev = object.rev + 1
    \/ object'.uid = 0 /\ object'.rev = object.rev
<1> SUFFICES ASSUME TypeOK, Next
             PROVE  \/ UNCHANGED object
                    \/ object'.rev = object.rev + 1
                    \/ object'.uid = 0 /\ object'.rev = object.rev
  OBVIOUS
<1>0. ASSUME NEW u, NEW r, NEW spec, Publish(Object(u, r, spec))
      PROVE  object'.uid = u /\ object'.rev = r
  BY <1>0 DEF Publish, Object
<1>1. CASE OthersWrite \/ OthersRemove \/ OthersRecreate \/ WriteLands
  BY <1>0, <1>1 DEF OthersWrite, OthersRemove, OthersRecreate, WriteLands
<1>2. ASSUME Types \/ \E slot \in Slots : SeedKey(slot) PROVE UNCHANGED object
  BY <1>2 DEF Types, Type, SetProvider, ApplyServerValue, KeepMine, SetPendingKey, OnForm, SeedKey,
              apiVars
<1>3. ASSUME Deliver \/ Connect \/ Break \/ Retry \/ PageReads PROVE UNCHANGED object
  BY <1>3 DEF Deliver, Connect, Break, Retry, Reconnect, PageReads, PageRead, Ask, ReadServed,
              PageReadAnswered, PageReadFails, ReadFails, apiVars
<1>4. ASSUME \/ Press \/ SettingsAsked \/ CommitAsked \/ WriteStale \/ WriteRefused
             \/ WriteAnswered \/ WriteFailed \/ StaleAnswered \/ Reread \/ Refreshed
             \/ PressReadFails \/ KeyWritten \/ KeyRefused \/ KeyAnswered \/ ReadServed("press")
      PROVE  UNCHANGED object
  BY <1>4 DEF Press, SettingsAsked, CommitAsked, WriteStale, WriteRefused, WriteAnswered,
              WriteFailed, StaleAnswered, Ask, Reconnect, Reread, Refreshed, PressReadFails,
              ReadFails, KeyWritten, KeyRefused, KeyAnswered, ReadServed, apiVars
<1>5. QED
  BY <1>1, <1>2, <1>3, <1>4 DEF Next, Others, Answers

LEMMA KnownStays ==
  ASSUME TypeOK, Next, NEW o \in Objects, Known(o)
  PROVE  o.uid # 0 =>
           /\ o.rev <= object'.rev
           /\ o.uid = object'.uid /\ o.rev = object'.rev => o.spec = object'.spec
<1>1. object.rev \in Nat /\ o.rev \in Nat
  BY DEF TypeOK, Objects
<1>2. QED
  BY <1>1, ObjectMoves DEF Known

(* What the store holds was there, or is what the stream, a read or a      *)
(* snapshot said.                                                          *)
LEMMA StoreSays ==
  TypeOK /\ Next =>
    \/ UNCHANGED storeVars
    \/ stream = "live" /\ wire # <<>> /\ Take(Head(wire))
    \/ Take(object)
    \/ Types /\ UNCHANGED <<uid, server>> /\ recovery' = mine'
    \/ \E who \in Readers : Reconcile(who) /\ Accepted(who) /\ Take(reads[who].object)
<1> SUFFICES ASSUME TypeOK, Next
             PROVE  \/ UNCHANGED storeVars
                    \/ stream = "live" /\ wire # <<>> /\ Take(Head(wire))
                    \/ Take(object)
                    \/ Types /\ UNCHANGED <<uid, server>> /\ recovery' = mine'
                    \/ \E who \in Readers : Reconcile(who) /\ Accepted(who) /\ Take(reads[who].object)
  OBVIOUS
<1>1. CASE Deliver \/ Connect
  BY <1>1 DEF Deliver, Connect
<1>2. ASSUME NEW who \in Readers, Reconcile(who)
      PROVE  UNCHANGED storeVars \/ (Accepted(who) /\ Take(reads[who].object))
  BY <1>2 DEF Reconcile
<1>3. CASE PageReadAnswered \/ Reread \/ Refreshed
  BY <1>2, <1>3 DEF PageReadAnswered, Reread, Refreshed, Readers
<1>4. ASSUME Types PROVE UNCHANGED storeVars \/ (UNCHANGED <<uid, server>> /\ recovery' = mine')
  BY <1>4 DEF Types, Type, SetProvider, ApplyServerValue, KeepMine, SetPendingKey, Become
<1>5. ASSUME Others PROVE UNCHANGED storeVars
  BY <1>5 DEF Others, OthersWrite, OthersRemove, OthersRecreate, SeedKey, Elsewhere
<1>6. ASSUME \/ Break \/ Retry \/ Press \/ SettingsAsked \/ CommitAsked \/ WriteLands
             \/ WriteStale \/ WriteRefused \/ WriteAnswered \/ WriteFailed \/ StaleAnswered
             \/ PressReadFails \/ KeyWritten \/ KeyRefused \/ KeyAnswered \/ PageRead
             \/ PageReadFails \/ \E who \in Readers : ReadServed(who)
      PROVE  UNCHANGED storeVars
  BY <1>6 DEF Break, Retry, Press, SettingsAsked, CommitAsked, WriteLands, WriteStale,
              WriteRefused, WriteAnswered, AfterSave, WriteFailed, StaleAnswered, PressReadFails,
              KeyWritten, KeyRefused, KeyAnswered, PageRead, PageReadFails, ReadFails, ReadServed
<1>7. QED
  BY <1>1, <1>3, <1>4, <1>5, <1>6 DEF Next, Answers, PageReads, Readers

(* What the store has afterwards.                                          *)
LEMMA ServerFrom ==
  ASSUME EditInv, Next
  PROVE  \/ server' = server \/ server' = NoObject \/ server' = object
         \/ \E who \in Readers : server' = reads[who].object
         \/ \E i \in 1 .. Len(wire) : server' = wire[i]
<1>t. wire \in Seq(Objects)
  BY DEF EditInv, TypeOK
<1>1. ASSUME NEW o, Take(o) PROVE server' = o \/ server' = NoObject
  BY <1>1 DEF Take
<1>2. ASSUME wire # <<>> PROVE 1 \in 1 .. Len(wire) /\ Head(wire) = wire[1]
  BY <1>t, <1>2
<1>3. QED
  BY <1>1, <1>2, StoreSays DEF EditInv, storeVars

LEMMA HistoryStep == EditInv /\ Next => History'
<1> SUFFICES ASSUME EditInv, Next PROVE History'
  OBVIOUS
<1>t. TypeOK /\ TypeOK' /\ History
  BY NextTypes DEF EditInv
<1>o. object \in Objects /\ object' \in Objects /\ wire \in Seq(Objects)
  BY <1>t DEF TypeOK
<1> DEFINE KnownNext(o) == o.uid # 0 =>
             /\ o.rev <= object'.rev
             /\ o.uid = object'.uid /\ o.rev = object'.rev => o.spec = object'.spec
<1>1. ASSUME NEW o \in Objects, Known(o) PROVE KnownNext(o)
  BY <1>t, <1>1, KnownStays
<1>2. Known(object) /\ Known(NoObject) /\ KnownNext(object')
  BY <1>o DEF Known, Objects, NoObject, Object
<1>3. KnownNext(object) /\ KnownNext(NoObject)
  BY <1>o, <1>1, <1>2, NothingTypes
<1>4. /\ KnownNext(server) /\ KnownNext(intent.to)
      /\ \A who \in Readers : KnownNext(reads[who].object)
      /\ \A i \in 1 .. Len(wire) : KnownNext(wire[i])
  <2>1. server \in Objects /\ intent.to \in Objects
    BY <1>t DEF TypeOK
  <2>2. \A who \in Readers : reads[who].object \in Objects
    BY <1>t DEF TypeOK, Readers
  <2>3. \A i \in 1 .. Len(wire) : wire[i] \in Objects
    BY <1>o
  <2>4. QED
    BY <1>1, <1>t, <2>1, <2>2, <2>3 DEF History
<1>5. KnownNext(server')
  BY <1>3, <1>4, ServerFrom
<1>6. KnownNext(intent'.to)
  <2>0. CaptureSave.to = server
    BY DEF CaptureSave, Intent
  <2>1. ASSUME BeginSave PROVE intent' = intent \/ intent'.to = server
    BY <2>0, <2>1 DEF BeginSave
  <2>2. ASSUME Press \/ SettingsAsked PROVE intent' = intent \/ intent'.to = server
    BY <2>1, <2>2 DEF Press, SettingsAsked
  <2>3. ASSUME Reread PROVE intent' = intent \/ intent'.to = server'
    BY <2>3 DEF Reread, CaptureSave, Intent, intentVars
  <2>4. ASSUME Others \/ Types \/ PageReads PROVE intent' = intent
    BY <2>4 DEF Others, OthersWrite, OthersRemove, OthersRecreate, SeedKey, Elsewhere,
                Types, Type, SetProvider, ApplyServerValue, KeepMine, SetPendingKey, OnForm,
                PageReads, PageRead, ReadServed, PageReadAnswered, PageReadFails, ReadFails,
                pressVars, intentVars
  <2>5. ASSUME \/ Deliver \/ Connect \/ Break \/ Retry \/ CommitAsked \/ WriteLands \/ WriteStale
               \/ WriteRefused \/ WriteAnswered \/ WriteFailed \/ StaleAnswered \/ Refreshed
               \/ PressReadFails \/ KeyWritten \/ KeyRefused \/ KeyAnswered \/ ReadServed("press")
        PROVE  intent' = intent
    BY <2>5 DEF Deliver, Connect, Break, Retry, CommitAsked, WriteLands, WriteStale, WriteRefused,
                WriteAnswered, WriteFailed, StaleAnswered, Refreshed, PressReadFails, ReadFails,
                KeyWritten, KeyRefused, KeyAnswered, ReadServed, pressVars, intentVars
  <2>6. intent' = intent \/ intent'.to = server \/ intent'.to = server'
    BY <2>2, <2>3, <2>4, <2>5 DEF Next, Answers
  <2>7. QED
    BY <1>4, <1>5, <2>6
<1>7. \A who \in Readers : KnownNext(reads'[who].object)
  <2>r. reads \in [Readers -> ReadStates]
    BY <1>t DEF TypeOK, Readers, ReadStates
  <2>0. ASSUME NEW who \in Readers, NEW r, reads' = [reads EXCEPT ![who] = r],
               r.object = NoObject \/ r.object = object
        PROVE  \A w \in Readers : KnownNext(reads'[w].object)
    BY <1>3, <1>4, <2>r, <2>0
  <2>1. ASSUME NEW who \in Readers, ReadServed(who) \/ ReadFails(who) \/ Reconcile(who)
        PROVE  \A w \in Readers : KnownNext(reads'[w].object)
    BY <2>0, <2>1 DEF ReadServed, ReadFails, Reconcile, Read, NoRead
  <2>2. ASSUME UNCHANGED reads PROVE \A w \in Readers : KnownNext(reads'[w].object)
    BY <1>4, <2>2
  <2>3. ASSUME NEW who \in Readers, Ask(who) PROVE \A w \in Readers : KnownNext(reads'[w].object)
    BY <2>0, <2>2, <2>3 DEF Ask, Read
  <2>4. ASSUME BeginSave PROVE \A w \in Readers : KnownNext(reads'[w].object)
    BY <2>0, <2>2, <2>4 DEF BeginSave, Read, readVars, Readers
  <2>5. ASSUME Deliver \/ Connect PROVE \A w \in Readers : KnownNext(reads'[w].object)
    <3>1. reads' = Overtaken
      BY <2>5 DEF Deliver, Connect
    <3>2. \A w \in Readers : reads'[w].object = reads[w].object
      BY <3>1 DEF Overtaken, Read, Readers
    <3>3. QED
      BY <1>4, <3>2
  <2>6. ASSUME Press \/ SettingsAsked PROVE \A w \in Readers : KnownNext(reads'[w].object)
    BY <2>2, <2>4, <2>6 DEF Press, SettingsAsked, readVars
  <2>7. ASSUME \/ PageReads \/ StaleAnswered \/ Reread \/ Refreshed \/ PressReadFails
               \/ ReadServed("press")
        PROVE  \A w \in Readers : KnownNext(reads'[w].object)
    BY <2>1, <2>3, <2>7 DEF PageReads, PageRead, PageReadAnswered, PageReadFails, StaleAnswered,
                            Reread, Refreshed, PressReadFails, Readers
  <2>8. ASSUME Others \/ Types PROVE UNCHANGED reads
    BY <2>8 DEF Others, OthersWrite, OthersRemove, OthersRecreate, SeedKey, Elsewhere,
                Types, Type, SetProvider, ApplyServerValue, KeepMine, SetPendingKey, OnForm, readVars
  <2>9. ASSUME \/ Break \/ Retry \/ CommitAsked \/ WriteLands \/ WriteStale \/ WriteRefused
               \/ WriteAnswered \/ WriteFailed \/ KeyWritten \/ KeyRefused \/ KeyAnswered
        PROVE  UNCHANGED reads
    BY <2>9 DEF Break, Retry, CommitAsked, WriteLands, WriteStale, WriteRefused, WriteAnswered,
                WriteFailed, KeyWritten, KeyRefused, KeyAnswered, readVars
  <2>10. QED
    BY <2>2, <2>5, <2>6, <2>7, <2>8, <2>9 DEF Next, Answers
<1>8. \A i \in 1 .. Len(wire') : KnownNext(wire'[i])
  <2>1. ASSUME NEW o \in Objects, Publish(o) PROVE \A i \in 1 .. Len(wire') : KnownNext(wire'[i])
    <3>1. CASE wire' = wire
      BY <1>4, <3>1
    <3>2. CASE wire' = Append(wire, o) /\ o = object'
      BY <1>o, <1>2, <1>4, <3>2, AppendProperties
    <3>3. QED
      BY <2>1, <3>1, <3>2 DEF Publish
  <2>2. CASE OthersWrite \/ OthersRemove \/ OthersRecreate \/ WriteLands
    <3>1. PICK o : Publish(o)
      BY <2>2 DEF OthersWrite, OthersRemove, OthersRecreate, WriteLands
    <3>2. o \in Objects
      BY <1>o, <3>1 DEF Publish
    <3>3. QED
      BY <2>1, <3>1, <3>2
  <2>3. CASE Deliver
    BY <1>o, <1>4, <2>3, HeadTailProperties DEF Deliver
  <2>4. CASE wire' = <<>>
    BY <2>4
  <2>5. CASE UNCHANGED wire
    BY <1>4, <2>5
  <2>6. ASSUME Connect \/ Break \/ Retry \/ PageRead \/ StaleAnswered
        PROVE  wire' = <<>> \/ UNCHANGED wire
    BY <2>6 DEF Connect, Break, Retry, Reconnect, PageRead, StaleAnswered, Ask, apiVars
  <2>7. ASSUME \/ Types \/ PageReadAnswered \/ PageReadFails \/ \E slot \in Slots : SeedKey(slot)
               \/ \E who \in Readers : ReadServed(who)
        PROVE  UNCHANGED wire
    BY <2>7 DEF Types, Type, SetProvider, ApplyServerValue, KeepMine, SetPendingKey, OnForm, SeedKey,
                PageReadAnswered, PageReadFails, ReadFails, ReadServed, apiVars
  <2>8. ASSUME \/ Press \/ SettingsAsked \/ CommitAsked \/ WriteStale \/ WriteRefused
               \/ WriteAnswered \/ WriteFailed \/ Reread \/ Refreshed \/ PressReadFails
               \/ KeyWritten \/ KeyRefused \/ KeyAnswered
        PROVE  UNCHANGED wire
    BY <2>8 DEF Press, SettingsAsked, CommitAsked, WriteStale, WriteRefused, WriteAnswered,
                WriteFailed, Reread, Refreshed, PressReadFails, ReadFails, KeyWritten, KeyRefused,
                KeyAnswered, apiVars
  <2>9. QED
    BY <2>2, <2>3, <2>4, <2>5, <2>6, <2>7, <2>8 DEF Next, Others, Answers, PageReads, Readers
<1>9. QED
  BY <1>5, <1>6, <1>7, <1>8 DEF History, Known, Readers

(* The page keeps the first uid it saw.                                    *)
LEMMA UidStays == TypeOK /\ Next /\ uid # 0 => uid' = uid
<1>1. ASSUME NEW o, Take(o), uid # 0 PROVE uid' = uid
  BY <1>1 DEF Take
<1>2. QED
  BY <1>1, StoreSays DEF storeVars

LEMMA AimedStep == EditInv /\ Next => Aimed'
<1> SUFFICES ASSUME EditInv, Next, at' \in {"ask", "write"}
             PROVE  intent'.to.uid = uid' /\ uid' # 0
  BY DEF Aimed
<1>t. TypeOK /\ Aimed
  BY DEF EditInv
<1>1. CASE at \in {"ask", "write"} /\ intent' = intent
  BY <1>t, <1>1, UidStays DEF Aimed
<1>2. ASSUME BeginSave, UNCHANGED storeVars PROVE intent'.to.uid = uid' /\ uid' # 0
  <2>1. CaptureSave.to = server
    BY DEF CaptureSave, Intent
  <2>2. CanSave /\ intent' = CaptureSave
    BY <1>2 DEF BeginSave
  <2>3. QED
    BY <1>2, <2>1, <2>2 DEF CanSave, Available, storeVars
<1>4. CASE Press \/ SettingsAsked
  <2>1. UNCHANGED storeVars
    BY <1>4 DEF Press, SettingsAsked
  <2>2. ~NextKey(left)
    BY DEF NextKey
  <2>3. BeginSave
    BY <1>4, <2>2 DEF Press, SettingsAsked
  <2>4. QED
    BY <1>2, <2>1, <2>3
<1>5. CASE Reread
  <2>1. ~needsRead' /\ at' = "write" /\ intent' = CaptureSave'
    BY <1>5 DEF Reread
  <2>2. Accepted("press") /\ Take(reads["press"].object)
    BY <1>5, <2>1 DEF Reread, Reconcile
  <2>3. uid # 0 /\ reads["press"].object.uid = uid
    BY <2>2 DEF Accepted, Replaced, Available
  <2>4. server'.uid = uid' /\ uid' # 0
    BY <2>2, <2>3 DEF Take
  <2>5. intent'.to = server'
    BY <2>1 DEF CaptureSave, Intent
  <2>6. QED
    BY <2>4, <2>5
<1>6. CASE CommitAsked
  BY <1>1, <1>6 DEF CommitAsked, intentVars
<1>7. ASSUME Others \/ Types \/ PageReads PROVE UNCHANGED <<at, intent>>
  BY <1>7 DEF Others, OthersWrite, OthersRemove, OthersRecreate, SeedKey, Elsewhere,
              Types, Type, SetProvider, ApplyServerValue, KeepMine, SetPendingKey, OnForm,
              PageReads, PageRead, ReadServed, PageReadAnswered, PageReadFails, ReadFails,
              pressVars, intentVars
<1>8. ASSUME Deliver \/ Connect \/ Break \/ Retry \/ ReadServed("press")
      PROVE  UNCHANGED <<at, intent>>
  BY <1>8 DEF Deliver, Connect, Break, Retry, ReadServed, pressVars, intentVars
<1>9. ASSUME \/ WriteLands \/ WriteStale \/ WriteRefused \/ WriteAnswered \/ WriteFailed
             \/ StaleAnswered \/ Refreshed \/ PressReadFails \/ KeyWritten \/ KeyRefused
             \/ KeyAnswered
      PROVE  FALSE
  BY <1>9 DEF WriteLands, WriteStale, WriteRefused, WriteAnswered, WriteFailed, StaleAnswered,
              Refreshed, PressReadFails, KeyWritten, KeyRefused, KeyAnswered, NextKey
<1>10. QED
  BY <1>t, <1>1, <1>4, <1>5, <1>6, <1>7, <1>8, <1>9 DEF Next, Answers

LEMMA CaughtStep == EditInv /\ Next => Caught'
<1> SUFFICES ASSUME EditInv, Next PROVE Caught'
  OBVIOUS
<1>t. TypeOK /\ TypeOK' /\ Caught
  BY NextTypes DEF EditInv
<1>o. /\ object \in Objects /\ object' \in Objects /\ wire \in Seq(Objects)
      /\ reads \in [Readers -> ReadStates]
  BY <1>t DEF TypeOK, Readers, ReadStates
<1>1. ASSUME NEW o, Publish(o), UNCHANGED stream PROVE Caught'
  <2>1. SUFFICES ASSUME stream = "live" PROVE wire' # <<>> /\ wire'[Len(wire')] = object'
    BY <1>1 DEF Caught
  <2>2. wire' = Append(wire, object')
    BY <1>1, <2>1 DEF Publish
  <2>3. QED
    BY <1>o, <2>2, AppendProperties
<1>2. CASE OthersWrite \/ OthersRemove \/ OthersRecreate \/ WriteLands
  BY <1>1, <1>2 DEF OthersWrite, OthersRemove, OthersRecreate, WriteLands, Elsewhere, pageVars
<1>3. ASSUME Take(object), object' = object, reads' = Overtaken, wire' = <<>> PROVE Caught'
  <2>1. uid' = object.uid /\ uid' # 0 => server' = object
    BY <1>3 DEF Take
  <2>2. \A who \in Readers : ~reads'[who].fresh
    BY <1>3 DEF Overtaken, Read, Readers
  <2>3. QED
    BY <1>3, <2>1, <2>2 DEF Caught, Readers
<1>4. CASE Deliver
  <2>1. wire # <<>> /\ stream = "live" /\ wire[Len(wire)] = object
    BY <1>t, <1>4 DEF Deliver, Caught
  <2>2. CASE Len(wire) = 1
    <3>1. Head(wire) = object /\ wire' = <<>>
      BY <1>o, <1>4, <2>1, <2>2, HeadTailProperties, EmptySeq DEF Deliver
    <3>2. QED
      BY <1>3, <1>4, <3>1 DEF Deliver
  <2>3. CASE Len(wire) # 1
    <3>1. Len(wire) \in Nat /\ Len(wire) > 1
      <4>1. Len(wire) \in Nat /\ Len(wire) # 0
        BY <1>o, <2>1, EmptySeq, LenProperties
      <4>2. \A n \in Nat : n # 0 /\ n # 1 => n > 1
        OBVIOUS
      <4>3. QED
        BY <2>3, <4>1, <4>2, Zenon
    <3>2. /\ wire' \in Seq(Objects) /\ Len(wire') = Len(wire) - 1
          /\ \A i \in 1 .. Len(wire') : wire'[i] = wire[i + 1]
      BY <1>o, <1>4, <2>1, HeadTailProperties DEF Deliver
    <3>3. wire' # <<>> /\ wire'[Len(wire')] = wire[Len(wire)]
      BY <3>1, <3>2
    <3>4. QED
      BY <1>4, <2>1, <3>3 DEF Deliver, Caught
  <2>4. QED
    BY <2>2, <2>3
<1>5. CASE Connect
  BY <1>3, <1>5 DEF Connect
<1>6. CASE stream' # "live"
  BY <1>6 DEF Caught
<1>7. ASSUME Break \/ Retry PROVE stream' # "live"
  BY <1>7 DEF Break, Retry, Reconnect, Follow
(* A read that is sent, dropped or still out leaves the rest as it was.    *)
<1>8. ASSUME UNCHANGED <<object, wire, stream, uid, server>>,
             \A who \in Readers : \/ reads'[who] = reads[who]
                                  \/ reads'[who].state # "served"
                                  \/ reads'[who].object = object
      PROVE  Caught'
  BY <1>t, <1>8 DEF Caught, Readers
<1>9. ASSUME NEW who \in Readers, NEW r, reads' = [reads EXCEPT ![who] = r],
             r.state # "served" \/ r.object = object
      PROVE  \A w \in Readers : \/ reads'[w] = reads[w]
                                \/ reads'[w].state # "served"
                                \/ reads'[w].object = object
  BY <1>o, <1>9
<1>10. ASSUME NEW who \in Readers, ReadServed(who) PROVE Caught'
  <2>1. UNCHANGED <<object, wire, stream, uid, server>>
    BY <1>10 DEF ReadServed, apiVars, pageVars, storeVars
  <2>2. reads' = [reads EXCEPT ![who] = Read("served", reads[who].fresh, object)]
    BY <1>10 DEF ReadServed
  <2>3. QED
    BY <1>8, <1>9, <2>1, <2>2 DEF Read
<1>11. CASE PageReadFails \/ PressReadFails
  <2>1. PICK who \in Readers : ReadFails(who)
    BY <1>11 DEF PageReadFails, PressReadFails, Readers
  <2>2. UNCHANGED <<object, wire, stream, uid, server>>
    BY <2>1 DEF ReadFails, apiVars, pageVars, storeVars
  <2>3. reads' = [reads EXCEPT ![who] = NoRead]
    BY <2>1 DEF ReadFails
  <2>4. QED
    BY <1>8, <1>9, <2>2, <2>3 DEF NoRead, Read
<1>12. ASSUME NEW who \in Readers, Ask(who), UNCHANGED storeVars PROVE Caught'
  <2>1. CASE Available
    <3>1. UNCHANGED <<object, wire, stream, uid, server>>
      BY <1>12, <2>1 DEF Ask, apiVars, pageVars, storeVars
    <3>2. reads' = [reads EXCEPT ![who] = Read("sent", TRUE, NoObject)]
      BY <1>12, <2>1 DEF Ask
    <3>3. QED
      BY <1>8, <1>9, <3>1, <3>2 DEF Read
  <2>2. CASE ~Available
    BY <1>6, <1>12, <2>2 DEF Ask, Reconnect, Follow
  <2>3. QED
    BY <2>1, <2>2
<1>13. CASE PageRead \/ StaleAnswered
  BY <1>12, <1>13 DEF PageRead, StaleAnswered, Readers
<1>14. ASSUME BeginSave, UNCHANGED <<object, wire, stream, uid, server>> PROVE Caught'
  <2>1. \/ UNCHANGED reads
        \/ reads' = [reads EXCEPT !["press"] = Read("sent", TRUE, NoObject)]
    BY <1>14 DEF BeginSave, readVars
  <2>2. QED
    BY <1>8, <1>9, <1>14, <2>1 DEF Read, Readers
<1>15. CASE Press \/ SettingsAsked
  <2>1. UNCHANGED <<object, wire, stream, uid, server>>
    BY <1>15 DEF Press, SettingsAsked, apiVars, pageVars, storeVars
  <2>2. BeginSave \/ UNCHANGED reads
    BY <1>15 DEF Press, SettingsAsked, readVars
  <2>3. QED
    BY <1>8, <1>14, <2>1, <2>2
<1>16. CASE PageReadAnswered \/ Reread \/ Refreshed
  <2>1. PICK who \in Readers : Reconcile(who)
    BY <1>16 DEF PageReadAnswered, Reread, Refreshed, Readers
  <2>2. UNCHANGED <<object, wire, stream>>
    BY <1>16 DEF PageReadAnswered, Reread, Refreshed, apiVars, pageVars
  <2>3. reads' = [reads EXCEPT ![who] = NoRead]
    BY <2>1 DEF Reconcile
  <2>4. CASE UNCHANGED storeVars
    BY <1>8, <1>9, <2>2, <2>3, <2>4 DEF NoRead, Read, storeVars
  <2>5. CASE Accepted(who) /\ Take(reads[who].object)
    <3>1. SUFFICES ASSUME stream = "live", wire = <<>> PROVE Caught'
      BY <1>t, <2>2 DEF Caught
    <3>2. reads[who].object = object
      BY <1>t, <2>1, <2>5, <3>1 DEF Caught, Reconcile, Accepted
    <3>3. uid' = object.uid /\ uid' # 0 => server' = object
      BY <2>5, <3>2 DEF Take
    <3>4. \A w \in Readers : reads'[w] = reads[w] \/ reads'[w].state # "served"
      BY <1>o, <2>3 DEF NoRead, Read
    <3>5. QED
      BY <1>t, <2>2, <3>1, <3>3, <3>4 DEF Caught, Readers
  <2>6. QED
    BY <2>1, <2>4, <2>5 DEF Reconcile
<1>17. ASSUME Types \/ \E slot \in Slots : SeedKey(slot)
       PROVE  UNCHANGED <<object, wire, stream, uid, server, reads>>
  BY <1>17 DEF Types, Type, SetProvider, ApplyServerValue, KeepMine, SetPendingKey, OnForm, Become,
               SeedKey, Elsewhere, apiVars, pageVars, storeVars, readVars
<1>18. ASSUME \/ CommitAsked \/ WriteStale \/ WriteRefused \/ WriteAnswered \/ WriteFailed
              \/ KeyWritten \/ KeyRefused \/ KeyAnswered
       PROVE  UNCHANGED <<object, wire, stream, uid, server, reads>>
  BY <1>18 DEF CommitAsked, WriteStale, WriteRefused, WriteAnswered, AfterSave, WriteFailed,
               KeyWritten, KeyRefused, KeyAnswered, apiVars, pageVars, storeVars, readVars
<1>19. ASSUME UNCHANGED <<object, wire, stream, uid, server, reads>> PROVE Caught'
  BY <1>8, <1>19
<1>20. QED
  BY <1>2, <1>4, <1>5, <1>6, <1>7, <1>10, <1>11, <1>13, <1>15, <1>16, <1>17, <1>18, <1>19
     DEF Next, Others, Answers, PageReads, Readers

LEMMA KeptStep == EditInv /\ Next => Kept'
<1>1. ASSUME NEW o, Kept, Take(o) PROVE Kept'
  BY <1>1 DEF Take, Kept, NoEdits
<1>2. QED
  BY <1>1, StoreSays DEF EditInv, Kept, NoEdits, storeVars

LEMMA InitEdit == Init => EditInv
<1> SUFFICES ASSUME Init PROVE EditInv
  OBVIOUS
<1>1. TypeOK
  BY InitTypes
<1>2. History
  BY DEF Init, History, Known, NoObject, Object, Intent, Readers, NoRead, Read
<1>3. Aimed /\ Caught /\ Kept
  BY DEF Init, Aimed, Caught, Kept
<1>4. QED
  BY <1>1, <1>2, <1>3 DEF EditInv

LEMMA NextEdit == EditInv /\ [Next]_vars => EditInv'
<1> SUFFICES ASSUME EditInv, [Next]_vars PROVE EditInv'
  OBVIOUS
<1>1. TypeOK'
  BY NextTypes DEF EditInv
<1>2. CASE Next
  BY <1>1, <1>2, HistoryStep, AimedStep, CaughtStep, KeptStep DEF EditInv
<1>3. CASE UNCHANGED vars
  BY <1>1, <1>3 DEF EditInv, History, Known, Aimed, Caught, Kept, Readers,
                    vars, apiVars, pageVars, storeVars, readVars, pressVars, intentVars
<1>4. QED
  BY <1>2, <1>3

LEMMA EditInvariance == Spec => []EditInv
BY InitEdit, NextEdit, PTL DEF Spec

-----------------------------------------------------------------------------
(* A page that says it is live shows the object as it is, once nothing is  *)
(* on the wire: no read takes it back (refreshFromServer).                 *)
THEOREM LiveIsCurrent == Spec => []LiveMeansCurrent
<1>1. EditInv => LiveMeansCurrent
  BY DEF EditInv, Caught, LiveMeansCurrent
<1>2. QED
  BY <1>1, EditInvariance, PTL

(* A write that lands is over the spec it was made from, so it changes     *)
(* what this person edited and nothing they were not shown                 *)
(* (kube.ts, conditionalPatch).                                            *)
THEOREM NothingOverwritten == Spec => NoLostUpdate
<1>1. ASSUME EditInv, WriteLands
      PROVE  /\ object.uid = uid
             /\ \A f \in Fields : object'.spec[f] # object.spec[f] =>
                  /\ object.spec[f] = intent.to.spec[f]
                  /\ intent.values[f] # intent.to.spec[f]
  <2>1. at = "write" /\ object.uid # 0 /\ object.uid = intent.to.uid /\ object.rev = intent.to.rev
    BY <1>1 DEF WriteLands, Matches
  <2>2. object.spec = intent.to.spec
    BY <1>1, <2>1 DEF EditInv, History, Known
  <2>3. object.uid = uid
    BY <1>1, <2>1 DEF EditInv, Aimed
  <2>4. object'.spec = Patched(object)
    BY <1>1 DEF WriteLands, Publish, Object
  <2>5. QED
    BY <2>2, <2>3, <2>4 DEF Patched
<1>2. QED
  BY <1>1, EditInvariance, PTL DEF NoLostUpdate

(* What somebody typed is not lost by anything but their own hand          *)
(* (liveEditableResource.ts, refresh).                                     *)
THEOREM EditsAreKept == Spec => EditsSurvive
<1>1. EditInv /\ [Next]_vars =>
        \A f \in Fields : mine[f] # Untouched =>
          \/ mine'[f] = mine[f]
          \/ server'.uid # 0 /\ server'.spec[f] = mine[f]
          \/ server'.uid = 0 /\ recovery'[f] = mine[f]
          \/ Types
  <2>1. SUFFICES ASSUME EditInv, [Next]_vars, ~Types, NEW f \in Fields, mine[f] # Untouched
                 PROVE  \/ mine'[f] = mine[f]
                        \/ server'.uid # 0 /\ server'.spec[f] = mine[f]
                        \/ server'.uid = 0 /\ recovery'[f] = mine[f]
    OBVIOUS
  <2>2. recovery = mine
    BY <2>1 DEF EditInv, Kept, NoEdits
  <2>3. ASSUME NEW o, Take(o)
        PROVE  \/ mine'[f] = mine[f]
               \/ server'.uid # 0 /\ server'.spec[f] = mine[f]
               \/ server'.uid = 0 /\ recovery'[f] = mine[f]
    BY <2>1, <2>2, <2>3 DEF Take, Merge, NoObject, Object
  <2>4. CASE UNCHANGED vars
    BY <2>4 DEF vars, storeVars
  <2>5. CASE Next
    BY <2>1, <2>3, <2>5, StoreSays DEF EditInv, storeVars
  <2>6. QED
    BY <2>1, <2>4, <2>5
<1>2. QED
  BY <1>1, EditInvariance, PTL DEF Spec, EditsSurvive
=============================================================================
