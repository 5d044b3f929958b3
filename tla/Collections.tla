----------------------------- MODULE Collections -----------------------------
(***************************************************************************)
(* The pages that list a kind of object, which is read once, and again on  *)
(* request, and followed on a stream: the rounds (HomeScreen.vue) and the  *)
(* database requests (DatabasesScreen.vue), with the form that files       *)
(* another request (DatabaseNewScreen.vue).  Others make, change and       *)
(* remove the objects meanwhile, the stream breaks and comes back, and the *)
(* answer to a read may be older than what the stream has said since.      *)
(*                                                                         *)
(* An object is a name and what there is to see of it.  A form's optional  *)
(* fields and its sentences are left out.                                  *)
(***************************************************************************)
EXTENDS Naturals, Sequences, FiniteSets

CONSTANTS
  Names,       \* of objects, and what may be typed as one
  BadName,     \* what NAME_PATTERN refuses
  Required,    \* the fields of DATABASE_FIELDS that the CRD requires
  MaxActs      \* bound: what people do, breaks and failures, all together

CollectionAssumption == MaxActs \in Nat /\ BadName \notin Names

Drafted == "draft"      \* a round that is not for the room yet
Objects == [name : Names, is : {"draft", "live", "closed"}]

VARIABLES
  kind,       \* "rounds" or "databases"
  listed,     \* the objects in the API
  follow,     \* useLiveResources: synced, its items, and what is on its way
  once,       \* rounds, read: the last REST read
  refresh,    \* refresh in flight
  tab,        \* the page: "list", "new" or "edit"
  form,       \* the new request: its name, the fields filled, those marked
  filing,     \* create in flight: where it is, and the name it was sent with
  acts        \* how much of MaxActs is used

listVars == <<follow, once, refresh>>
collectionVars == <<kind, listed, listVars, tab, form, filing, acts>>

Act == acts < MaxActs /\ acts' = acts + 1

-----------------------------------------------------------------------------
(* The API.                                                                *)

Named(set, name) == {o \in set : o.name = name}

Put(set) ==
  /\ listed' = set
  /\ follow' = IF follow.synced THEN [follow EXCEPT !.wire = Append(@, set)] ELSE follow

(* What a database looks like does not matter here.                        *)
Others ==
  /\ Act
  /\ \E o \in Objects :
       /\ kind = "databases" => o.is = "live"
       /\ Put(IF o \in listed THEN listed \ {o} ELSE (listed \ Named(listed, o.name)) \cup {o})
  /\ UNCHANGED <<kind, once, refresh, tab, form, filing>>

-----------------------------------------------------------------------------
(* The list.                                                               *)

NoFollow == [synced |-> FALSE, items |-> {}, wire |-> <<>>]
NoRefresh == [at |-> "none", items |-> {}]

Synced ==
  /\ tab = "list" /\ ~follow.synced
  /\ follow' = [synced |-> TRUE, items |-> listed, wire |-> <<>>]
  /\ UNCHANGED <<kind, listed, once, refresh, tab, form, filing, acts>>

Event ==
  /\ follow.synced /\ follow.wire # <<>>
  /\ follow' = [follow EXCEPT !.items = Head(follow.wire), !.wire = Tail(follow.wire)]
  /\ UNCHANGED <<kind, listed, once, refresh, tab, form, filing, acts>>

Breaks ==
  /\ Act /\ follow.synced /\ follow' = [follow EXCEPT !.synced = FALSE, !.wire = <<>>]
  /\ UNCHANGED <<kind, listed, once, refresh, tab, form, filing>>

PressRefresh ==
  /\ Act /\ tab = "list" /\ refresh.at = "none"
  /\ refresh' = [NoRefresh EXCEPT !.at = "sent"]
  /\ UNCHANGED <<kind, listed, follow, once, tab, form, filing>>

RefreshServed ==
  /\ refresh.at = "sent" /\ refresh' = [at |-> "served", items |-> listed]
  /\ UNCHANGED <<kind, listed, follow, once, tab, form, filing, acts>>

RefreshAnswered ==
  /\ refresh.at = "served" /\ refresh' = NoRefresh /\ once' = refresh.items
  /\ UNCHANGED <<kind, listed, follow, tab, form, filing, acts>>

RefreshFails ==
  /\ Act /\ refresh.at # "none" /\ refresh' = NoRefresh
  /\ UNCHANGED <<kind, listed, follow, once, tab, form, filing>>

(* Mutant: what was read is shown while the stream has nothing to show.    *)
SourceByLength == IF follow.items # {} THEN follow.items ELSE once

(* Once synced, an empty collection is the truth.                          *)
Source == IF follow.synced THEN follow.items ELSE once

(* Drafts are the presenter's.                                             *)
ForTheRoom(set) == IF kind = "rounds" THEN {o \in set : o.is # Drafted} ELSE set
Shown == ForTheRoom(Source)

-----------------------------------------------------------------------------
(* The new request.                                                        *)

NoForm == [name |-> BadName, filled |-> {}, missing |-> {}]
NoFiling == [at |-> "none", name |-> BadName, here |-> FALSE]

(* A page comes up afresh.  What the one before asked goes on without it.  *)
Arrive(to) ==
  /\ tab' = to
  /\ follow' = NoFollow /\ once' = {}
  /\ refresh' = IF to = "list" THEN [NoRefresh EXCEPT !.at = "sent"] ELSE NoRefresh
  /\ form' = NoForm

Open(to) ==
  /\ Act /\ kind = "databases" /\ to # tab /\ Arrive(to)
  /\ filing' = [filing EXCEPT !.here = FALSE]
  /\ UNCHANGED <<kind, listed>>

TypeName(name) ==
  /\ Act /\ tab = "new" /\ name # form.name
  /\ form' = [form EXCEPT !.name = name]
  /\ UNCHANGED <<kind, listed, listVars, tab, filing>>

(* update: a field filled or emptied is not marked any more.               *)
Update(field) ==
  /\ Act /\ tab = "new"
  /\ form' = [form EXCEPT !.filled = IF field \in @ THEN @ \ {field} ELSE @ \cup {field},
                          !.missing = @ \ {field}]
  /\ UNCHANGED <<kind, listed, listVars, tab, filing>>

FindMissing == Required \ form.filled

(* create, up to its first wait (bound: one create in flight).             *)
Create ==
  /\ Act /\ tab = "new" /\ filing.at = "none"
  /\ form' = [form EXCEPT !.missing = FindMissing]
  /\ filing' = IF form.name = BadName \/ FindMissing # {} THEN filing
               ELSE [at |-> "ask", name |-> form.name, here |-> TRUE]
  /\ UNCHANGED <<kind, listed, listVars, tab>>

(* writeWithCommit: the request for a commit comes first, and its lead.    *)
CommitAsked ==
  /\ filing.at = "ask" /\ filing' = [filing EXCEPT !.at = "create"]
  /\ UNCHANGED <<kind, listed, listVars, tab, form, acts>>

(* The form is open all that time, and goes as it is now; a page that was  *)
(* left keeps what it had, which was complete.                             *)
Created ==
  /\ filing.at = "create" /\ Named(listed, filing.name) = {}
  /\ filing.here => FindMissing = {}
  /\ Put(listed \cup {[name |-> filing.name, is |-> "live"]})
  /\ filing' = [filing EXCEPT !.at = "landed"]
  /\ UNCHANGED <<kind, once, refresh, tab, form, acts>>

(* The name is taken, the CRD or RBAC refuses, or no answer comes.         *)
NotCreated ==
  /\ filing.at \in {"create", "landed"}
  /\ \/ filing.at = "create" /\ UNCHANGED acts
        /\ (Named(listed, filing.name) # {} \/ (filing.here /\ FindMissing # {}))
     \/ Act
  /\ filing' = NoFiling
  /\ UNCHANGED <<kind, listed, listVars, tab, form>>

(* On to the request that was filed, from whatever page it is by now.      *)
Filed ==
  /\ filing.at = "landed" /\ Arrive("edit") /\ filing' = NoFiling
  /\ UNCHANGED <<kind, listed, acts>>

-----------------------------------------------------------------------------
CollectionsInit ==
  /\ kind \in {"rounds", "databases"}
  /\ listed \in {{}} \cup {{[name |-> n, is |-> "live"]} : n \in Names}
  /\ follow = NoFollow /\ once = {} /\ refresh = [NoRefresh EXCEPT !.at = "sent"]
  /\ tab = "list" /\ form = NoForm /\ filing = NoFiling /\ acts = 0

CollectionsNext ==
  \/ Others \/ Synced \/ Event \/ Breaks
  \/ PressRefresh \/ RefreshServed \/ RefreshAnswered \/ RefreshFails
  \/ \E to \in {"list", "new"} : Open(to)
  \/ \E name \in Names \cup {BadName} : TypeName(name)
  \/ \E field \in Required : Update(field)
  \/ Create \/ CommitAsked \/ Created \/ NotCreated \/ Filed

CollectionsSpec == CollectionsInit /\ [][CollectionsNext]_collectionVars

(* A list whose stream is synced, with nothing on its way, shows what is   *)
(* there for the room and nothing else, whatever an older read answers and *)
(* whenever (HomeScreen.vue and DatabasesScreen.vue: falling back on       *)
(* length would resurrect a round that had just been deleted).             *)
ListIsTruth ==
  (follow.synced /\ follow.wire = <<>>) => Shown = ForTheRoom(listed)
=============================================================================
