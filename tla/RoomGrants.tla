----------------------------- MODULE RoomGrants -----------------------------
(***************************************************************************)
(* One of the operator's switches on /room, while a second operator or a   *)
(* terminal changes the same RoleBindings.  Each switch shows what the     *)
(* bindings say, reads them again when one changes, after a pause, or when *)
(* its backup timer runs, and is pressed: a press is a few requests, each  *)
(* of which others may come between.                                       *)
(*                                                                         *)
(*   "ballot"  BallotSwitches.vue: which groups may vote.  A read is also  *)
(*             announced to the phones, as a marker on the rounds.         *)
(*   "coffee"  RoomScreen.vue, the menu for the whole room.                *)
(*   "seats"   SeatSwitches.vue, one of its two switches.                  *)
(*   "person"  PickSomeone.vue: one person who holds a grant.              *)
(*                                                                         *)
(* They share no state but the list of bindings, and each has bindings of  *)
(* its own in it, so a behaviour has one of them.                          *)
(***************************************************************************)
EXTENDS Naturals, FiniteSets

CONSTANTS
  Who,          \* whom a binding may name: groups, or people
  Controls,     \* which switches
  Unset,        \* a marker nobody wrote yet
  MaxChanges    \* bound: presses, changes from elsewhere, refusals

GrantAssumption ==
  /\ Controls \subseteq {"ballot", "coffee", "seats", "person"}
  /\ MaxChanges \in Nat /\ "person" \notin Who /\ "hand" \notin Who /\ "role" \notin Who

VARIABLES
  control,    \* which switch this is
  bindings,   \* the bindings to its Role: their names and whom they name
  marker,     \* BALLOT_GROUPS_ANNOTATION on the round
  shown,      \* open, granted, granted[key] or holder
  busy,       \* busy, grantBusy
  press,      \* the press in flight
  asked,      \* the reads in flight: refresh, refreshGrant
  rung,       \* a binding changed, and the listeners have yet to be told
  changes     \* how much of MaxChanges is used

pageVars == <<control, shown, busy, press, asked, rung>>
grantVars == <<pageVars, bindings, marker, changes>>

Reads == {1, 2}       \* bound: reads in flight at a time
Binding(name, who) == [name |-> name, who |-> who]

-----------------------------------------------------------------------------
(* What the bindings say.                                                  *)

(* The API server lists by name, and personGrant takes the first.          *)
Foremost(list) ==
  {b \in list : b.name = "hand" \/ \A c \in list : c.name # "hand"}

(* ballotGroups, getAudienceGrant, personGrant.                            *)
Reading(list) ==
  IF control \in {"coffee", "seats"}
  THEN {b.name : b \in {c \in list : c.name = "role"}}
  ELSE UNION {b.who : b \in IF control = "person" THEN Foremost(list) ELSE list}

(* The binding a press makes: one per group, one for the room, one person. *)
Made(arg) ==
  CASE control = "ballot" -> Binding(arg, {arg})
    [] control = "person" -> Binding("person", {arg})
    [] OTHER -> Binding("role", Who)

(* Whom a press may be about.                                              *)
Args == IF control \in {"coffee", "seats"} THEN {"role"} ELSE Who

Put(list) ==
  /\ bindings' = list
  /\ rung' = (rung \/ list # bindings)

Change == changes < MaxChanges /\ changes' = changes + 1

(* kubectl, or the same page elsewhere.                                    *)
OthersChange ==
  /\ Change
  /\ \/ \E b \in bindings : Put(bindings \ {b})
     \/ \E arg \in Args : /\ \A b \in bindings : b.name # Made(arg).name
                          /\ Put(bindings \cup {Made(arg)})
     \/ /\ control \in {"ballot", "person"} /\ \A b \in bindings : b.name # "hand"
        /\ \E who \in SUBSET Who : /\ control = "person" => Cardinality(who) = 1
                                   /\ Put(bindings \cup {Binding("hand", who)})
  /\ UNCHANGED <<control, shown, busy, press, asked, marker>>

-----------------------------------------------------------------------------
(* Reading the bindings again.                                             *)

NoRead == [at |-> "none", list |-> {}]
Start(slot) == asked' = [asked EXCEPT ![slot] = [at |-> "sent", list |-> {}]]
FreeReads == {slot \in Reads : asked[slot].at = "none"}

(* onGrantChange: the stream's event, once its debounce is over; and the   *)
(* timer, every two minutes beside the stream, every five seconds without. *)
Told ==
  /\ rung /\ rung' = FALSE
  /\ \E slot \in FreeReads : Start(slot)
  /\ UNCHANGED <<control, shown, busy, press, bindings, marker, changes>>

Poll ==
  /\ \E slot \in FreeReads : Start(slot)
  /\ UNCHANGED <<control, shown, busy, press, rung, bindings, marker, changes>>

ReadServed(slot) ==
  /\ asked[slot].at = "sent"
  /\ asked' = [asked EXCEPT ![slot] = [at |-> "served", list |-> bindings]]
  /\ UNCHANGED <<control, shown, busy, press, rung, bindings, marker, changes>>

(* A switch in flight is corrected by its own answer, not by a read that   *)
(* may have started before it; only the coffee switch does not look.       *)
Shows == control = "coffee" \/ ~busy

(* Mutant: announced only when this page had it otherwise.                 *)
AnnouncesNews(groups) == Shows /\ groups # shown

(* refresh rings every phone's doorbell, however the truth moved.          *)
Announces(groups) == Shows

ReadAnswered(slot) ==
  /\ asked[slot].at = "served"
  /\ LET groups == Reading(asked[slot].list)
     IN /\ shown' = IF Shows THEN groups ELSE shown
        /\ asked' = [asked EXCEPT ![slot] = IF control = "ballot" /\ Announces(groups)
                                            THEN [@ EXCEPT !.at = "announce"] ELSE NoRead]
  /\ UNCHANGED <<control, busy, press, rung, bindings, marker, changes>>

(* announceBallotGroups: the rounds are read, and patched if they differ.  *)
RoundsRead(slot) ==
  /\ asked[slot].at = "announce"
  /\ asked' = [asked EXCEPT ![slot] = IF marker = Reading(@.list) THEN NoRead
                                      ELSE [@ EXCEPT !.at = "patch"]]
  /\ UNCHANGED <<control, shown, busy, press, rung, bindings, marker, changes>>

RoundPatched(slot) ==
  /\ asked[slot].at = "patch"
  /\ marker' = Reading(asked[slot].list)
  /\ asked' = [asked EXCEPT ![slot] = NoRead]
  /\ UNCHANGED <<control, shown, busy, press, rung, bindings, changes>>

ReadFails(slot) ==
  /\ Change /\ asked[slot].at # "none"
  /\ asked' = [asked EXCEPT ![slot] = NoRead]
  /\ UNCHANGED <<control, shown, busy, press, rung, bindings, marker>>

-----------------------------------------------------------------------------
(* A press, one request after another.                                     *)

Idle == [at |-> "idle", arg |-> "role", on |-> FALSE, before |-> {}, todo |-> {}]
Step(at, todo) == press' = [press EXCEPT !.at = at, !.todo = todo]
OnlyPress == UNCHANGED <<control, shown, busy, asked, marker>>

(* toggle and toggleGrant move the switch at once; pick and revoke wait.   *)
(* To take away a grant of a group or a person, or move it, is to list     *)
(* first.                                                                  *)
Press(arg, on) ==
  /\ ~busy /\ Change
  /\ control = "person" => shown # {} \/ on
  /\ control # "person" => on = (arg \notin shown)
  /\ busy' = TRUE
  /\ shown' = IF control = "person" THEN shown ELSE IF on THEN shown \cup {arg} ELSE shown \ {arg}
  /\ press' = [at |-> IF control = "person" \/ (control = "ballot" /\ ~on) THEN "list"
                      ELSE IF on THEN "create" ELSE "delete",
               arg |-> arg, on |-> on, before |-> shown,
               todo |-> IF control \in {"coffee", "seats"} /\ ~on THEN {"role"} ELSE {}]
  /\ UNCHANGED <<control, asked, rung, bindings, marker>>

(* setBallotGrant: what names only this group goes, including what was     *)
(* made by hand.  revokePerson: whoever holds it, and the page's own name. *)
Doomed(list) ==
  IF control = "ballot" THEN {b.name : b \in {c \in list : c.who = {press.arg}}}
  ELSE {b.name : b \in Foremost(list)} \cup {"person"}

PressListed ==
  /\ press.at = "list" /\ Step("delete", Doomed(bindings))
  /\ OnlyPress /\ UNCHANGED <<rung, bindings, changes>>

(* deleteQuietly: already gone is the state that was asked for.            *)
Deleted ==
  /\ press.at = "delete" /\ press.todo # {}
  /\ \E name \in press.todo :
       /\ Put({b \in bindings : b.name # name})
       /\ Step("delete", press.todo \ {name})
  /\ OnlyPress /\ UNCHANGED changes

DeletedAll ==
  /\ press.at = "delete" /\ press.todo = {}
  /\ Step(IF control = "person" /\ press.on THEN "create" ELSE "done", {})
  /\ OnlyPress /\ UNCHANGED <<rung, bindings, changes>>

(* Already granted is the state that was asked for, but of a person: there *)
(* it may be somebody else's.                                              *)
Created ==
  /\ press.at = "create"
  /\ LET name == Made(press.arg).name
     IN IF \E b \in bindings : b.name = name
        THEN /\ Step(IF control = "person" THEN "failed" ELSE "done", {})
             /\ UNCHANGED <<rung, bindings>>
        ELSE /\ Put(bindings \cup {Made(press.arg)})
             /\ Step(IF control = "person" THEN "look" ELSE "done", {})
  /\ OnlyPress /\ UNCHANGED changes

(* Any of them is refused, or fails with what it did done or not.          *)
PressFails ==
  /\ press.at \in {"list", "delete", "create", "look"} /\ Change
  /\ Step("failed", {})
  /\ OnlyPress /\ UNCHANGED <<rung, bindings>>

(* The ballot switch reads again when its press is over, not left to the   *)
(* binding's own event.                                                    *)
Over(now) ==
  /\ press' = Idle /\ busy' = FALSE /\ shown' = now
  /\ IF control = "ballot" THEN \E slot \in FreeReads : Start(slot) ELSE UNCHANGED asked
  /\ UNCHANGED <<control, rung, bindings, marker, changes>>

PressAnswered ==
  \/ press.at = "look" /\ Over(Reading(bindings))
  \/ press.at = "done" /\ Over(IF control = "person" THEN {} ELSE
                               IF control = "ballot" THEN shown ELSE
                               IF press.on THEN {"role"} ELSE {})
  \/ press.at = "failed" /\ Over(IF control = "person" THEN shown ELSE press.before)

-----------------------------------------------------------------------------
GrantsInit ==
  /\ control \in Controls
  /\ bindings = {} /\ marker = Unset
  /\ shown = {} /\ busy = FALSE /\ press = Idle
  /\ asked = [slot \in Reads |-> IF slot = 1 THEN [NoRead EXCEPT !.at = "sent"] ELSE NoRead]
  /\ rung = FALSE /\ changes = 0

Requests(slot) ==
  ReadServed(slot) \/ ReadAnswered(slot) \/ RoundsRead(slot) \/ RoundPatched(slot)

PressSteps == PressListed \/ Deleted \/ DeletedAll \/ Created \/ PressAnswered

GrantsNext ==
  \/ OthersChange \/ Told \/ Poll \/ PressSteps \/ PressFails
  \/ \E slot \in Reads : Requests(slot) \/ ReadFails(slot)
  \/ \E arg \in Args, on \in BOOLEAN : Press(arg, on)

(* Requests are answered, the timer runs; nobody has to press anything.    *)
GrantsFairness ==
  /\ WF_grantVars(Told) /\ WF_grantVars(Poll)
  /\ SF_grantVars(PressSteps)
  /\ \A slot \in Reads : WF_grantVars(Requests(slot))

GrantsSpec == GrantsInit /\ [][GrantsNext]_grantVars /\ GrantsFairness

(* Once nobody changes anything any more, the switch comes to show what    *)
(* the bindings say and stays so, and so does the marker the phones wait   *)
(* for, whatever was read, pressed and refused on the way and in which     *)
(* order the answers came (RoomScreen.vue: so the switch still tells the   *)
(* truth if the binding is changed from a terminal or by a second          *)
(* operator).                                                              *)
RoomSettles ==
  <>[](shown = Reading(bindings) /\ (control = "ballot" => marker = Reading(bindings)))
=============================================================================
