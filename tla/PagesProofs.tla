----------------------------- MODULE PagesProofs -----------------------------
(***************************************************************************)
(* Theorems about the pages: a list that follows a stream (Collections)    *)
(* and a seat that is chosen or changed on a map that moves (Seats), for   *)
(* any objects, places, looks and bounds.  A tab is on one part, so a step *)
(* of the pages is one of that module's, or leaves its variables alone:    *)
(* what is proved of a part by itself holds of the tab.                    *)
(***************************************************************************)
EXTENDS Pages, LiveEditProofs, CommitTrailProofs

-----------------------------------------------------------------------------
(* The tab is on one part at a time, and what it does there is what that   *)
(* part may do: no page's steps reach into another's.                      *)
THEOREM PartsAreKept ==
  PagesSpec => /\ Spec /\ TrailSpec /\ Map!SeatsSpec /\ List!CollectionsSpec
               /\ Room!GrantsInit /\ [][Room!GrantsNext]_(Room!grantVars)
               /\ Bar!StorefrontInit /\ [][Bar!StorefrontNext]_(Bar!barVars)
               /\ Form!FormInit /\ [][Form!FormNext]_(Form!formVars)
               /\ Grants!AuthorizationInit
               /\ [][Grants!AuthorizationNext]_(Grants!authzVars)
<1>1. PagesInit =>
        /\ Init /\ TrailInit /\ Map!SeatsInit /\ List!CollectionsInit
        /\ Room!GrantsInit /\ Bar!StorefrontInit /\ Form!FormInit
        /\ Grants!AuthorizationInit
  BY DEF PagesInit
<1> USE DEF PagesNext, pagesVars, OthersStill
<1>2. [PagesNext]_pagesVars => [Next]_vars
  OBVIOUS
<1>3. [PagesNext]_pagesVars => [TrailNext]_trailVars
  OBVIOUS
<1>4. [PagesNext]_pagesVars => [Map!SeatsNext]_(Map!seatVars)
  BY DEF seatVars, Map!seatVars, Map!roomVars, Map!mapVars, Map!guardVars, Map!tabVars
<1>5. [PagesNext]_pagesVars => [List!CollectionsNext]_(List!collectionVars)
  BY DEF listVars, List!collectionVars, List!listVars
<1>6. [PagesNext]_pagesVars => [Room!GrantsNext]_(Room!grantVars)
  BY DEF roomVars, Room!grantVars, Room!pageVars
<1>7. [PagesNext]_pagesVars => [Bar!StorefrontNext]_(Bar!barVars)
  BY DEF barVars, Bar!barVars, Bar!shopVars, Bar!phoneVars
<1>8. [PagesNext]_pagesVars => [Form!FormNext]_(Form!formVars)
  BY DEF formVars, Form!formVars
<1>9. [PagesNext]_pagesVars => [Grants!AuthorizationNext]_(Grants!authzVars)
  BY DEF grantVars, Grants!authzVars
<1> HIDE DEF PagesNext, pagesVars, OthersStill
<1> QED
  BY <1>1, <1>2, <1>3, <1>4, <1>5, <1>6, <1>7, <1>8, <1>9, PTL
  DEF PagesSpec, Spec, TrailSpec, Map!SeatsSpec, List!CollectionsSpec

(* So what is proved of the editors and of the lines under their Save      *)
(* holds of a tab.                                                         *)
THEOREM TabKeepsEdits ==
  PagesSpec => []TypeOK /\ []LiveMeansCurrent /\ NoLostUpdate /\ EditsSurvive
BY PartsAreKept, EditTypeCorrect, LiveIsCurrent, NothingOverwritten, EditsAreKept, PTL

THEOREM TabKeepsTheTrail == PagesSpec => []TrailIsLatest
BY PartsAreKept, OutcomeIsOfTheLatest, PTL

-----------------------------------------------------------------------------
(* A list and its stream.                                                  *)

LEMMA ListMoves ==
  [PagesNext]_pagesVars => List!CollectionsNext \/ UNCHANGED listVars
  BY DEF PagesNext, pagesVars, OthersStill

(* The form, and what is sent: by the name that was typed, which is one.   *)
FormTyped ==
  /\ form \in [name : Names \cup {BadName}, filled : SUBSET Required,
               missing : SUBSET Required]
  /\ filing \in [at : {"none", "ask", "create", "landed"},
                 name : Names \cup {BadName}, here : BOOLEAN]
  /\ filing.at # "none" => filing.name \in Names

LEMMA FormTypedStep == FormTyped /\ [PagesNext]_pagesVars => FormTyped'
<1> SUFFICES ASSUME FormTyped, List!CollectionsNext \/ UNCHANGED listVars
             PROVE  FormTyped'
  BY ListMoves
<1> USE DEF List!listVars, FormTyped
<1>1. ASSUME \/ List!PressRefresh \/ List!RefreshServed \/ List!RefreshAnswered
             \/ List!RefreshFails \/ List!Others \/ List!Synced \/ List!Event
             \/ List!Breaks \/ UNCHANGED listVars
      PROVE  UNCHANGED <<form, filing>>
  BY <1>1
  DEF List!PressRefresh, List!RefreshServed, List!RefreshAnswered, List!RefreshFails,
      List!Others, List!Synced, List!Event, List!Breaks, listVars
<1>2. ASSUME NEW to, List!Open(to) PROVE FormTyped'
  BY <1>2 DEF List!Open, List!Arrive, List!NoForm
<1>3. ASSUME NEW name \in Names \cup {BadName}, List!TypeName(name) PROVE FormTyped'
  BY <1>3 DEF List!TypeName
<1>4. ASSUME NEW field \in Required, List!Update(field) PROVE FormTyped'
  BY <1>4 DEF List!Update
<1>5. ASSUME List!Create PROVE FormTyped'
  BY <1>5 DEF List!Create, List!FindMissing
<1>6. ASSUME List!CommitAsked \/ List!Created PROVE FormTyped'
  BY <1>6 DEF List!CommitAsked, List!Created
<1>7. ASSUME List!NotCreated \/ List!Filed PROVE FormTyped'
  <2>1. filing' = List!NoFiling /\ (form' = form \/ form' = List!NoForm)
    BY <1>7 DEF List!NotCreated, List!Filed, List!Arrive
  <2> QED
    BY <2>1 DEF List!NoForm, List!NoFiling
<1> QED
  BY <1>1, <1>2, <1>3, <1>4, <1>5, <1>6, <1>7 DEF List!CollectionsNext

(* What the stream holds, with what is on its way, is what there is.       *)
Followed ==
  /\ follow \in [synced : BOOLEAN, items : SUBSET List!Objects,
                 wire : Seq(SUBSET List!Objects)]
  /\ listed \subseteq List!Objects
  /\ follow.synced =>
       IF follow.wire = <<>> THEN follow.items = listed
       ELSE follow.wire[Len(follow.wire)] = listed

LEMMA LastStays ==
  ASSUME NEW S, NEW w \in Seq(S), w # <<>>
  PROVE  /\ Head(w) \in S /\ Tail(w) \in Seq(S)
         /\ IF Tail(w) = <<>> THEN Head(w) = w[Len(w)]
            ELSE Tail(w)[Len(Tail(w))] = w[Len(w)]
<1> DEFINE t == Tail(w)
<1>1. /\ Head(w) \in S /\ t \in Seq(S) /\ Head(w) = w[1]
      /\ Len(w) \in Nat /\ Len(t) = Len(w) - 1
      /\ \A i \in 1..Len(t) : t[i] = w[i + 1]
  BY HeadTailProperties
<1>2. Len(t) \in Nat /\ (t = <<>> <=> Len(t) = 0)
  BY <1>1, EmptySeq, LenProperties
<1> HIDE DEF t
<1>3. CASE t = <<>>
  BY <1>1, <1>2, <1>3 DEF t
<1>4. CASE t # <<>>
  <2>1. Len(t) \in 1..Len(t) /\ Len(t) + 1 = Len(w)
    BY <1>1, <1>2, <1>4
  <2>2. t[Len(t)] = w[Len(w)]
    BY <1>1, <2>1
  <2> QED
    BY <1>1, <1>4, <2>2 DEF t
<1> QED
  BY <1>3, <1>4

LEMMA FollowedPut ==
  ASSUME Followed, NEW set \in SUBSET List!Objects, List!Put(set)
  PROVE  Followed'
<1>1. /\ follow.wire \in Seq(SUBSET List!Objects) /\ listed' = set
      /\ follow' = IF follow.synced THEN [follow EXCEPT !.wire = Append(@, set)] ELSE follow
  BY DEF Followed, List!Put
<1>2. CASE follow.synced
  <2> DEFINE w == Append(follow.wire, set)
  <2>1. w \in Seq(SUBSET List!Objects) /\ w # <<>> /\ w[Len(w)] = set
    BY <1>1
  <2>2. follow' = [follow EXCEPT !.wire = w]
    BY <1>1, <1>2
  <2> HIDE DEF w
  <2> QED
    BY <1>1, <2>1, <2>2 DEF Followed
<1> QED
  BY <1>1, <1>2 DEF Followed

LEMMA FollowedStep ==
  FormTyped /\ Followed /\ [PagesNext]_pagesVars => Followed'
<1> SUFFICES ASSUME FormTyped, Followed, List!CollectionsNext \/ UNCHANGED listVars
             PROVE  Followed'
  BY ListMoves
<1> DEFINE Same == UNCHANGED <<follow, listed>>
           Anew == UNCHANGED listed /\ follow' = List!NoFollow
<1> USE DEF List!listVars
<1>1. ASSUME List!Others PROVE Followed'
  <2>1. PICK o \in List!Objects :
          List!Put(IF o \in listed THEN listed \ {o}
                   ELSE (listed \ List!Named(listed, o.name)) \cup {o})
    BY <1>1 DEF List!Others
  <2> QED
    BY <2>1, FollowedPut DEF Followed
<1>2. ASSUME List!Synced PROVE Followed'
  BY <1>2 DEF List!Synced, Followed
<1>3. ASSUME List!Event PROVE Followed'
  <2> DEFINE w == follow.wire
             h == Head(w)
             t == Tail(w)
  <2>1. /\ follow.synced /\ w # <<>> /\ listed' = listed
        /\ follow' = [follow EXCEPT !.items = h, !.wire = t]
    BY <1>3 DEF List!Event
  <2>2. w \in Seq(SUBSET List!Objects) /\ w[Len(w)] = listed
    BY <2>1 DEF Followed
  <2>3. /\ h \in SUBSET List!Objects /\ t \in Seq(SUBSET List!Objects)
        /\ IF t = <<>> THEN h = listed ELSE t[Len(t)] = listed
    <3> HIDE DEF w
    <3> QED
      BY <2>1, <2>2, LastStays
  <2> HIDE DEF w, h, t
  <2> QED
    BY <2>1, <2>3 DEF Followed
<1>4. ASSUME List!Breaks PROVE Followed'
  <2>1. /\ listed' = listed
        /\ follow' = [follow EXCEPT !.synced = FALSE, !.wire = <<>>]
    BY <1>4 DEF List!Breaks
  <2>2. <<>> \in Seq(SUBSET List!Objects)
    OBVIOUS
  <2> QED
    BY <2>1, <2>2 DEF Followed
<1>5. ASSUME \/ List!PressRefresh \/ List!RefreshServed \/ List!RefreshAnswered
             \/ List!RefreshFails \/ List!Create \/ List!CommitAsked
             \/ List!NotCreated \/ UNCHANGED listVars
      PROVE  Same
  BY <1>5
  DEF List!PressRefresh, List!RefreshServed, List!RefreshAnswered, List!RefreshFails,
      List!Create, List!CommitAsked, List!NotCreated, listVars
<1>6. ASSUME \/ \E name \in Names \cup {BadName} : List!TypeName(name)
             \/ \E field \in Required : List!Update(field)
      PROVE  Same
  BY <1>6 DEF List!TypeName, List!Update
<1>7. ASSUME (\E to \in {"list", "new"} : List!Open(to)) \/ List!Filed PROVE Anew
  BY <1>7 DEF List!Open, List!Filed, List!Arrive
<1>8. ASSUME List!Created PROVE Followed'
  <2>1. PICK name \in Names : List!Put(listed \cup {[name |-> name, is |-> "live"]})
    BY <1>8 DEF List!Created, FormTyped
  <2> QED
    BY <2>1, FollowedPut DEF Followed, List!Objects
<1>9. Same => Followed'
  BY DEF Followed
<1>10. Anew => Followed'
  BY DEF Followed, List!NoFollow
<1> HIDE DEF Same, Anew
<1> QED
  BY <1>1, <1>2, <1>3, <1>4, <1>5, <1>6, <1>7, <1>8, <1>9, <1>10 DEF List!CollectionsNext

(* A list that is synced, with nothing on its way, shows what is there,    *)
(* whatever was read before and whenever it is answered.                   *)
THEOREM ListFollowsTruth == PagesSpec => []ListIsTruth
<1>1. PagesInit => FormTyped /\ Followed
  <2> SUFFICES ASSUME List!CollectionsInit PROVE FormTyped /\ Followed
    BY DEF PagesInit
  <2>1. <<>> \in Seq(SUBSET List!Objects) /\ listed \subseteq List!Objects
    BY DEF List!CollectionsInit, List!Objects
  <2> QED
    BY <2>1
    DEF List!CollectionsInit, FormTyped, Followed, List!NoFollow, List!NoForm,
        List!NoFiling
<1>2. FormTyped /\ Followed /\ [PagesNext]_pagesVars => FormTyped' /\ Followed'
  BY FormTypedStep, FollowedStep
<1>3. Followed => ListIsTruth
  BY DEF Followed, ListIsTruth, List!ListIsTruth, List!Shown, List!Source
<1> QED
  BY <1>1, <1>2, <1>3, PTL DEF PagesSpec

-----------------------------------------------------------------------------
(* A seat and the map.                                                     *)

LEMMA SeatsMove ==
  [PagesNext]_pagesVars => Map!SeatsNext \/ UNCHANGED seatVars
  BY DEF PagesNext, pagesVars, OthersStill

LEMMA SeatsAssumed ==
  /\ Nowhere \notin Places /\ Map!AnyLook \in Looks
  /\ \A look \in Looks : Map!Seat(Me, look) # Free
  BY PagesAssumption DEF Map!SeatAssumption, Map!AnyLook

(* The types.                                                              *)
SeatSet == {Map!Seat(who, look) : who \in {Me, Other}, look \in Looks}

RoomSet == [plan : (SUBSET Places) \cup {NoPlan}, seats : [Places -> SeatSet \cup {Free}]]

WaitSet ==
  [page : {"seat-claim", "seat-mine", "claim", "change"},
   at : {"who", "find", "write", "landed", "taken"},
   place : Places \cup {Nowhere}, look : Looks, here : BOOLEAN]

MapTyped ==
  /\ seats \in [Places -> SeatSet \cup {Free}] /\ plan \in (SUBSET Places) \cup {NoPlan}
  /\ mapStream \in [synced : BOOLEAN, room : RoomSet, wire : Seq(RoomSet)]
  /\ mapRead \in RoomSet
  /\ mapAsked \in [at : {"none", "sent", "served"}, room : RoomSet]

PagesTyped ==
  /\ claim \in [place : Places \cup {Nowhere}, known : BOOLEAN]
  /\ mySeat \in [at : Places \cup {Nowhere}, found : SeatSet \cup {Free}, pick : Looks]
  /\ waits \subseteq WaitSet

(* A page that looks for its seat has none yet, and looks once.            *)
Looking(w) == w.page = "seat-mine" /\ w.here

FoundOnce ==
  /\ mySeat.at # Nowhere => mySeat.found # Free
  /\ \A w \in waits : Looking(w) => mySeat.at = Nowhere
  /\ \A v, w \in waits : Looking(v) /\ Looking(w) => v = w

(* The place that is chosen may still be, by what is shown.                *)
ChosenKept ==
  route = "seat-claim" /\ claim.place # Nowhere => Map!Keeps(Map!Shown)

(* The kinds of steps.                                                     *)
Resting == UNCHANGED <<seats, plan, mapStream, mapRead, mapAsked, route, claim, mySeat, waits>>

Arriving == UNCHANGED <<seats, plan>> /\ \E page : Map!Arrive(page)

(* A guard moves the tab or leaves it.                                     *)
LEMMA GuardMoves ==
  ASSUME Map!Guards
  PROVE  Resting \/ Arriving \/ Map!SignIn
<1> USE DEF Map!roomVars, Map!mapVars, Map!guardVars, Map!tabVars
<1>1. ASSUME Map!SessionAnswered PROVE Resting \/ Arriving
  BY <1>1 DEF Map!SessionAnswered, Resting, Arriving
<1>2. ASSUME Map!Expire PROVE Resting
  BY <1>2 DEF Map!Expire, Resting
<1>3. ASSUME NEW to, Map!Open(to) PROVE Resting
  BY <1>3 DEF Map!Open, Resting
<1>4. ASSUME NEW which, NEW sends, Map!Decide(which, sends), UNCHANGED <<seats, plan>>
      PROVE  Resting \/ Arriving
  BY <1>4 DEF Map!Decide, Resting, Arriving
<1>5. ASSUME NEW which, Map!PlanLooked(which) \/ Map!GuardFails(which)
      PROVE  Resting \/ Arriving
  BY <1>4, <1>5 DEF Map!PlanLooked, Map!GuardFails
<1>6. ASSUME NEW which, Map!SeatLooked(which) PROVE Resting \/ Arriving
  <2>1. /\ UNCHANGED <<seats, plan>>
        /\ \/ Map!Decide(which, FALSE)
           \/ UNCHANGED <<mapStream, mapRead, mapAsked, route, claim, mySeat, waits>>
    BY <1>6 DEF Map!SeatLooked
  <2>2. CASE Map!Decide(which, FALSE)
    BY <1>4, <2>1, <2>2
  <2> QED
    BY <2>1, <2>2 DEF Resting
<1> QED
  BY <1>1, <1>2, <1>3, <1>5, <1>6 DEF Map!Guards

(* What a page that comes up has.                                          *)
LEMMA Arrived ==
  ASSUME NEW page, Map!Arrive(page), PagesTyped
  PROVE  /\ route' = page
         /\ \/ page = route /\ UNCHANGED <<mapStream, mapRead, mapAsked, claim, mySeat, waits>>
            \/ /\ page # route
               /\ mapStream' = Map!NoStream /\ mapRead' = Map!NoRoom
               /\ mapAsked' \in [at : {"none", "sent"}, room : {Map!NoRoom}]
               /\ claim' = [place |-> Nowhere, known |-> FALSE]
               /\ mySeat' = [at |-> Nowhere, found |-> Free, pick |-> Map!AnyLook]
               /\ waits' \subseteq WaitSet
               /\ \A v, w \in waits' : v.here /\ w.here => v = w
<1> USE DEF Map!mapVars
<1>1. /\ route' = page
      /\ page = route => UNCHANGED <<mapStream, mapRead, mapAsked, claim, mySeat, waits>>
      /\ page # route =>
           /\ mapStream' = Map!NoStream /\ mapRead' = Map!NoRoom
           /\ mapAsked' \in [at : {"none", "sent"}, room : {Map!NoRoom}]
           /\ claim' = [place |-> Nowhere, known |-> FALSE]
           /\ mySeat' = [at |-> Nowhere, found |-> Free, pick |-> Map!AnyLook]
  BY DEF Map!Arrive
<1>2. ASSUME page # route
      PROVE  \E new \in SUBSET WaitSet :
               /\ waits' = Map!Left \cup new
               /\ \A v, w \in new : v = w
  <2>1. Map!Wait(page, "who", Nowhere, Map!AnyLook)
          \in WaitSet \/ page \notin {"seat-claim", "seat-mine"}
    BY SeatsAssumed DEF Map!Wait, WaitSet
  <2>2. Map!Wait(page, "find", Nowhere, Map!AnyLook)
          \in WaitSet \/ page \notin {"seat-claim", "seat-mine"}
    BY SeatsAssumed DEF Map!Wait, WaitSet
  <2>3. CASE page = "seat-claim"
    <3> DEFINE new == {Map!Wait(page, "who", Nowhere, Map!AnyLook)}
    <3>1. waits' = Map!Left \cup new
      BY <1>2, <2>3 DEF Map!Arrive
    <3>2. new \in SUBSET WaitSet /\ \A v, w \in new : v = w
      BY <2>1, <2>3
    <3> HIDE DEF new
    <3> QED
      BY <3>1, <3>2
  <2>4. CASE page = "seat-mine"
    <3> DEFINE new == {Map!Wait(page, "find", Nowhere, Map!AnyLook)}
    <3>1. waits' = Map!Left \cup new
      BY <1>2, <2>4 DEF Map!Arrive
    <3>2. new \in SUBSET WaitSet /\ \A v, w \in new : v = w
      BY <2>2, <2>4
    <3> HIDE DEF new
    <3> QED
      BY <3>1, <3>2
  <2>5. CASE page \notin {"seat-claim", "seat-mine"}
    <3>1. waits' = Map!Left \cup
                     CASE page = "seat-claim" -> {Map!Wait(page, "who", Nowhere, Map!AnyLook)}
                       [] page = "seat-mine" -> {Map!Wait(page, "find", Nowhere, Map!AnyLook)}
                       [] OTHER -> {}
      BY <1>2 DEF Map!Arrive
    <3>2. waits' = Map!Left \cup {}
      BY <2>5, <3>1
    <3> DEFINE new == {}
    <3>3. new \in SUBSET WaitSet /\ (\A v, w \in new : v = w) /\ waits' = Map!Left \cup new
      BY <3>2
    <3> HIDE DEF new
    <3> QED
      BY <3>3
  <2> QED
    BY <2>3, <2>4, <2>5
<1>3. \A w \in Map!Left : w \in WaitSet /\ ~w.here
  <2>1. ASSUME NEW w \in waits PROVE [w EXCEPT !.here = FALSE] \in WaitSet /\ ~[w EXCEPT !.here = FALSE].here
    <3>1. w \in WaitSet
      BY DEF PagesTyped
    <3> QED
      BY <3>1 DEF WaitSet
  <2> QED
    BY <2>1 DEF Map!Left
<1> QED
  <2>1. CASE page = route
    BY <1>1, <2>1
  <2>2. CASE page # route
    <3>1. PICK new \in SUBSET WaitSet :
            waits' = Map!Left \cup new /\ \A v, w \in new : v = w
      BY <1>2, <2>2
    <3>2. waits' \subseteq WaitSet /\ \A v, w \in waits' : v.here /\ w.here => v = w
      BY <1>3, <3>1
    <3> QED
      BY <1>1, <2>2, <3>2
  <2> QED
    BY <2>1, <2>2

StreamSet == [synced : BOOLEAN, room : RoomSet, wire : Seq(RoomSet)]

LEMMA Rooms ==
  /\ Map!NoRoom \in RoomSet /\ Map!NoStream \in StreamSet
  /\ MapTyped => Map!Room \in RoomSet
<1>1. Map!NoRoom \in RoomSet
  BY DEF Map!NoRoom, RoomSet
<1>2. <<>> \in Seq(RoomSet)
  OBVIOUS
<1>3. Map!NoStream \in StreamSet
  BY <1>1, <1>2 DEF Map!NoStream, StreamSet
<1>4. MapTyped => Map!Room \in RoomSet
  BY DEF MapTyped, Map!Room, RoomSet
<1> QED
  BY <1>1, <1>3, <1>4

(* What is written goes on the wire, and nothing is shown of it yet.       *)
LEMMA Published ==
  ASSUME MapTyped, seats' \in [Places -> SeatSet \cup {Free}],
         plan' \in (SUBSET Places) \cup {NoPlan}, Map!Publish
  PROVE  /\ mapStream' \in StreamSet
         /\ mapStream'.synced = mapStream.synced /\ mapStream'.room = mapStream.room
<1> DEFINE w == Append(mapStream.wire, [plan |-> plan', seats |-> seats'])
<1>1. mapStream \in StreamSet
  BY DEF MapTyped, StreamSet
<1>2. mapStream' = IF mapStream.synced THEN [mapStream EXCEPT !.wire = w] ELSE mapStream
  BY DEF Map!Publish
<1>3. w \in Seq(RoomSet)
  <2>1. [plan |-> plan', seats |-> seats'] \in RoomSet
    BY DEF RoomSet
  <2>2. mapStream.wire \in Seq(RoomSet)
    BY <1>1 DEF StreamSet
  <2> QED
    BY <2>1, <2>2, AppendProperties
<1> HIDE DEF w
<1> QED
  BY <1>1, <1>2, <1>3 DEF StreamSet

LEMMA PutTyped ==
  ASSUME MapTyped, NEW place, NEW seat \in SeatSet \cup {Free}, Map!Put(place, seat)
  PROVE  /\ seats' \in [Places -> SeatSet \cup {Free}] /\ plan' = plan
         /\ mapStream' \in StreamSet
         /\ mapStream'.synced = mapStream.synced /\ mapStream'.room = mapStream.room
<1>1. /\ seats' \in [Places -> SeatSet \cup {Free}] /\ plan' = plan
      /\ plan' \in (SUBSET Places) \cup {NoPlan} /\ Map!Publish
  BY DEF MapTyped, Map!Put
<1> QED
  BY <1>1, Published

(* What others do changes the room and not what is shown.                  *)
LEMMA OthersTyped ==
  ASSUME MapTyped, Map!Others
  PROVE  /\ MapTyped'
         /\ mapStream'.synced = mapStream.synced /\ mapStream'.room = mapStream.room
         /\ UNCHANGED <<mapRead, mapAsked, route, claim, mySeat, waits>>
<1> DEFINE Fine == /\ seats' \in [Places -> SeatSet \cup {Free}]
                   /\ plan' \in (SUBSET Places) \cup {NoPlan}
                   /\ mapStream' \in StreamSet
                   /\ mapStream'.synced = mapStream.synced
                   /\ mapStream'.room = mapStream.room
<1>0. plan \in (SUBSET Places) \cup {NoPlan}
  BY DEF MapTyped
<1>1. UNCHANGED <<mapRead, mapAsked, route, claim, mySeat, waits>>
  BY DEF Map!Others, Map!tabVars
<1>2. ASSUME NEW p, NEW seat \in SeatSet \cup {Free}, Map!Put(p, seat) PROVE Fine
  BY <1>0, <1>2, PutTyped
<1>3. ASSUME plan' \in ((SUBSET Places) \ {{}}) \cup {NoPlan}, UNCHANGED seats, Map!Publish
      PROVE  Fine
  <2>1. /\ seats' \in [Places -> SeatSet \cup {Free}]
        /\ plan' \in (SUBSET Places) \cup {NoPlan}
    BY <1>3 DEF MapTyped
  <2> QED
    BY <1>3, <2>1, Published
<1>4. \A who \in {Me, Other}, look \in Looks : Map!Seat(who, look) \in SeatSet
  BY DEF SeatSet
<1>5. Map!AnyLook \in Looks
  BY SeatsAssumed
<1> HIDE DEF Fine
<1>6. Fine
  BY <1>2, <1>3, <1>4, <1>5 DEF Map!Others
<1> QED
  BY <1>1, <1>6 DEF Fine, MapTyped, StreamSet

(* The API server's answer to a claim or a change.                         *)
LEMMA WrittenTyped ==
  ASSUME MapTyped, PagesTyped, NEW w \in waits, Map!SeatWritten(w)
  PROVE  /\ MapTyped'
         /\ mapStream'.synced = mapStream.synced /\ mapStream'.room = mapStream.room
         /\ UNCHANGED <<mapRead, mapAsked, route, claim, mySeat>>
<1>1. w \in WaitSet
  BY DEF PagesTyped
<1>2. Map!Seat(Me, w.look) \in SeatSet
  BY <1>1 DEF WaitSet, SeatSet
<1>3. UNCHANGED <<mapRead, mapAsked, route, claim, mySeat>>
  BY DEF Map!SeatWritten, Map!tabVars
<1>4. CASE Map!Put(w.place, Map!Seat(Me, w.look))
  BY <1>2, <1>3, <1>4, PutTyped DEF MapTyped, StreamSet
<1>5. CASE UNCHANGED <<seats, plan, mapStream>>
  BY <1>3, <1>5 DEF MapTyped
<1> QED
  BY <1>4, <1>5 DEF Map!SeatWritten, Map!roomVars

(* A step of the map itself.                                               *)
LEMMA MapStepTyped ==
  ASSUME MapTyped, Map!MapStep
  PROVE  /\ MapTyped' /\ Map!Redraw /\ UNCHANGED <<route, waits>>
<1> USE DEF Map!roomVars, Map!tabVars
<1>1. Map!Redraw /\ UNCHANGED <<seats, plan, route, waits>>
  BY DEF Map!MapStep
<1>0. mapStream \in StreamSet /\ Map!Room \in RoomSet
  BY Rooms DEF MapTyped, StreamSet
<1>2. ASSUME Map!Deliver PROVE MapTyped'
  <2> DEFINE h == Head(mapStream.wire)
             t == Tail(mapStream.wire)
  <2>1. /\ mapStream.wire # <<>> /\ mapStream.wire \in Seq(RoomSet)
        /\ mapStream' = [mapStream EXCEPT !.room = h, !.wire = t]
        /\ UNCHANGED <<mapRead, mapAsked>>
    BY <1>0, <1>2 DEF Map!Deliver, StreamSet
  <2>2. h \in RoomSet /\ t \in Seq(RoomSet)
    BY <2>1, LastStays
  <2> HIDE DEF h, t
  <2>3. mapStream' \in StreamSet
    BY <1>0, <2>1, <2>2 DEF StreamSet
  <2> QED
    BY <1>1, <2>1, <2>3 DEF MapTyped, StreamSet
<1>3. ASSUME Map!Sync PROVE MapTyped'
  <2>1. <<>> \in Seq(RoomSet)
    OBVIOUS
  <2>2. mapStream' \in StreamSet /\ UNCHANGED <<mapRead, mapAsked>>
    BY <1>0, <1>3, <2>1 DEF Map!Sync, StreamSet
  <2> QED
    BY <1>1, <2>2 DEF MapTyped, StreamSet
<1>4. ASSUME Map!Break PROVE MapTyped'
  BY <1>1, <1>4, Rooms DEF Map!Break, MapTyped, StreamSet
<1>5. ASSUME Map!RoomServed PROVE MapTyped'
  BY <1>0, <1>1, <1>5 DEF Map!RoomServed, MapTyped
<1>6. ASSUME Map!RoomAnswered PROVE MapTyped'
  BY <1>1, <1>6, Rooms DEF Map!RoomAnswered, MapTyped
<1> QED
  BY <1>1, <1>2, <1>3, <1>4, <1>5, <1>6 DEF Map!MapStep

LEMMA ShownTyped ==
  ASSUME MapTyped
  PROVE  Map!Shown \in RoomSet
  BY DEF MapTyped, Map!Shown, Map!ShownBy

LEMMA SeatOnTyped ==
  ASSUME PagesTyped, NEW room \in RoomSet
  PROVE  Map!SeatOn(room) \in SeatSet \cup {Free}
  BY DEF PagesTyped, Map!SeatOn, Map!SeatOf, RoomSet

LEMMA LooksOfSeats == \A seat \in SeatSet : seat.look \in Looks
  BY DEF SeatSet, Map!Seat

(* What a change of what is shown does to the two pages.                   *)
LEMMA Redrawn ==
  ASSUME MapTyped, MapTyped', PagesTyped, Map!Redraw
  PROVE  /\ claim' \in [place : Places \cup {Nowhere}, known : BOOLEAN]
         /\ mySeat' \in [at : Places \cup {Nowhere}, found : SeatSet \cup {Free},
                         pick : Looks]
         /\ mySeat'.at = mySeat.at /\ mySeat'.found = mySeat.found
         /\ claim'.place # Nowhere =>
              claim' = claim /\ (Map!Shown' = Map!Shown \/ Map!Keeps(Map!Shown'))
         /\ mySeat'.pick # mySeat.pick =>
              /\ Map!SeatOn(Map!Shown) = Free \/ mySeat.pick = Map!SeatOn(Map!Shown).look
              /\ mySeat'.pick = Map!SeatOn(Map!Shown').look
<1> DEFINE room == Map!ShownBy(mapStream', mapRead')
           before == Map!SeatOn(Map!Shown)
           current == Map!SeatOn(room)
<1>1. room = Map!Shown'
  BY DEF Map!Shown, Map!ShownBy
<1>2. room \in RoomSet
  BY DEF MapTyped, Map!ShownBy
<1>3. current \in SeatSet \cup {Free}
  BY <1>2, SeatOnTyped
<1>4. /\ claim \in [place : Places \cup {Nowhere}, known : BOOLEAN]
      /\ mySeat \in [at : Places \cup {Nowhere}, found : SeatSet \cup {Free}, pick : Looks]
  BY DEF PagesTyped
<1>5. \/ claim' = [claim EXCEPT !.place = Nowhere]
      \/ claim' = claim /\ (claim.place = Nowhere \/ room = Map!Shown \/ Map!Keeps(room))
  BY DEF Map!Redraw
<1>6. \/ mySeat' = mySeat
      \/ /\ mySeat' = [mySeat EXCEPT !.pick = current.look]
         /\ current # Free
         /\ before = Free \/ mySeat.pick = before.look
  BY DEF Map!Redraw, Map!Follow, Map!ByTheSeat
<1> HIDE DEF before, current, room
<1>7. /\ claim' \in [place : Places \cup {Nowhere}, known : BOOLEAN]
      /\ claim'.place # Nowhere =>
           claim' = claim /\ (room = Map!Shown \/ Map!Keeps(room))
  BY <1>4, <1>5
<1>8. /\ mySeat' \in [at : Places \cup {Nowhere}, found : SeatSet \cup {Free}, pick : Looks]
      /\ mySeat'.at = mySeat.at /\ mySeat'.found = mySeat.found
      /\ mySeat'.pick # mySeat.pick =>
           /\ before = Free \/ mySeat.pick = before.look
           /\ mySeat'.pick = current.look
  BY <1>3, <1>4, <1>6, LooksOfSeats
<1> QED
  BY <1>1, <1>7, <1>8 DEF before, current

(* What the answer to a change does to the page it is for: the seat found  *)
(* is the one changed, and untouched pickers go with the page's seat.      *)
LEMMA ChangeFollowed ==
  ASSUME MapTyped, PagesTyped, NEW w \in waits, Map!ChangeAnswered(w)
  PROVE  /\ waits' \subseteq waits /\ claim' = claim
         /\ mySeat' \in [at : Places \cup {Nowhere}, found : SeatSet \cup {Free},
                         pick : Looks]
         /\ mySeat'.at = mySeat.at
         /\ mySeat'.found \in {mySeat.found, Map!Seat(Me, w.look)}
         /\ mySeat'.pick # mySeat.pick =>
              /\ Map!SeatOn(Map!Shown) = Free \/ mySeat.pick = Map!SeatOn(Map!Shown).look
              /\ mySeat'.pick = Map!SeatOn(Map!Shown)'.look
<1> DEFINE new == Map!Seat(Me, w.look)
           page == [mySeat EXCEPT !.found = new]
           before == Map!SeatOn(Map!Shown)
           current == Map!SeatOf(page, Map!Shown)
<1>1. /\ mySeat \in [at : Places \cup {Nowhere}, found : SeatSet \cup {Free}, pick : Looks]
      /\ new \in SeatSet
  BY DEF PagesTyped, WaitSet, SeatSet
<1>2. /\ waits' \subseteq waits /\ claim' = claim
      /\ Map!Shown' = Map!Shown
  BY DEF Map!ChangeAnswered, Map!Done, Map!mapVars, Map!Shown, Map!ShownBy
<1>3. \/ mySeat' \in {mySeat, page}
      \/ /\ mySeat' = [page EXCEPT !.pick = current.look]
         /\ current # Free
         /\ before = Free \/ mySeat.pick = before.look
  BY DEF Map!ChangeAnswered, Map!Follow, Map!ByTheSeat
<1> HIDE DEF new
<1>4. /\ page \in [at : Places \cup {Nowhere}, found : SeatSet \cup {Free}, pick : Looks]
      /\ page.at = mySeat.at /\ page.found = new /\ page.pick = mySeat.pick
  BY <1>1
<1> HIDE DEF page
<1>5. current \in SeatSet \cup {Free}
  BY <1>4, ShownTyped DEF Map!SeatOf, RoomSet
<1>6. Map!SeatOn(Map!Shown)' = Map!SeatOf(mySeat', Map!Shown)
  BY <1>2 DEF Map!SeatOn, Map!SeatOf
<1>7. ASSUME mySeat'.at = page.at, mySeat'.found = page.found
      PROVE  Map!SeatOn(Map!Shown)' = current
  BY <1>6, <1>7 DEF Map!SeatOf
<1> HIDE DEF before, current
<1>8. CASE mySeat' \in {mySeat, page}
  BY <1>1, <1>2, <1>4, <1>8 DEF new
<1>9. CASE /\ mySeat' = [page EXCEPT !.pick = current.look]
           /\ current # Free
           /\ before = Free \/ mySeat.pick = before.look
  <2>1. /\ mySeat' \in [at : Places \cup {Nowhere}, found : SeatSet \cup {Free}, pick : Looks]
        /\ mySeat'.at = page.at /\ mySeat'.found = page.found
        /\ mySeat'.pick = current.look
    BY <1>4, <1>5, <1>9, LooksOfSeats
  <2> QED
    BY <1>2, <1>4, <1>7, <1>9, <2>1 DEF new, before
<1> QED
  BY <1>3, <1>8, <1>9

(* The answers but the API server's own.                                   *)
AnsweredElse(w) ==
  \/ Map!WhoAnswered(w) \/ Map!WaitFails(w) \/ Map!ClaimAnswered(w) \/ Map!ClaimTaken(w)
  \/ Map!ChangeAnswered(w) \/ Map!SeatFound(w)

LEMMA AnswersLeaveTheMap ==
  ASSUME NEW w, AnsweredElse(w)
  PROVE  /\ UNCHANGED <<seats, plan, mapStream, mapRead, route>>
         /\ mapAsked' \in {mapAsked, [at |-> "sent", room |-> Map!NoRoom]}
<1> USE DEF Map!roomVars, Map!mapVars, Map!tabVars
<1>1. ASSUME Map!WhoAnswered(w) \/ Map!WaitFails(w)
      PROVE  UNCHANGED <<seats, plan, mapStream, mapRead, mapAsked, route>>
  BY <1>1 DEF Map!WhoAnswered, Map!WaitFails
<1>2. ASSUME Map!ClaimAnswered(w) \/ Map!ChangeAnswered(w) \/ Map!SeatFound(w)
      PROVE  UNCHANGED <<seats, plan, mapStream, mapRead, mapAsked, route>>
  BY <1>2 DEF Map!ClaimAnswered, Map!ChangeAnswered, Map!SeatFound
<1>3. ASSUME Map!ClaimTaken(w)
      PROVE  /\ UNCHANGED <<seats, plan, mapStream, mapRead, route>>
             /\ mapAsked' \in {mapAsked, [at |-> "sent", room |-> Map!NoRoom]}
  BY <1>3 DEF Map!ClaimTaken
<1> QED
  BY <1>1, <1>2, <1>3 DEF AnsweredElse

LEMMA NextMapTyped ==
  ASSUME MapTyped, PagesTyped, [PagesNext]_pagesVars
  PROVE  MapTyped'
<1> USE DEF Map!roomVars, Map!mapVars, Map!tabVars
<1>1. ASSUME Resting \/ Map!SignIn \/ UNCHANGED seatVars \/ Map!Presses PROVE MapTyped'
  <2>1. UNCHANGED <<seats, plan, mapStream, mapRead, mapAsked>>
    BY <1>1 DEF Resting, Map!SignIn, seatVars, Map!Presses, Map!Select, Map!Pick,
                Map!PressClaim, Map!PressChange
  <2> QED
    BY <2>1 DEF MapTyped
<1>2. ASSUME Arriving PROVE MapTyped'
  BY <1>2, Arrived, Rooms DEF Arriving, MapTyped, StreamSet
<1>3. ASSUME NEW w, AnsweredElse(w) PROVE MapTyped'
  BY <1>3, AnswersLeaveTheMap, Rooms DEF MapTyped
<1>4. ASSUME NEW w \in waits, Map!SeatWritten(w) PROVE MapTyped'
  BY <1>4, WrittenTyped
<1> QED
  BY <1>1, <1>2, <1>3, <1>4, SeatsMove, MapStepTyped, OthersTyped, GuardMoves
  DEF Map!SeatsNext, Map!WaitAnswered, AnsweredElse

(* A wait that moves on.                                                   *)
LEMMA WaitMoves ==
  ASSUME NEW w \in WaitSet, NEW to \in {"who", "find", "write", "landed", "taken"}
  PROVE  /\ [w EXCEPT !.at = to] \in WaitSet
         /\ [w EXCEPT !.at = to].page = w.page /\ [w EXCEPT !.at = to].here = w.here
  BY DEF WaitSet

LEMMA NextPagesTyped ==
  ASSUME MapTyped, PagesTyped, [PagesNext]_pagesVars
  PROVE  PagesTyped'
<1> USE DEF Map!roomVars, Map!mapVars, Map!tabVars
<1> DEFINE Claims == [place : Places \cup {Nowhere}, known : BOOLEAN]
           Mine == [at : Places \cup {Nowhere}, found : SeatSet \cup {Free}, pick : Looks]
<1>0. claim \in Claims /\ mySeat \in Mine /\ waits \subseteq WaitSet
  BY DEF PagesTyped
<1>1. ASSUME Resting \/ UNCHANGED seatVars PROVE PagesTyped'
  BY <1>1 DEF Resting, seatVars, PagesTyped
<1>2. ASSUME Map!SignIn PROVE PagesTyped'
  BY <1>2 DEF Map!SignIn, PagesTyped
<1>3. ASSUME Arriving PROVE PagesTyped'
  <2>1. PICK page : Map!Arrive(page)
    BY <1>3 DEF Arriving
  <2>2. \/ UNCHANGED <<claim, mySeat, waits>>
        \/ /\ claim' = [place |-> Nowhere, known |-> FALSE]
           /\ mySeat' = [at |-> Nowhere, found |-> Free, pick |-> Map!AnyLook]
           /\ waits' \subseteq WaitSet
    BY <2>1, Arrived
  <2>3. /\ [place |-> Nowhere, known |-> FALSE] \in Claims
        /\ [at |-> Nowhere, found |-> Free, pick |-> Map!AnyLook] \in Mine
    BY SeatsAssumed
  <2>4. claim' \in Claims /\ mySeat' \in Mine /\ waits' \subseteq WaitSet
    BY <1>0, <2>2, <2>3
  <2> QED
    BY <2>4 DEF PagesTyped
<1>4. ASSUME Map!MapStep PROVE PagesTyped'
  BY <1>4, NextMapTyped, MapStepTyped, Redrawn DEF PagesTyped
<1>5. ASSUME Map!Others PROVE PagesTyped'
  BY <1>5, OthersTyped DEF PagesTyped
<1>6. ASSUME NEW p \in Places, Map!Select(p) PROVE PagesTyped'
  BY <1>0, <1>6 DEF Map!Select, PagesTyped
<1>7. ASSUME NEW look \in Looks, Map!Pick(look) PROVE PagesTyped'
  BY <1>0, <1>7 DEF Map!Pick, PagesTyped
<1>8. ASSUME Map!PressClaim PROVE PagesTyped'
  <2>1. Map!Wait("claim", "who", claim.place, Map!AnyLook) \in WaitSet
    BY <1>0, SeatsAssumed DEF Map!Wait, WaitSet
  <2> QED
    BY <1>8, <2>1 DEF Map!PressClaim, PagesTyped
<1>9. ASSUME Map!PressChange PROVE PagesTyped'
  <2>1. Map!Wait("change", "write", mySeat.at, mySeat.pick) \in WaitSet
    BY <1>0 DEF Map!Wait, WaitSet
  <2> QED
    BY <1>9, <2>1 DEF Map!PressChange, PagesTyped
<1>10. ASSUME NEW w \in waits, Map!WhoAnswered(w) PROVE PagesTyped'
  <2>1. waits' \subseteq WaitSet
    BY <1>0, <1>10, WaitMoves DEF Map!WhoAnswered, Map!To
  <2>2. claim' \in Claims /\ mySeat' = mySeat
    BY <1>0, <1>10 DEF Map!WhoAnswered
  <2> QED
    BY <1>0, <2>1, <2>2 DEF PagesTyped
<1>11. ASSUME NEW w \in waits, Map!SeatWritten(w) PROVE PagesTyped'
  <2>1. PICK to \in {"landed", "taken"} : Map!To(w, to)
    BY <1>11 DEF Map!SeatWritten
  <2>2. waits' \subseteq WaitSet
    <3>1. w \in WaitSet /\ waits' = (waits \ {w}) \cup {[w EXCEPT !.at = to]}
      BY <1>0, <2>1 DEF Map!To
    <3>2. [w EXCEPT !.at = to] \in WaitSet
      BY <3>1, WaitMoves
    <3> QED
      BY <1>0, <3>1, <3>2
  <2> QED
    BY <1>0, <1>11, <2>2, WrittenTyped DEF PagesTyped
<1>12. ASSUME NEW w \in waits, Map!WaitFails(w) \/ Map!ClaimAnswered(w) PROVE PagesTyped'
  BY <1>0, <1>12 DEF Map!WaitFails, Map!ClaimAnswered, Map!Done, PagesTyped
<1>13. ASSUME NEW w \in waits, Map!ClaimTaken(w) PROVE PagesTyped'
  <2>1. /\ waits' \subseteq waits /\ mySeat' = mySeat
        /\ claim' \in {claim, [claim EXCEPT !.place = Nowhere]}
    BY <1>13 DEF Map!ClaimTaken, Map!Done
  <2>2. claim' \in Claims
    BY <1>0, <2>1
  <2> QED
    BY <1>0, <2>1, <2>2 DEF PagesTyped
<1>14. ASSUME NEW w \in waits, Map!ChangeAnswered(w) PROVE PagesTyped'
  BY <1>0, <1>14, ChangeFollowed DEF PagesTyped
<1>15. ASSUME NEW w \in waits, Map!SeatFound(w) PROVE PagesTyped'
  <2>1. waits' \subseteq waits /\ claim' = claim
    BY <1>15 DEF Map!SeatFound, Map!Done
  <2>2. ASSUME NEW p \in Map!MySeats,
               mySeat' = [at |-> p, found |-> seats[p],
                          pick |-> IF Map!Shown.seats[p] # Free THEN Map!Shown.seats[p].look
                                   ELSE seats[p].look]
        PROVE  mySeat' \in Mine
    <3>1. p \in Places /\ seats[p] \in SeatSet
      BY DEF Map!MySeats, MapTyped
    <3>2. Map!Shown.seats[p] \in SeatSet \cup {Free}
      BY <3>1, ShownTyped DEF RoomSet
    <3>3. (IF Map!Shown.seats[p] # Free THEN Map!Shown.seats[p].look ELSE seats[p].look) \in Looks
      BY <3>1, <3>2, LooksOfSeats
    <3> QED
      BY <2>2, <3>1, <3>3
  <2>3. mySeat' \in Mine
    BY <1>0, <1>15, <2>2 DEF Map!SeatFound
  <2> QED
    BY <1>0, <2>1, <2>3 DEF PagesTyped
<1> QED
  BY <1>1, <1>2, <1>3, <1>4, <1>5, <1>6, <1>7, <1>8, <1>9, <1>10, <1>11, <1>12, <1>13,
     <1>14, <1>15, SeatsMove, GuardMoves
  DEF Map!SeatsNext, Map!WaitAnswered, Map!Presses

(* Whoever looks still looks, or has stopped.                              *)
LEMMA LookingStays ==
  ASSUME FoundOnce, mySeat'.at = mySeat.at,
         mySeat'.at # Nowhere => mySeat'.found # Free,
         \A v \in waits' : Looking(v) => v \in waits
  PROVE  FoundOnce'
  BY DEF FoundOnce, Looking

LEMMA LookingMoves ==
  ASSUME FoundOnce, UNCHANGED mySeat, NEW w \in waits, NEW x,
         waits' = (waits \ {w}) \cup {x}, x.page = w.page, x.here = w.here
  PROVE  FoundOnce'
  BY DEF FoundOnce, Looking

LEMMA NextFoundOnce ==
  ASSUME MapTyped, PagesTyped, FoundOnce, [PagesNext]_pagesVars
  PROVE  FoundOnce'
<1> USE DEF Map!roomVars, Map!mapVars, Map!tabVars
<1>0. waits \subseteq WaitSet /\ MapTyped'
  BY NextMapTyped DEF PagesTyped
<1>1. ASSUME Resting \/ UNCHANGED seatVars \/ Map!SignIn \/ Map!Others PROVE FoundOnce'
  <2>1. UNCHANGED mySeat /\ waits' \subseteq waits
    BY <1>1, OthersTyped DEF Resting, seatVars, Map!SignIn
  <2> QED
    BY <2>1, LookingStays DEF FoundOnce
<1>2. ASSUME Arriving PROVE FoundOnce'
  <2>1. PICK page : Map!Arrive(page)
    BY <1>2 DEF Arriving
  <2>2. CASE UNCHANGED <<claim, mySeat, waits>>
    BY <2>2, LookingStays DEF FoundOnce
  <2>3. CASE /\ mySeat' = [at |-> Nowhere, found |-> Free, pick |-> Map!AnyLook]
             /\ \A v, w \in waits' : v.here /\ w.here => v = w
    BY <2>3 DEF FoundOnce, Looking
  <2> QED
    BY <2>1, <2>2, <2>3, Arrived
<1>3. ASSUME Map!MapStep PROVE FoundOnce'
  <2>1. mySeat'.at = mySeat.at /\ mySeat'.found = mySeat.found /\ waits' = waits
    BY <1>0, <1>3, MapStepTyped, Redrawn
  <2> QED
    BY <2>1, LookingStays DEF FoundOnce
<1>4. ASSUME NEW p, Map!Select(p) PROVE FoundOnce'
  BY <1>4, LookingStays DEF Map!Select, FoundOnce
<1>5. ASSUME NEW look, Map!Pick(look) PROVE FoundOnce'
  <2>1. mySeat' = [mySeat EXCEPT !.pick = look] /\ waits' = waits
    BY <1>5 DEF Map!Pick
  <2>2. mySeat'.at = mySeat.at /\ mySeat'.found = mySeat.found
    BY <2>1 DEF PagesTyped
  <2> QED
    BY <2>1, <2>2, LookingStays DEF FoundOnce
<1>6. ASSUME Map!PressClaim \/ Map!PressChange PROVE FoundOnce'
  <2>1. /\ mySeat' = mySeat
        /\ \A v \in waits' : v \in waits \/ v.page \in {"claim", "change"}
    BY <1>6 DEF Map!PressClaim, Map!PressChange, Map!Wait
  <2>2. \A v \in waits' : Looking(v) => v \in waits
    BY <2>1 DEF Looking
  <2> QED
    BY <2>1, <2>2, LookingStays DEF FoundOnce
<1>7. ASSUME NEW w \in waits, NEW to \in {"who", "find", "write", "landed", "taken"},
             Map!To(w, to), mySeat' = mySeat
      PROVE  FoundOnce'
  <2> DEFINE x == [w EXCEPT !.at = to]
  <2>1. waits' = (waits \ {w}) \cup {x}
    BY <1>7 DEF Map!To
  <2>2. x.page = w.page /\ x.here = w.here
    BY <1>0, WaitMoves
  <2> HIDE DEF x
  <2> QED
    BY <1>7, <2>1, <2>2, LookingMoves
<1>8. ASSUME NEW w \in waits, Map!WhoAnswered(w) PROVE FoundOnce'
  <2>1. mySeat' = mySeat /\ (Map!To(w, "write") \/ Map!To(w, "find"))
    BY <1>8 DEF Map!WhoAnswered
  <2> QED
    BY <1>7, <2>1
<1>9. ASSUME NEW w \in waits, Map!SeatWritten(w) PROVE FoundOnce'
  <2>1. mySeat' = mySeat /\ (Map!To(w, "landed") \/ Map!To(w, "taken"))
    BY <1>9 DEF Map!SeatWritten
  <2> QED
    BY <1>7, <2>1
<1>10. ASSUME NEW w \in waits,
              Map!WaitFails(w) \/ Map!ClaimAnswered(w) \/ Map!ClaimTaken(w)
       PROVE  FoundOnce'
  <2>1. mySeat' = mySeat /\ waits' \subseteq waits
    BY <1>10 DEF Map!WaitFails, Map!ClaimAnswered, Map!ClaimTaken, Map!Done
  <2> QED
    BY <2>1, LookingStays DEF FoundOnce
<1>11. ASSUME NEW w \in waits, Map!ChangeAnswered(w) PROVE FoundOnce'
  <2>1. /\ waits' \subseteq waits /\ mySeat'.at = mySeat.at
        /\ mySeat'.found \in {mySeat.found, Map!Seat(Me, w.look)}
    BY <1>0, <1>11, ChangeFollowed
  <2>2. Map!Seat(Me, w.look) # Free
    BY <1>0, SeatsAssumed DEF WaitSet
  <2> QED
    BY <2>1, <2>2, LookingStays DEF FoundOnce
<1>12. ASSUME NEW w \in waits, Map!SeatFound(w) PROVE FoundOnce'
  <2>1. waits' = waits \ {w}
    BY <1>12 DEF Map!SeatFound, Map!Done
  <2>2. CASE mySeat' = mySeat
    BY <2>1, <2>2, LookingStays DEF FoundOnce
  <2>3. ASSUME mySeat' # mySeat
        PROVE  Looking(w) /\ mySeat'.found # Free
    <3>1. /\ w.page = "seat-mine" /\ w.here
          /\ \E p \in Map!MySeats : mySeat'.found = seats[p]
      BY <1>12, <2>3 DEF Map!SeatFound
    <3> QED
      BY <3>1 DEF Looking, Map!MySeats
  <2>4. ASSUME mySeat' # mySeat
        PROVE  \A v \in waits' : ~Looking(v)
    BY <2>1, <2>3, <2>4 DEF FoundOnce
  <2> QED
    BY <2>2, <2>3, <2>4 DEF FoundOnce
<1> QED
  BY <1>1, <1>2, <1>3, <1>4, <1>5, <1>6, <1>8, <1>9, <1>10, <1>11, <1>12,
     SeatsMove, GuardMoves
  DEF Map!SeatsNext, Map!WaitAnswered, Map!Presses

LEMMA NextChosenKept ==
  ASSUME MapTyped, PagesTyped, ChosenKept, [PagesNext]_pagesVars
  PROVE  ChosenKept'
<1> USE DEF Map!roomVars, Map!mapVars, Map!tabVars
<1>0. claim \in [place : Places \cup {Nowhere}, known : BOOLEAN] /\ MapTyped'
  BY NextMapTyped DEF PagesTyped
<1>1. ASSUME Map!Shown' = Map!Shown, route' = route,
             \/ claim'.place = Nowhere
             \/ claim'.place = claim.place /\ (claim.known => claim'.known)
      PROVE  ChosenKept'
  BY <1>1 DEF ChosenKept, Map!Keeps
<1>2. ASSUME UNCHANGED <<mapStream, mapRead>> \/
             (/\ mapStream'.synced = mapStream.synced
              /\ mapStream'.room = mapStream.room /\ UNCHANGED mapRead)
      PROVE  Map!Shown' = Map!Shown
  BY <1>2 DEF Map!Shown, Map!ShownBy
<1>3. ASSUME Resting \/ UNCHANGED seatVars \/ Map!SignIn PROVE ChosenKept'
  <2>1. UNCHANGED <<mapStream, mapRead, claim, route>>
    BY <1>3 DEF Resting, seatVars, Map!SignIn
  <2> QED
    BY <1>1, <1>2, <2>1
<1>4. ASSUME Map!Others PROVE ChosenKept'
  BY <1>1, <1>2, <1>4, OthersTyped
<1>5. ASSUME Arriving PROVE ChosenKept'
  <2>1. PICK page : Map!Arrive(page)
    BY <1>5 DEF Arriving
  <2>2. CASE UNCHANGED <<mapStream, mapRead, claim, route>>
    BY <1>1, <1>2, <2>2
  <2>3. CASE claim' = [place |-> Nowhere, known |-> FALSE]
    BY <2>3 DEF ChosenKept
  <2> QED
    BY <2>1, <2>2, <2>3, Arrived
<1>6. ASSUME Map!MapStep PROVE ChosenKept'
  <2>1. /\ route' = route
        /\ claim'.place # Nowhere =>
             claim' = claim /\ (Map!Shown' = Map!Shown \/ Map!Keeps(Map!Shown'))
    BY <1>0, <1>6, MapStepTyped, Redrawn
  <2> QED
    BY <1>1, <2>1 DEF ChosenKept, Map!Keeps
<1>7. ASSUME NEW p \in Places, Map!Select(p) PROVE ChosenKept'
  <2>1. /\ claim' = [claim EXCEPT !.place = p] /\ UNCHANGED <<mapStream, mapRead>>
        /\ p \in Map!Shown.plan /\ Map!Shown.seats[p] = Free
    BY <1>7 DEF Map!Select
  <2> QED
    BY <1>0, <1>2, <2>1 DEF ChosenKept, Map!Keeps
<1>8. ASSUME (\E look : Map!Pick(look)) \/ Map!PressClaim \/ Map!PressChange
      PROVE  ChosenKept'
  <2>1. UNCHANGED <<mapStream, mapRead, claim, route>>
    BY <1>8 DEF Map!Pick, Map!PressClaim, Map!PressChange
  <2> QED
    BY <1>1, <1>2, <2>1
<1>9. ASSUME NEW w \in waits, Map!SeatWritten(w) PROVE ChosenKept'
  BY <1>1, <1>2, <1>9, WrittenTyped
<1>10. ASSUME NEW w \in waits, AnsweredElse(w) PROVE ChosenKept'
  <2>1. \/ claim' = claim
        \/ claim' = [claim EXCEPT !.known = TRUE]
        \/ claim' = [claim EXCEPT !.place = Nowhere]
    BY <1>10 DEF AnsweredElse, Map!WhoAnswered, Map!WaitFails, Map!ClaimAnswered,
                 Map!ClaimTaken, Map!ChangeAnswered, Map!SeatFound
  <2> QED
    BY <1>0, <1>1, <1>2, <1>10, <2>1, AnswersLeaveTheMap
<1> QED
  BY <1>3, <1>4, <1>5, <1>6, <1>7, <1>8, <1>9, <1>10, SeatsMove, GuardMoves
  DEF Map!SeatsNext, Map!WaitAnswered, Map!Presses, AnsweredElse

LEMMA SeatsBegin ==
  ASSUME PagesInit
  PROVE  MapTyped /\ PagesTyped /\ FoundOnce /\ ChosenKept
<1>1. Map!SeatsInit
  BY DEF PagesInit
<1>2. MapTyped
  <2>1. /\ seats \in [Places -> SeatSet \cup {Free}] /\ plan \in (SUBSET Places) \cup {NoPlan}
        /\ mapAsked \in [at : {"none", "sent", "served"}, room : RoomSet]
    BY <1>1, Rooms DEF Map!SeatsInit, Map!NoRoom
  <2> QED
    BY <1>1, <2>1, Rooms DEF Map!SeatsInit, MapTyped, StreamSet
<1>3. PagesTyped
  BY <1>1, SeatsAssumed DEF Map!SeatsInit, PagesTyped
<1>4. FoundOnce /\ ChosenKept
  BY <1>1 DEF Map!SeatsInit, FoundOnce, ChosenKept
<1> QED
  BY <1>2, <1>3, <1>4

LEMMA SeatsInvariant ==
  PagesSpec => [](MapTyped /\ PagesTyped /\ FoundOnce /\ ChosenKept)
<1> DEFINE SeatInv == MapTyped /\ PagesTyped /\ FoundOnce /\ ChosenKept
<1>1. PagesInit => SeatInv
  BY SeatsBegin
<1>2. SeatInv /\ [PagesNext]_pagesVars => SeatInv'
  BY NextMapTyped, NextPagesTyped, NextFoundOnce, NextChosenKept
<1> QED
  BY <1>1, <1>2, PTL DEF PagesSpec

(* The place about to be claimed is shown free, or one's own, and on the   *)
(* plan that is shown, whichever of read, stream and refresh came last.    *)
THEOREM ChosenStaysFree == PagesSpec => []ChosenIsFree
<1>1. ChosenKept => ChosenIsFree
  BY DEF ChosenKept, ChosenIsFree, Map!ChosenIsFree, Map!Keeps
<1> QED
  BY <1>1, SeatsInvariant, PTL

(* A picker moves because it is touched, or with the seat it showed.       *)
LEMMA PickerMoves ==
  ASSUME MapTyped, PagesTyped, FoundOnce, Map!SeatsNext,
         mySeat'.at = mySeat.at, mySeat.at # Nowhere, mySeat'.pick # mySeat.pick
  PROVE  \/ \E look \in Looks : Map!Pick(look)
         \/ /\ mySeat.pick = Map!SeatOn(Map!Shown).look
            /\ mySeat'.pick = Map!SeatOn(Map!Shown)'.look
<1> USE DEF Map!roomVars, Map!mapVars, Map!tabVars
<1>1. mySeat' # mySeat
  OBVIOUS
<1>2. ~Resting /\ ~Map!SignIn
  BY <1>1 DEF Resting, Map!SignIn
<1>3. ~Arriving
  <2>1. ASSUME Arriving PROVE mySeat'.at = Nowhere \/ mySeat' = mySeat
    BY <2>1, Arrived DEF Arriving
  <2> QED
    BY <1>1, <2>1
<1>4. ~Map!Others
  BY <1>1, OthersTyped
<1>5. \A w \in waits : ~Map!SeatWritten(w)
  BY <1>1, WrittenTyped
<1>0. Map!SeatOn(Map!Shown) # Free
  BY DEF FoundOnce, Map!SeatOn, Map!SeatOf
<1>6. ASSUME NEW w \in waits, AnsweredElse(w)
      PROVE  /\ mySeat.pick = Map!SeatOn(Map!Shown).look
             /\ mySeat'.pick = Map!SeatOn(Map!Shown)'.look
  <2>1. CASE Map!ChangeAnswered(w)
    BY <1>0, <2>1, ChangeFollowed
  <2>2. CASE Map!SeatFound(w)
    <3>1. Looking(w)
      BY <1>1, <2>2 DEF Map!SeatFound, Looking
    <3> QED
      BY <3>1 DEF FoundOnce
  <2> QED
    BY <1>1, <1>6, <2>1, <2>2
    DEF AnsweredElse, Map!WhoAnswered, Map!WaitFails, Map!ClaimAnswered, Map!ClaimTaken
<1>7. ASSUME Map!MapStep
      PROVE  /\ mySeat.pick = Map!SeatOn(Map!Shown).look
             /\ mySeat'.pick = Map!SeatOn(Map!Shown)'.look
  <2>1. MapTyped' /\ Map!Redraw
    BY <1>7, MapStepTyped
  <2>2. /\ mySeat'.found = mySeat.found
        /\ Map!SeatOn(Map!Shown) = Free \/ mySeat.pick = Map!SeatOn(Map!Shown).look
        /\ mySeat'.pick = Map!SeatOn(Map!Shown').look
    BY <2>1, Redrawn
  <2>3. Map!SeatOn(Map!Shown)' = Map!SeatOn(Map!Shown')
    BY <2>2 DEF Map!SeatOn, Map!SeatOf
  <2> QED
    BY <1>0, <2>2, <2>3
<1>8. ASSUME \/ \E p \in Places : Map!Select(p)
             \/ Map!PressClaim \/ Map!PressChange
      PROVE  FALSE
  BY <1>1, <1>8 DEF Map!Select, Map!PressClaim, Map!PressChange
<1> QED
  BY <1>2, <1>3, <1>4, <1>5, <1>6, <1>7, <1>8, GuardMoves
  DEF Map!SeatsNext, Map!WaitAnswered, Map!Presses, AnsweredElse

(* A change made on another phone, or the answer to one made here, never   *)
(* overwrites a choice being made: the pickers move by hand, or with the   *)
(* seat whose look they showed.                                            *)
THEOREM PickersFollowTheSeat == PagesSpec => PickersFollow
<1>1. MapTyped /\ PagesTyped /\ FoundOnce /\ [PagesNext]_pagesVars =>
        [(mySeat'.at = mySeat.at /\ mySeat.at # Nowhere /\ mySeat'.pick # mySeat.pick) =>
           \/ \E look \in Looks : Map!Pick(look)
           \/ /\ mySeat.pick = Map!SeatOn(Map!Shown).look
              /\ mySeat'.pick = Map!SeatOn(Map!Shown)'.look]_(Map!seatVars)
  <2> SUFFICES ASSUME MapTyped, PagesTyped, FoundOnce, [PagesNext]_pagesVars,
                      mySeat'.at = mySeat.at, mySeat.at # Nowhere, mySeat'.pick # mySeat.pick
               PROVE  \/ \E look \in Looks : Map!Pick(look)
                      \/ /\ mySeat.pick = Map!SeatOn(Map!Shown).look
                         /\ mySeat'.pick = Map!SeatOn(Map!Shown)'.look
    OBVIOUS
  <2>1. ~UNCHANGED seatVars
    BY DEF seatVars
  <2> QED
    BY <2>1, SeatsMove, PickerMoves
<1> QED
  BY <1>1, SeatsInvariant, PTL DEF PagesSpec, PickersFollow, Map!PickersFollow

=============================================================================
