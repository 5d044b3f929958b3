------------------------------- MODULE Seats -------------------------------
(***************************************************************************)
(* A participant's tab around their seat: the router's guard, which sends  *)
(* them to take one first (router.ts, seatOnboarding.ts), the page that    *)
(* claims it (SeatClaimScreen.vue) and the page that changes its look      *)
(* (SeatMineScreen.vue), both on a map that is read once and then followed *)
(* (liveSeats.ts), while the rest of the room, and the same person on      *)
(* another phone, claim and change seats and the plan moves.               *)
(*                                                                         *)
(* Pages come and go and what they asked for does not: an answer comes to  *)
(* the page that asked, even when that is no longer the page shown, and    *)
(* may still move the tab.  The reason that goes with a seat, with its     *)
(* CommitRequest, is left out, and the two streams of the map are one.     *)
(***************************************************************************)
EXTENDS Naturals, Sequences

CONSTANTS
  Places,     \* the places of the room
  Looks,      \* a colour and an emoji
  Me, Other,  \* who claims
  Free,       \* a place nobody has, or nobody is known to have
  Nowhere,    \* no place
  NoPlan,     \* no SeatingPlan, or no answer yet
  MaxMoves    \* bound: what people do, breaks and failures, all together

Seat(owner, look) == [owner |-> owner, look |-> look]
AnyLook == CHOOSE look \in Looks : TRUE    \* what a claim starts with, at random

SeatAssumption ==
  /\ MaxMoves \in Nat /\ Nowhere \notin Places /\ Looks # {}
  /\ \A l \in Looks : Seat(Me, l) # Free

VARIABLES
  seats,      \* the Seats in the API, by the place their name says
  plan,       \* the places of the plan there, or NoPlan
  stream,     \* the map's stream: synced, what came, what is on its way
  read,       \* readPlan and readSeats
  asked,      \* refresh, while it waits for its answer
  signedIn,   \* /auth/session says so
  route,      \* the page the tab shows
  nav, late,  \* the navigation in the guard, and one it took over from
  seated,     \* seated
  offered,    \* offered
  claim,      \* the claim page: selected, and whether username is known
  mine,       \* the seat page: found, what was found, and the pickers
  waits,      \* what the pages asked: onMounted, claim, change
  moves       \* how much of MaxMoves is used

roomVars == <<seats, plan>>
mapVars == <<stream, read, asked>>
guardVars == <<nav, late, seated, offered>>
tabVars == <<signedIn, route, guardVars>>
seatVars == <<roomVars, mapVars, tabVars, claim, mine, waits, moves>>

Move == moves < MaxMoves /\ moves' = moves + 1
Unmoved == UNCHANGED moves

Room == [plan |-> plan, seats |-> seats]
NoRoom == [plan |-> NoPlan, seats |-> [p \in Places |-> Free]]
MySeats == {p \in Places : seats[p] # Free /\ seats[p].owner = Me}

-----------------------------------------------------------------------------
(* The map: useSeatMap, and the watches of the two pages on it.            *)

NoStream == [synced |-> FALSE, room |-> NoRoom, wire |-> <<>>]

(* Once synced, the stream is the truth; until then what was read.         *)
ShownBy(follows, once) == IF follows.synced THEN follows.room ELSE once
Shown == ShownBy(stream, read)

(* The seat page's seat: the map's, by its name, or what was found.        *)
SeatOf(page, room) ==
  IF page.at = Nowhere THEN Free
  ELSE IF room.seats[page.at] # Free THEN room.seats[page.at] ELSE page.found
SeatOn(room) == SeatOf(mine, room)

(* Mutant: somebody else's claim does not take the choice back.            *)
KeepsTaken(room) == room.plan # NoPlan => claim.place \in room.plan

(* A choice stays while nobody else is seen to have it, and it is on the   *)
(* plan.                                                                   *)
Keeps(room) ==
  /\ room.seats[claim.place] # Free => claim.known /\ room.seats[claim.place].owner = Me
  /\ room.plan # NoPlan => claim.place \in room.plan

(* Mutant: the pickers follow the seat whatever was chosen.                *)
ByTheSeatAlways(before, now) == TRUE

ByTheSeat(before, now) == before = Free \/ mine.pick = before.look

(* The watch on the seat: untouched pickers go where the seat went.        *)
Follow(page, before, now) ==
  IF now # before /\ now # Free /\ ByTheSeat(before, now)
  THEN [page EXCEPT !.pick = now.look] ELSE page

Redraw ==
  LET room == ShownBy(stream', read')
  IN /\ claim' = IF claim.place # Nowhere /\ room # Shown /\ ~Keeps(room)
                 THEN [claim EXCEPT !.place = Nowhere] ELSE claim
     /\ mine' = Follow(mine, SeatOn(Shown), SeatOn(room))

Deliver ==
  /\ stream.synced /\ stream.wire # <<>> /\ Unmoved
  /\ stream' = [stream EXCEPT !.room = Head(stream.wire), !.wire = Tail(stream.wire)]
  /\ UNCHANGED <<read, asked>>

Sync ==
  /\ ~stream.synced /\ Unmoved
  /\ stream' = [synced |-> TRUE, room |-> Room, wire |-> <<>>]
  /\ UNCHANGED <<read, asked>>

Break ==
  /\ stream.synced /\ Move
  /\ stream' = NoStream
  /\ UNCHANGED <<read, asked>>

RoomServed ==
  /\ asked.at = "sent" /\ Unmoved
  /\ asked' = [at |-> "served", room |-> Room]
  /\ UNCHANGED <<stream, read>>

RoomAnswered ==
  /\ asked.at = "served" /\ Unmoved
  /\ asked' = [at |-> "none", room |-> NoRoom] /\ read' = asked.room
  /\ UNCHANGED stream

OnMap == route \in {"seat-claim", "seat-mine"}

MapStep ==
  /\ OnMap
  /\ Deliver \/ Sync \/ Break \/ RoomServed \/ RoomAnswered
  /\ Redraw
  /\ UNCHANGED <<roomVars, tabVars, waits>>

-----------------------------------------------------------------------------
(* The room.                                                               *)

Publish ==
  stream' = IF stream.synced THEN [stream EXCEPT !.wire = Append(@, [plan |-> plan', seats |-> seats'])]
            ELSE stream

Put(place, seat) ==
  /\ seats' = [seats EXCEPT ![place] = seat]
  /\ UNCHANGED plan /\ Publish

(* Somebody claims a seat, the same person changes theirs on another       *)
(* phone, the operator takes one away or moves the plan.                   *)
Others ==
  /\ Move
  /\ \/ \E p \in Places, who \in {Me, Other} :
          /\ seats[p] = Free /\ plan # NoPlan /\ p \in plan
          /\ Put(p, Seat(who, AnyLook))
     \/ \E p \in MySeats, look \in Looks : seats[p].look # look /\ Put(p, Seat(Me, look))
     \/ \E p \in Places : seats[p] # Free /\ Put(p, Free)
     \/ /\ plan' \in ((SUBSET Places) \ {{}}) \cup {NoPlan} /\ plan' # plan
        /\ UNCHANGED seats /\ Publish
  /\ UNCHANGED <<read, asked, tabVars, claim, mine, waits>>

-----------------------------------------------------------------------------
(* Navigation.                                                             *)

NoNav == [to |-> "home", at |-> "none"]

(* A navigation takes over from the one before it, whose guard still runs  *)
(* (bound: two guards at a time).                                          *)
Navigate(to) ==
  /\ late.at = "none"
  /\ nav' = [to |-> to, at |-> "session"]
  /\ late' = IF nav.at \in {"seat", "plan"} THEN nav ELSE late

Open(to) ==
  /\ Move /\ to # route /\ Navigate(to)
  /\ UNCHANGED <<roomVars, mapVars, signedIn, route, seated, offered, claim, mine, waits>>

Wait(page, at, place, look) ==
  [page |-> page, at |-> at, place |-> place, look |-> look, here |-> TRUE]
Left == {[w EXCEPT !.here = FALSE] : w \in waits}

(* The page comes up afresh, and asks what it asks when it is mounted.     *)
Arrive(page) ==
  /\ route' = page /\ nav' = NoNav
  /\ IF page = route THEN UNCHANGED <<mapVars, claim, mine, waits>>
     ELSE /\ stream' = NoStream /\ read' = NoRoom
          /\ asked' = [at |-> IF page \in {"seat-claim", "seat-mine"} THEN "sent" ELSE "none",
                       room |-> NoRoom]
          /\ claim' = [place |-> Nowhere, known |-> FALSE]
          /\ mine' = [at |-> Nowhere, found |-> Free, pick |-> AnyLook]
          /\ waits' = Left \cup
               CASE page = "seat-claim" -> {Wait(page, "who", Nowhere, AnyLook)}
                 [] page = "seat-mine" -> {Wait(page, "find", Nowhere, AnyLook)}
                 [] OTHER -> {}

(* needsSeat, asked only on the way home.                                  *)
SessionAnswered ==
  /\ nav.at = "session"
  /\ LET asks == signedIn /\ nav.to = "home" /\ ~seated /\ ~offered
     IN \/ /\ asks /\ nav' = [nav EXCEPT !.at = "seat"]
           /\ UNCHANGED <<mapVars, route, claim, mine, waits>>
        \/ ~asks /\ Arrive(IF signedIn THEN nav.to ELSE "login")
  /\ UNCHANGED <<roomVars, signedIn, late, seated, offered, moves>>

(* What a guard that is over does: only the latest one moves the tab.      *)
Decide(which, sends) ==
  IF which = "late" THEN /\ late' = NoNav
                         /\ UNCHANGED <<nav, mapVars, route, claim, mine, waits>>
  ELSE /\ UNCHANGED late
       /\ IF sends THEN /\ nav' = [to |-> "seat-claim", at |-> "session"]
                        /\ UNCHANGED <<mapVars, route, claim, mine, waits>>
          ELSE Arrive("home")

Guard(which) == IF which = "late" THEN late ELSE nav

SeatLooked(which) ==
  /\ Guard(which).at = "seat" /\ signedIn
  /\ \/ MySeats # {} /\ seated' = TRUE /\ Decide(which, FALSE)
     \/ /\ MySeats = {} /\ UNCHANGED <<seated, mapVars, route, claim, mine, waits>>
        /\ IF which = "late" THEN late' = [late EXCEPT !.at = "plan"] /\ UNCHANGED nav
           ELSE nav' = [nav EXCEPT !.at = "plan"] /\ UNCHANGED late
  /\ UNCHANGED <<roomVars, signedIn, offered, moves>>

PlanLooked(which) ==
  /\ Guard(which).at = "plan" /\ signedIn
  /\ offered' = (plan # NoPlan) /\ Decide(which, plan # NoPlan)
  /\ UNCHANGED <<roomVars, signedIn, seated, moves>>

(* A failure to find out is a no.                                          *)
GuardFails(which) ==
  /\ Guard(which).at \in {"seat", "plan"}
  /\ IF signedIn THEN Move ELSE Unmoved
  /\ Decide(which, FALSE)
  /\ UNCHANGED <<roomVars, signedIn, seated, offered>>

Expire ==
  /\ Move /\ signedIn /\ signedIn' = FALSE
  /\ UNCHANGED <<roomVars, mapVars, route, guardVars, claim, mine, waits>>

(* Signing in is a new page load.                                          *)
SignIn ==
  /\ route = "login" /\ nav.at = "none"
  /\ signedIn' = TRUE /\ nav' = [to |-> "home", at |-> "session"] /\ late' = NoNav
  /\ seated' = FALSE /\ offered' = FALSE /\ waits' = {}
  /\ UNCHANGED <<roomVars, mapVars, route, claim, mine, moves>>

-----------------------------------------------------------------------------
(* The pages, and the answers to what they asked.                          *)

(* canPick: only a place that is shown free.                               *)
Select(p) ==
  /\ Move /\ route = "seat-claim" /\ p # claim.place
  /\ Shown.plan # NoPlan /\ p \in Shown.plan /\ Shown.seats[p] = Free
  /\ claim' = [claim EXCEPT !.place = p]
  /\ UNCHANGED <<roomVars, mapVars, tabVars, mine, waits>>

Busy(page) == \E w \in waits : w.page = page /\ w.here

PressClaim ==
  /\ Move /\ route = "seat-claim" /\ claim.place # Nowhere /\ ~Busy("claim")
  /\ waits' = waits \cup {Wait("claim", "who", claim.place, AnyLook)}
  /\ UNCHANGED <<roomVars, mapVars, tabVars, claim, mine>>

Pick(look) ==
  /\ Move /\ route = "seat-mine" /\ SeatOn(Shown) # Free /\ look # mine.pick
  /\ mine' = [mine EXCEPT !.pick = look]
  /\ UNCHANGED <<roomVars, mapVars, tabVars, claim, waits>>

PressChange ==
  /\ Move /\ route = "seat-mine" /\ ~Busy("change")
  /\ SeatOn(Shown) # Free /\ mine.pick # SeatOn(Shown).look
  /\ waits' = waits \cup {Wait("change", "write", mine.at, mine.pick)}
  /\ UNCHANGED <<roomVars, mapVars, tabVars, claim, mine>>

To(w, at) == waits' = (waits \ {w}) \cup {[w EXCEPT !.at = at]}
Done(w) == waits' = waits \ {w}

(* currentUsername, then what needed it.                                   *)
WhoAnswered(w) ==
  /\ w.at = "who" /\ signedIn
  /\ To(w, IF w.page = "claim" THEN "write" ELSE "find")
  /\ claim' = IF w.here THEN [claim EXCEPT !.known = TRUE] ELSE claim
  /\ UNCHANGED <<roomVars, mapVars, tabVars, mine, moves>>

(* The API server: one name for one place, and admission holds a seat to   *)
(* the plan and to whoever claims it.                                      *)
SeatWritten(w) ==
  /\ w.at = "write" /\ signedIn
  /\ \/ /\ w.page = "claim" /\ seats[w.place] = Free /\ plan # NoPlan /\ w.place \in plan
        /\ Put(w.place, Seat(Me, w.look)) /\ To(w, "landed")
     \/ /\ w.page = "change" /\ w.place \in MySeats
        /\ Put(w.place, Seat(Me, w.look)) /\ To(w, "landed")
     \/ /\ w.page = "claim" /\ seats[w.place] # Free /\ To(w, "taken")
        /\ UNCHANGED <<roomVars, stream>>
  /\ UNCHANGED <<read, asked, tabVars, claim, mine, moves>>

(* Refused, or no answer: nothing but a sentence on the page.              *)
WaitFails(w) ==
  /\ IF signedIn /\ ~(w.at = "write" /\ (plan = NoPlan \/ w.place \notin plan)) THEN Move ELSE Unmoved
  /\ Done(w)
  /\ UNCHANGED <<roomVars, mapVars, tabVars, claim, mine>>

(* A claim that landed goes on to coffee.                                  *)
ClaimAnswered(w) ==
  /\ w.page = "claim" /\ w.at = "landed"
  /\ Done(w) /\ seated' = TRUE /\ Navigate("order")
  /\ UNCHANGED <<roomVars, mapVars, signedIn, route, offered, claim, mine, moves>>

(* 409: somebody was first, so choose again, on a map read again.          *)
ClaimTaken(w) ==
  /\ w.at = "taken" /\ Done(w)
  /\ IF w.here THEN /\ claim' = [claim EXCEPT !.place = Nowhere]
                    /\ asked' = [at |-> "sent", room |-> NoRoom]
     ELSE UNCHANGED <<claim, asked>>
  /\ UNCHANGED <<roomVars, stream, read, tabVars, mine, moves>>

(* A change is found again from its own answer; the map's seat may lag,    *)
(* and where the map shows none the answer moves the page's seat.          *)
ChangeAnswered(w) ==
  LET page == [mine EXCEPT !.found = Seat(Me, w.look)] IN
  /\ w.page = "change" /\ w.at = "landed" /\ Done(w)
  /\ mine' = IF w.here THEN Follow(page, SeatOn(Shown), SeatOf(page, Shown)) ELSE mine
  /\ UNCHANGED <<roomVars, mapVars, tabVars, claim, moves>>

(* onMounted of either page: whoever has a seat has nothing to claim, and  *)
(* whoever has none has nothing to change.                                 *)
SeatFound(w) ==
  /\ w.at = "find" /\ signedIn /\ Done(w)
  /\ \/ /\ w.page = "seat-claim" /\ MySeats # {}
        /\ seated' = TRUE /\ Navigate("seat-mine")
        /\ UNCHANGED mine
     \/ /\ w.page = "seat-mine" /\ MySeats = {}
        /\ Navigate("seat-claim") /\ UNCHANGED <<seated, mine>>
     \/ /\ w.page = "seat-claim" /\ MySeats = {} /\ UNCHANGED <<nav, late, seated, mine>>
     \/ /\ w.page = "seat-mine"
        /\ \E p \in MySeats :
             mine' = IF ~w.here THEN mine
                     ELSE [at |-> p, found |-> seats[p],
                           pick |-> IF Shown.seats[p] # Free THEN Shown.seats[p].look
                                    ELSE seats[p].look]
        /\ UNCHANGED <<nav, late, seated>>
  /\ UNCHANGED <<roomVars, mapVars, signedIn, route, offered, claim, moves>>

-----------------------------------------------------------------------------
SeatsInit ==
  /\ seats = NoRoom.seats /\ plan = Places
  /\ stream = NoStream /\ read = NoRoom /\ asked = [at |-> "none", room |-> NoRoom]
  /\ signedIn = TRUE /\ route = "login" /\ nav = NoNav /\ late = NoNav
  /\ seated = FALSE /\ offered = FALSE
  /\ claim = [place |-> Nowhere, known |-> FALSE]
  /\ mine = [at |-> Nowhere, found |-> Free, pick |-> AnyLook]
  /\ waits = {} /\ moves = 0

Guards ==
  \/ SessionAnswered \/ Expire \/ SignIn
  \/ \E to \in {"home", "seat-claim", "seat-mine", "order"} : Open(to)
  \/ \E which \in {"nav", "late"} : SeatLooked(which) \/ PlanLooked(which) \/ GuardFails(which)

Presses ==
  \/ \E p \in Places : Select(p)
  \/ \E look \in Looks : Pick(look)
  \/ PressClaim \/ PressChange

WaitAnswered(w) ==
  \/ WhoAnswered(w) \/ SeatWritten(w) \/ WaitFails(w) \/ ClaimAnswered(w) \/ ClaimTaken(w)
  \/ ChangeAnswered(w) \/ SeatFound(w)

SeatsNext == MapStep \/ Others \/ Guards \/ Presses \/ \E w \in waits : WaitAnswered(w)

SeatsSpec == SeatsInit /\ [][SeatsNext]_seatVars

(* The place that is about to be claimed is never one the phone already    *)
(* shows somebody else on, or one off the plan it shows                    *)
(* (SeatClaimScreen.vue: say so now, rather than letting the claim find    *)
(* out), whichever of read, stream and refresh came last.                  *)
ChosenIsFree ==
  (route = "seat-claim" /\ claim.place # Nowhere) =>
    /\ Shown.seats[claim.place] = Free \/ Shown.seats[claim.place].owner = Me
    /\ Shown.plan # NoPlan => claim.place \in Shown.plan

(* The pickers move by hand or with the seat, and a change made on another *)
(* phone, or the answer to this page's own, never overwrites a choice      *)
(* being made here (SeatMineScreen.vue: they follow it until you touch     *)
(* them).  Pickers put back to the look the seat has count as untouched.   *)
PickersFollow ==
  [][ (mine'.at = mine.at /\ mine.at # Nowhere /\ mine'.pick # mine.pick) =>
        \/ \E look \in Looks : Pick(look)
        \/ mine.pick = SeatOn(Shown).look /\ mine'.pick = SeatOn(Shown)'.look ]_seatVars
=============================================================================
