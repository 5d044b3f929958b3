-------------------------------- MODULE Pages --------------------------------
(***************************************************************************)
(* A tab of the frontend: the parts of its pages that work with the API on *)
(* their own, each a module.  A tab stays on one part here (part); what    *)
(* one page leaves behind for the next is in the modules themselves        *)
(* (Seats, Collections).  The editors (LiveEdit) and the lines under their *)
(* Save (CommitTrail) are extended, so that their definitions keep their   *)
(* names, and the others are instances.                                    *)
(***************************************************************************)
EXTENDS LiveEdit, CommitTrail

CONSTANTS
  Who, Controls, Unset, MaxChanges,                                \* RoomGrants
  Places, Looks, Me, Other, Free, Nowhere, NoPlan, MaxMoves,       \* Seats
  Revisions, Codes, Pods, Nothing, Agree, MaxMenus, MaxTaps,  \* Storefront
  Labels, Prices, Absent, MaxProducts, MaxEdits,                   \* FieldChanges
  Rules, Secrets, MaxGrants,                                       \* Authorization
  Names, BadName, Required, MaxActs                                \* Collections

VARIABLES
  part,       \* which part this tab is on
  control, bindings, marker, switch, busy, press, asked, rung, changes,
  seats, plan, mapStream, mapRead, mapAsked, signedIn, route, nav, late, seated, offered,
    claim, mySeat, waits, moves,
  source, menu, pods, fed, shown, voucher, menuReads, poll, hidden, menus, taps,
  products, drafted, edits,
  needs, held, watch, due, questions, authz, grants,
  kind, listed, follow, once, refresh, tab, form, filing, acts

roomVars == <<control, bindings, marker, switch, busy, press, asked, rung, changes>>
seatVars == <<seats, plan, mapStream, mapRead, mapAsked, signedIn, route, nav, late, seated,
              offered, claim, mySeat, waits, moves>>
barVars == <<source, menu, pods, fed, shown, voucher, menuReads, poll, hidden, menus, taps>>
formVars == <<products, drafted, edits>>
grantVars == <<needs, held, watch, due, questions, authz, grants>>
listVars == <<kind, listed, follow, once, refresh, tab, form, filing, acts>>
pagesVars == <<part, vars, roomVars, seatVars, barVars, trailVars, formVars, grantVars, listVars>>

Room == INSTANCE RoomGrants WITH shown <- switch
Map == INSTANCE Seats WITH stream <- mapStream, read <- mapRead, asked <- mapAsked, mine <- mySeat
Bar == INSTANCE Storefront WITH reads <- menuReads
Form == INSTANCE FieldChanges WITH offered <- products, Skus <- Labels
Grants == INSTANCE Authorization WITH Keys <- Secrets, MaxMoves <- MaxGrants, used <- grants
List == INSTANCE Collections

ASSUME PagesAssumption ==
  /\ Room!GrantAssumption /\ Map!SeatAssumption /\ Bar!StorefrontAssumption
  /\ TrailAssumption /\ Form!FormAssumption /\ Grants!AuthorizationAssumption
  /\ List!CollectionAssumption

Parts == {"edit", "room", "seats", "bar", "trail", "form", "grants", "list"}

(* What the tab is not on stays as it is.                                  *)
OthersStill(p) ==
  /\ part = p /\ UNCHANGED part
  /\ p # "edit" => UNCHANGED vars
  /\ p # "room" => UNCHANGED roomVars
  /\ p # "seats" => UNCHANGED seatVars
  /\ p # "bar" => UNCHANGED barVars
  /\ p # "trail" => UNCHANGED trailVars
  /\ p # "form" => UNCHANGED formVars
  /\ p # "grants" => UNCHANGED grantVars
  /\ p # "list" => UNCHANGED listVars

(* One beginning for each part the tab is not on.                          *)
PagesInit ==
  /\ part \in Parts
  /\ Init /\ (part = "edit" \/ screen = CHOOSE s \in Screens : TRUE)
  /\ Room!GrantsInit /\ (part = "room" \/ control = CHOOSE c \in Controls : TRUE)
  /\ Map!SeatsInit
  /\ Bar!StorefrontInit
  /\ part = "bar" \/ /\ source = "folder"
                     /\ menu = CHOOSE r \in Revisions : TRUE
                     /\ voucher = CHOOSE c \in Codes : TRUE
  /\ TrailInit /\ (part = "trail" \/ editor = "menu")
  /\ Form!FormInit /\ (part = "form" \/ products = <<CHOOSE p \in Form!Products : TRUE>>)
  /\ Grants!AuthorizationInit /\ (part = "grants" \/ (needs = "menu" /\ held = {}))
  /\ List!CollectionsInit /\ (part = "list" \/ (kind = "rounds" /\ listed = {}))

PagesNext ==
  \/ OthersStill("edit") /\ Next
  \/ OthersStill("room") /\ Room!GrantsNext
  \/ OthersStill("seats") /\ Map!SeatsNext
  \/ OthersStill("bar") /\ Bar!StorefrontNext
  \/ OthersStill("trail") /\ TrailNext
  \/ OthersStill("form") /\ Form!FormNext
  \/ OthersStill("grants") /\ Grants!AuthorizationNext
  \/ OthersStill("list") /\ List!CollectionsNext

(* What each module says of requests, timers and streams, while the tab is *)
(* on it.                                                                  *)
RoomFairness ==
  /\ WF_roomVars(part = "room" /\ Room!Told)
  /\ WF_roomVars(part = "room" /\ Room!Poll)
  /\ SF_roomVars(part = "room" /\ Room!PressSteps)
  /\ \A slot \in Room!Reads : WF_roomVars(part = "room" /\ Room!Requests(slot))

BarFairness ==
  /\ WF_barVars(part = "bar" /\ \E p \in Pods : Bar!PodFollows(p))
  /\ WF_barVars(part = "bar" /\ Bar!Polling)
  /\ WF_barVars(part = "bar" /\ Bar!Look)
  /\ \A slot \in Bar!Refreshers :
       WF_barVars(part = "bar" /\ (Bar!Served(slot) \/ Bar!Answered(slot)))

GrantsFairness ==
  /\ WF_grantVars(part = "grants" /\ Grants!Tick)
  /\ \A slot \in Grants!Asks :
       WF_grantVars(part = "grants" /\ (Grants!Served(slot) \/ Grants!Answered(slot)))

PagesSpec ==
  /\ PagesInit /\ [][PagesNext]_pagesVars
  /\ WF_vars(part = "edit" /\ Answers)
  /\ RoomFairness /\ BarFairness /\ GrantsFairness
  /\ WF_formVars(part = "form" /\ Form!Reverts)

(* RoomGrants: once nobody changes anything any more, a switch of the room *)
(* shows what the bindings say, and so does the phones' marker.            *)
RoomSettles == part = "room" => Room!RoomSettles

(* Seats: the place about to be claimed is shown free, and on the plan.    *)
ChosenIsFree == Map!ChosenIsFree

(* Seats: the pickers move by hand or with the seat (SeatMineScreen.vue).  *)
PickersFollow == Map!PickersFollow

(* Storefront: after a rollout every phone comes to the menu the pods hold *)
(* and stays on it (menuRevision.ts).                                      *)
MenuArrives == part = "bar" => Bar!MenuArrives

(* FieldChanges: reverting what is shown, in any order, ends with the      *)
(* products the server has (fieldChanges.ts, revertTarget).                *)
RevertsLeadHome == part = "form" => Form!RevertsLeadHome

(* Authorization: once no binding changes any more, the page says of every *)
(* verb and key what the API server would (authz.ts, useAuthorization.ts). *)
TableSettles == part = "grants" => Grants!TableSettles

(* Collections: a list that is synced shows what is there                  *)
(* (HomeScreen.vue, DatabasesScreen.vue).                                  *)
ListIsTruth == List!ListIsTruth
=============================================================================
