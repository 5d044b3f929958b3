---------------------------- MODULE CoffeeStatus ----------------------------
(***************************************************************************)
(* The controller that keeps the status of the menu                        *)
(* (voter/coffee_status_reconciler.go): one goroutine that sleeps until an *)
(* order, the menu or a key pokes it, or the minute is up, then reads the  *)
(* menu, takes the pending first order, judges, and patches the status if  *)
(* it should say anything else.                                            *)
(*                                                                         *)
(* Orders come at any moment, also between any two steps of a pass; the    *)
(* menu is edited, deleted and made again; a read or a write fails, or its *)
(* answer is lost; and the process dies, which forgives every redemption.  *)
(* One voucher and one key stand for the lists of them: the judgement goes *)
(* through the list, and nothing else does.                                *)
(***************************************************************************)
EXTENDS Naturals, Sequences

CONSTANTS
  Orders,       \* the orders, each placed or failed once
  WithVoucher,  \* those that redeem the voucher
  Specs,        \* the menus the operator may save
  Earlier,      \* an order of an earlier process
  NoOrder,      \* a nil firstOrder, an absent firstOrderTime
  NoMenu,       \* the menu does not exist
  MaxEdits,     \* bound: saves of the menu and of the key
  MaxTroubles   \* bound: requests of the controller that fail, deletions of
                \* the menu and restarts, together

MenuSpec == [onSale: BOOLEAN, needsKey: BOOLEAN, voucher: BOOLEAN, limit: Nat,
          applies: BOOLEAN]

Reasons == {"", "ProductsEnabled", "NoEnabledProducts", "NoKeyRequired", "KeySet",
            "MailKeyMissing", "NoVouchers", "VouchersRedeemable",
            "VoucherDepleted", "VoucherNotApplicable", "ShopReady"}
Condition == [menu : Reasons, key : Reasons, vouchers : Reasons, ready : Reasons]
StatusType == [observed : Nat, first : Orders \cup {NoOrder, Earlier}, set : BOOLEAN,
               conditions : Condition]
MenuType == [uid : Nat, generation : Nat, spec : Specs, status : StatusType]

ASSUME StatusAssumption ==
  /\ WithVoucher \subseteq Orders
  /\ Specs \subseteq MenuSpec
  /\ NoOrder \notin Orders /\ Earlier \notin Orders
  /\ NoMenu \notin MenuType
  /\ MaxEdits \in Nat /\ MaxTroubles \in Nat

VARIABLES
  menu,       \* the CoffeeConfig in the API, with its status
  secret,     \* whether the key's Secret has a value
  menuNews,   \* an event of the menu is on its way to the handler
  keyWatch,   \* the events of the Secret on their way to the informer
  keyStore,   \* the informer's store: the one bit
  phase,      \* where each order's handler is
  uses,       \* voucherLedger.count of the voucher
  firstOrder, \* coffeeStatusReconciler.firstOrder
  cleared,    \* coffeeStatusReconciler.cleared
  changed,    \* coffeeStatusReconciler.changed, a channel of one slot
  worker,     \* where Run is
  got,        \* the menu this pass read
  pending,    \* the first order this pass took
  want,       \* the status this pass computed
  told,       \* history: the orders told to this process, in order
  gone,       \* history: the menu was deleted since the first of them
  written,    \* history: the menu the last write was computed from
  failed,     \* history: the last pass ended in an error
  returned,   \* history: a use was given back since the last judgement
  menus,      \* menus of the one name so far
  edits, troubles

apiVars == <<menu, secret, menuNews, keyWatch, keyStore>>
orderVars == <<phase, uses, told, returned>>
memory == <<firstOrder, cleared, changed>>
passVars == <<worker, got, pending, want>>
history == <<gone, written, failed>>
bounds == <<menus, edits, troubles>>
vars == <<apiVars, orderVars, memory, passVars, history, bounds>>

-----------------------------------------------------------------------------
(* computeCoffeeStatus.                                                    *)

MenuReason(spec) == IF spec.onSale THEN "ProductsEnabled" ELSE "NoEnabledProducts"

(* Mutant: the reason of the other key.                                    *)
KeyReasonSwapped(spec, set) ==
  IF spec.needsKey /\ ~set THEN "PaymentsKeyMissing" ELSE "NoKeyRequired"

KeyReason(spec, set) ==
  IF ~spec.needsKey THEN "NoKeyRequired"
  ELSE IF set THEN "KeySet" ELSE "MailKeyMissing"

(* voucherAtLimit, which the till uses too.                                *)
AtLimit(used, limit) == limit > 0 /\ used >= limit

VoucherReason(spec, used) ==
  IF ~spec.voucher THEN "NoVouchers"
  ELSE IF AtLimit(used, spec.limit) THEN "VoucherDepleted"
  ELSE IF ~spec.applies THEN "VoucherNotApplicable"
  ELSE "VouchersRedeemable"

Faults == {"NoEnabledProducts", "MailKeyMissing", "VoucherDepleted",
           "VoucherNotApplicable"}

(* Ready: the first part that is not True gives its reason.                *)
ReadyReason(m, k, v) ==
  IF m \in Faults THEN m ELSE IF k \in Faults THEN k
  ELSE IF v \in Faults THEN v ELSE "ShopReady"

Judgement(spec, set, used) ==
  [menu |-> MenuReason(spec), key |-> KeyReason(spec, set),
   vouchers |-> VoucherReason(spec, used),
   ready |-> ReadyReason(MenuReason(spec), KeyReason(spec, set),
                         VoucherReason(spec, used))]

Unjudged == [menu |-> "", key |-> "", vouchers |-> "", ready |-> ""]

Status(generation, first, set, conditions) ==
  [observed |-> generation, first |-> first, set |-> set,
   conditions |-> conditions]

NoStatus == Status(0, NoOrder, FALSE, Unjudged)

(* Mutant: a pending order goes before the one the status says.            *)
PreviousMoved(stored, order) ==
  IF order # NoOrder THEN order ELSE IF cleared THEN stored ELSE NoOrder

(* The first order of this process, if it said one already; otherwise the  *)
(* pending one.                                                            *)
Previous(stored, order) ==
  IF cleared /\ stored # NoOrder THEN stored ELSE order

(* Mutant: an absent time is not named.                                    *)
MergedWithoutNull(status, stored, new) ==
  Status(new.observed, IF new.first # NoOrder THEN new.first ELSE status.first,
         new.set, new.conditions)

(* coffeeStatusPatch as the API server applies it: fields are replaced,    *)
(* and a time that is not named is left, unless it is named as null.       *)
Merged(status, stored, new) ==
  Status(new.observed,
         IF new.first # NoOrder \/ stored.first # NoOrder
         THEN new.first ELSE status.first,
         new.set, new.conditions)

-----------------------------------------------------------------------------
Menu(uid, generation, spec, status) ==
  [uid |-> uid, generation |-> generation, spec |-> spec, status |-> status]

(* A process that has just started, over whatever the last one left.       *)
Init ==
  /\ \E spec \in Specs, first \in {NoOrder, Earlier} :
       menu = Menu(1, 1, spec, Status(0, first, FALSE, Unjudged))
  /\ secret \in BOOLEAN
  /\ menuNews = FALSE /\ keyWatch = <<>> /\ keyStore = FALSE
  /\ phase = [o \in Orders |-> "new"]
  /\ uses = 0
  /\ firstOrder = NoOrder /\ cleared = FALSE /\ changed = FALSE
  /\ worker = "syncing"
  /\ got = NoMenu /\ pending = NoOrder /\ want = NoStatus
  /\ told = <<>> /\ gone = FALSE /\ written = 0
  /\ failed = FALSE /\ returned = FALSE
  /\ menus = 1 /\ edits = 0 /\ troubles = 0

-----------------------------------------------------------------------------
(* Orders.  The till counts a use against the limit of a menu it read      *)
(* before, which may be any; then the order is placed and the status told, *)
(* or it cannot be named and the use is given back, which tells nobody.    *)

Goto(o, from, to) == phase[o] = from /\ phase' = [phase EXCEPT ![o] = to]

Used(o) == IF o \in WithVoucher THEN 1 ELSE 0

Count(o) ==
  /\ Goto(o, "new", "counted")
  /\ o \in WithVoucher => \E spec \in Specs : ~AtLimit(uses, spec.limit)
  /\ uses' = uses + Used(o)
  /\ UNCHANGED <<apiVars, told, returned, memory, passVars, history, bounds>>

GiveBack(o) ==
  /\ Goto(o, "counted", "refused")
  /\ uses' = IF uses > 0 THEN uses - Used(o) ELSE uses
  /\ returned' = (returned \/ o \in WithVoucher)
  /\ UNCHANGED <<apiVars, told, memory, passVars, history, bounds>>

(* Mutant: the channel has no slot, so a poke needs a receiver.            *)
PokeUnbuffered == changed' = (changed \/ worker = "waiting")

(* A send that never blocks: a full channel is poked already.              *)
Poke == changed' = TRUE

(* orderPlaced.                                                            *)
Tell(o) ==
  /\ Goto(o, "counted", "placed")
  /\ firstOrder' = IF firstOrder = NoOrder THEN o ELSE firstOrder
  /\ Poke
  /\ told' = Append(told, o)
  /\ UNCHANGED <<apiVars, uses, returned, cleared, passVars, history, bounds>>

-----------------------------------------------------------------------------
(* The menu and the key, and the watches that say they moved.  An event of *)
(* the menu only pokes, so those on their way are one.                     *)

Trouble == troubles < MaxTroubles /\ troubles' = troubles + 1

Edited == edits < MaxEdits /\ edits' = edits + 1

EditMenu(spec) ==
  /\ menu # NoMenu /\ spec # menu.spec
  /\ Edited
  /\ menu' = Menu(menu.uid, menu.generation + 1, spec, menu.status)
  /\ menuNews' = TRUE
  /\ UNCHANGED <<secret, keyWatch, keyStore, orderVars, memory, passVars,
                 history, menus, troubles>>

DeleteMenu ==
  /\ menu # NoMenu
  /\ Trouble
  /\ menu' = NoMenu
  /\ menuNews' = TRUE
  /\ gone' = (told # <<>>)
  /\ UNCHANGED <<secret, keyWatch, keyStore, orderVars, memory, passVars,
                 written, failed, menus, edits>>

CreateMenu(spec) ==
  /\ menu = NoMenu
  /\ menus' = menus + 1
  /\ menu' = Menu(menus + 1, 1, spec, NoStatus)
  /\ menuNews' = TRUE
  /\ UNCHANGED <<secret, keyWatch, keyStore, orderVars, memory, passVars,
                 history, edits, troubles>>

SetKey(set) ==
  /\ set # secret
  /\ Edited
  /\ secret' = set
  /\ keyWatch' = Append(keyWatch, set)
  /\ UNCHANGED <<menu, menuNews, keyStore, orderVars, memory, passVars,
                 history, menus, troubles>>

DeliverMenu ==
  /\ menuNews /\ worker # "syncing"
  /\ menuNews' = FALSE
  /\ Poke
  /\ UNCHANGED <<menu, secret, keyWatch, keyStore, orderVars, firstOrder,
                 cleared, passVars, history, bounds>>

DeliverKey ==
  /\ keyWatch # <<>> /\ worker # "syncing"
  /\ keyWatch' = Tail(keyWatch) /\ keyStore' = Head(keyWatch)
  /\ Poke
  /\ UNCHANGED <<menu, secret, menuNews, orderVars, firstOrder, cleared,
                 passVars, history, bounds>>

-----------------------------------------------------------------------------
(* Run and reconcile.                                                      *)

(* WaitForCacheSync.  The menu that was there is announced like any other. *)
Sync ==
  /\ worker = "syncing"
  /\ worker' = "due"
  /\ keyStore' = secret /\ keyWatch' = <<>>
  /\ menuNews' = (menu # NoMenu)
  /\ UNCHANGED <<menu, secret, orderVars, memory, got, pending, want, history,
                 bounds>>

(* The minute is up.                                                       *)
Tick ==
  /\ worker = "waiting"
  /\ worker' = "due"
  /\ UNCHANGED <<apiVars, orderVars, memory, got, pending, want, history,
                 bounds>>

Wake ==
  /\ worker = "waiting" /\ changed
  /\ worker' = "coalescing" /\ changed' = FALSE
  /\ UNCHANGED <<apiVars, orderVars, firstOrder, cleared, got, pending, want,
                 history, bounds>>

(* The window is over, and what came in it is accounted for.               *)
Coalesced ==
  /\ worker = "coalescing"
  /\ worker' = "due" /\ changed' = FALSE
  /\ UNCHANGED <<apiVars, orderVars, firstOrder, cleared, got, pending, want,
                 history, bounds>>

(* reconcile returns, and what it held goes with it.                       *)
Return == got' = NoMenu /\ pending' = NoOrder /\ want' = NoStatus

(* A pass that ends in an error is logged, and the loop waits again.       *)
EndInError ==
  /\ Trouble
  /\ worker' = "waiting" /\ failed' = TRUE
  /\ Return
  /\ UNCHANGED <<secret, keyWatch, keyStore, orderVars, memory, gone, menus,
                 edits>>

(* GET.                                                                    *)
Read ==
  /\ worker = "due" /\ menu # NoMenu
  /\ worker' = "judging"
  /\ got' = menu
  /\ UNCHANGED <<apiVars, orderVars, memory, pending, want, history, bounds>>

(* Not found is no error: there is nothing to write on.                    *)
ReadNothing ==
  /\ worker = "due" /\ menu = NoMenu
  /\ worker' = "waiting" /\ failed' = FALSE
  /\ UNCHANGED <<apiVars, orderVars, memory, got, pending, want, gone, written,
                 bounds>>

ReadFails ==
  worker = "due" /\ EndInError /\ UNCHANGED <<menu, menuNews, written>>

TakePending ==
  /\ worker = "judging"
  /\ worker' = "computing"
  /\ pending' = firstOrder
  /\ UNCHANGED <<apiVars, orderVars, memory, got, want, history, bounds>>

(* Mutant: the status is written whether it changed or not.                *)
DiffersAlways(stored, new) == TRUE

Differs(stored, new) == stored # new

(* computeCoffeeStatus, over the bit and the ledger as they are now; a     *)
(* write only when an answer changed.                                      *)
Compute ==
  /\ worker = "computing"
  /\ want' = Status(got.generation, Previous(got.status.first, pending),
                    keyStore, Judgement(got.spec, keyStore, uses))
  /\ worker' = IF Differs(got.status, want') THEN "writing" ELSE "closing"
  /\ returned' = FALSE
  /\ UNCHANGED <<apiVars, phase, uses, told, memory, got, pending, history,
                 bounds>>

(* Mutant: observedGeneration is that of the menu that is written to.      *)
LandedAsCurrent ==
  /\ menu' = [menu EXCEPT !.status = [want EXCEPT !.observed = menu.generation]]
  /\ written' = got.uid

(* The merge patch of the status lands on the menu of that name, and the   *)
(* watch will say so.                                                      *)
Landed ==
  /\ menu' = Menu(menu.uid, menu.generation, menu.spec,
                  Merged(menu.status, got.status, want))
  /\ written' = got.uid

PatchLands ==
  /\ worker = "writing" /\ menu # NoMenu
  /\ Landed /\ menuNews' = TRUE
  /\ worker' = "closing"
  /\ UNCHANGED <<secret, keyWatch, keyStore, orderVars, memory, got, pending,
                 want, gone, failed, bounds>>

(* Refused, timed out, or applied and the answer lost.                     *)
PatchFails ==
  /\ worker = "writing" /\ menu # NoMenu
  /\ EndInError
  /\ \/ Landed /\ menuNews' = TRUE
     \/ UNCHANGED <<menu, menuNews, written>>

(* The menu went since it was read, which here is an error.                *)
PatchNotFound ==
  /\ worker = "writing" /\ menu = NoMenu
  /\ worker' = "waiting" /\ failed' = TRUE
  /\ Return
  /\ UNCHANGED <<apiVars, orderVars, memory, gone, written, bounds>>

(* Mutant: whatever is pending now was said.                               *)
Forgotten == NoOrder

(* What this pass said is pending no longer; what came since still is.     *)
StillPending == IF firstOrder = pending THEN NoOrder ELSE firstOrder

Close ==
  /\ worker = "closing"
  /\ worker' = "waiting" /\ failed' = FALSE
  /\ cleared' = TRUE
  /\ firstOrder' = StillPending
  /\ Return
  /\ UNCHANGED <<apiVars, orderVars, changed, gone, written, bounds>>

(* The process dies and another starts: the write in flight lands or not,  *)
(* and the ledger and the pending order are forgotten.                     *)
Restart ==
  /\ Trouble
  /\ \/ worker = "writing" /\ menu # NoMenu /\ Landed
     \/ UNCHANGED <<menu, written>>
  /\ phase' = [o \in Orders |-> IF phase[o] = "counted" THEN "cut" ELSE phase[o]]
  /\ uses' = 0 /\ told' = <<>> /\ returned' = FALSE
  /\ firstOrder' = NoOrder /\ cleared' = FALSE /\ changed' = FALSE
  /\ worker' = "syncing" /\ keyStore' = FALSE /\ keyWatch' = <<>>
  /\ menuNews' = FALSE
  /\ gone' = FALSE /\ failed' = FALSE
  /\ Return
  /\ UNCHANGED <<secret, menus, edits>>

-----------------------------------------------------------------------------
Pass ==
  \/ Sync \/ Coalesced \/ Read \/ ReadNothing \/ ReadFails \/ TakePending
  \/ Compute \/ PatchLands \/ PatchFails \/ PatchNotFound \/ Close

Next ==
  \/ \E o \in Orders : Count(o) \/ GiveBack(o) \/ Tell(o)
  \/ \E spec \in Specs : EditMenu(spec) \/ CreateMenu(spec)
  \/ \E set \in BOOLEAN : SetKey(set)
  \/ DeleteMenu \/ DeliverMenu \/ DeliverKey
  \/ Pass \/ Tick \/ Wake \/ Restart

Spec == Init /\ [][Next]_vars

(* A pass ends within its 30 seconds, the ticker ticks, watches deliver,   *)
(* and a handler that counted a use places the order or gives it back.     *)
(* Nobody has to order, to edit or to restart.                             *)
FairSpec ==
  /\ Spec
  /\ WF_vars(Pass) /\ WF_vars(Tick \/ Wake)
  /\ WF_vars(DeliverMenu) /\ WF_vars(DeliverKey)
  /\ \A o \in Orders : WF_vars(GiveBack(o) \/ Tell(o))

-----------------------------------------------------------------------------
ToldSet == {told[i] : i \in 1..Len(told)}
InPass == {"judging", "computing", "writing", "closing"}

TypeOK ==
  /\ menu \in MenuType \cup {NoMenu}
  /\ got \in IF worker \in InPass THEN MenuType ELSE {NoMenu}
  /\ secret \in BOOLEAN /\ keyStore \in BOOLEAN /\ keyWatch \in Seq(BOOLEAN)
  /\ phase \in [Orders -> {"new", "counted", "placed", "refused", "cut"}]
  /\ uses \in Nat
  /\ firstOrder \in Orders \cup {NoOrder} /\ pending \in Orders \cup {NoOrder}
  /\ want \in StatusType
  /\ told \in Seq(Orders)
  /\ worker \in {"syncing", "waiting", "coalescing", "due", "judging",
                 "computing", "writing", "closing"}
  /\ menuNews \in BOOLEAN /\ cleared \in BOOLEAN /\ changed \in BOOLEAN
  /\ gone \in BOOLEAN /\ failed \in BOOLEAN /\ returned \in BOOLEAN
  /\ written \in Nat /\ menus \in Nat /\ edits \in Nat /\ troubles \in Nat

(* The first order told to this process is never lost, whenever it comes   *)
(* and whatever fails: until the status says it, it is pending; a write of *)
(* a pass that did not see it neither clears nor covers it.  A later order *)
(* is pending only beside a status that says the first.  This is so while  *)
(* the menu is not deleted: a menu made again after the first order was    *)
(* written says none, or a later one.                                      *)
FirstOrderKept ==
  told # <<>> /\ ~gone /\ firstOrder # told[1] =>
    menu # NoMenu /\ menu.status.first = told[1]

(* A first order of this process, once the status says it, is not moved or *)
(* removed by any write of it: not by a later order, not by a patch that   *)
(* was computed before it, not by one made again after an error ("replace  *)
(* a first order with a later one").                                       *)
FirstOrderStays ==
  [][/\ menu # NoMenu /\ menu' # NoMenu /\ menu'.uid = menu.uid
     /\ menu.status.first \in ToldSet
     => menu'.status.first = menu.status.first]_vars

(* The status says it has looked at this version of the menu only with     *)
(* conditions that are this version's, and that agree with the bit it      *)
(* shows beside them.  Not while the last write was computed from a menu   *)
(* that was deleted since: the patch goes by name.                         *)
ObservedIsJudged ==
  menu # NoMenu /\ written = menu.uid
    /\ menu.status.observed = menu.generation =>
       \E used \in {0, menu.spec.limit} :
         menu.status.conditions = Judgement(menu.spec, menu.status.set, used)

(* What the status should say now.                                         *)
Right ==
  menu # NoMenu =>
    /\ menu.status.observed = menu.generation
    /\ menu.status.set = secret
    /\ menu.status.conditions = Judgement(menu.spec, secret, uses)
    /\ firstOrder = NoOrder
    /\ menu.status.first \in ToldSet \cup {NoOrder}

InHand == {o \in Orders : phase[o] = "counted"}

(* No wake-up is lost.  When the controller sleeps and no event or poke is *)
(* on its way to it, the status is right without any resync: the order,    *)
(* the save or the key that came in the middle of a pass, in the window or *)
(* before the caches were filled, has been seen.  The exceptions are those *)
(* the resync is for: a pass that failed and a use that was given back;    *)
(* and an order in hand has yet to poke.                                   *)
NoWakeUpLost ==
  /\ worker = "waiting" /\ ~changed /\ ~menuNews /\ keyWatch = <<>>
  /\ ~failed /\ ~returned /\ InHand = {}
  => Right

(* In the end the status is right and stays right, whatever failed, was    *)
(* given back, deleted or forgotten, when changes stop.                    *)
Converges == <>[]Right

(* And the controller goes quiet: its own write, and the resync, find      *)
(* nothing to write ("what ends the loop").                                *)
GoesQuiet == <>[](worker # "writing")

=============================================================================
