----------------------------- MODULE Storefront -----------------------------
(***************************************************************************)
(* The coffee bar on one phone (OrderScreen.vue) while the menu changes    *)
(* under it.  Where the menu is a Kubernetes object, the page reads the    *)
(* storefront once and a stream keeps it current; where it comes from a    *)
(* folder, a new menu is new pods, and the page asks every second which    *)
(* menu they hold (menuRevision.ts), during a rollout now one pod and now  *)
(* another.  The cart and the order decide nothing here and are left out.  *)
(***************************************************************************)
EXTENDS Naturals

CONSTANTS
  Revisions,   \* what a menu may be
  Codes,       \* the vouchers a link may carry, or none
  Pods,        \* who answers
  Nothing,     \* no storefront yet, no answer
  Agree,       \* AGREE
  MaxMenus,    \* bound: changes of the menu
  MaxTaps      \* bound: what the person does, and what fails

StorefrontAssumption ==
  /\ Nothing \notin Revisions
  /\ Agree \in Nat \ {0} /\ MaxMenus \in Nat /\ MaxTaps \in Nat

VARIABLES
  source,      \* where the menu comes from: "stream" or "folder"
  menu,        \* the menu as it is
  pods,        \* the menu each pod holds
  fed,         \* the menu the stream delivered last
  shown,       \* cart.storefront: the revision and the voucher it is for
  voucher,     \* the voucher in the link
  reads,       \* refreshStorefront, in flight
  poll,        \* startMenuRevisionPoll: where tick is, last, agreed
  hidden,      \* document.hidden
  menus, taps  \* how much of the bounds is used

shopVars == <<source, menu, pods, fed, menus>>
phoneVars == <<shown, voucher, reads, poll, hidden, taps>>
barVars == <<shopVars, phoneVars>>

Tap == taps < MaxTaps /\ taps' = taps + 1
Refreshers == {"link", "poll"}   \* who called refreshStorefront: the voucher's watch, or a tick

-----------------------------------------------------------------------------
(* The menu moves, back as well as forward, and each pod comes after it.   *)
MenuChanges ==
  /\ menus < MaxMenus /\ menus' = menus + 1
  /\ menu' \in Revisions \ {menu}
  /\ UNCHANGED <<source, pods, fed, phoneVars>>

PodFollows(p) ==
  /\ pods[p] # menu /\ pods' = [pods EXCEPT ![p] = menu]
  /\ UNCHANGED <<source, menu, fed, menus, phoneVars>>

Storefront(rev, code) == [rev |-> rev, code |-> code]

(* watch(live.draft): the storefront, worked out on the phone.             *)
Streamed ==
  /\ source = "stream" /\ fed # menu
  /\ fed' = menu /\ shown' = Storefront(menu, voucher)
  /\ UNCHANGED <<source, menu, pods, menus, voucher, reads, poll, hidden, taps>>

-----------------------------------------------------------------------------
(* refreshStorefront.                                                      *)

NoRead == [at |-> "none", rev |-> Nothing, code |-> Nothing]
Ask(slot, code) ==
  reads' = [reads EXCEPT ![slot] = [at |-> "sent", rev |-> Nothing, code |-> code]]

(* Any pod may answer.                                                     *)
Served(slot) ==
  /\ reads[slot].at = "sent"
  /\ \E p \in Pods : reads' = [reads EXCEPT ![slot].at = "served", ![slot].rev = pods[p]]
  /\ UNCHANGED <<shopVars, shown, voucher, poll, hidden, taps>>

(* With its answer or without, a tick that waited for it goes on.          *)
Over(slot) ==
  /\ reads' = [reads EXCEPT ![slot] = NoRead]
  /\ poll' = IF slot = "poll" THEN [poll EXCEPT !.at = "wait"] ELSE poll

Answered(slot) ==
  /\ reads[slot].at = "served"
  /\ shown' = Storefront(reads[slot].rev, reads[slot].code) /\ Over(slot)
  /\ UNCHANGED <<shopVars, voucher, hidden, taps>>

ReadFails(slot) ==
  /\ Tap /\ reads[slot].at # "none" /\ Over(slot)
  /\ UNCHANGED <<shopVars, shown, voucher, hidden>>

(* Another link: the voucher's watch.  A read the link asked before is     *)
(* taken over by this one (bound: one of them at a time).                  *)
Scan(code) ==
  /\ Tap /\ code # voucher /\ reads["link"].at = "none"
  /\ voucher' = code /\ Ask("link", code)
  /\ UNCHANGED <<shopVars, shown, poll, hidden>>

-----------------------------------------------------------------------------
(* startMenuRevisionPoll.                                                  *)

(* A second is over.  A page in the background asks nothing.               *)
Tick ==
  /\ source = "folder" /\ poll.at = "wait" /\ ~hidden
  /\ poll' = [poll EXCEPT !.at = "ask"]
  /\ UNCHANGED <<shopVars, shown, voucher, reads, hidden, taps>>

(* Mutant: acts once, on an answer that differs from the one before it.    *)
ActsOnChange(seen, agreed) == seen # poll.last

(* Three identical answers in a row, that differ from what is on screen.   *)
Acts(seen, agreed) == agreed >= Agree /\ (shown = Nothing \/ seen # shown.rev)

RevisionSeen ==
  /\ poll.at = "ask"
  /\ \E p \in Pods :
       LET seen == pods[p]
           agreed == IF seen = poll.last THEN IF poll.agreed < Agree THEN poll.agreed + 1 ELSE Agree
                     ELSE 1
       IN IF Acts(seen, agreed)
          THEN /\ poll' = [at |-> "refresh", last |-> seen, agreed |-> 0]
               /\ Ask("poll", voucher)
          ELSE /\ poll' = [at |-> "wait", last |-> seen, agreed |-> agreed]
               /\ UNCHANGED reads
  /\ UNCHANGED <<shopVars, shown, voucher, hidden, taps>>

(* No usable answer leaves the count as it was.                            *)
NoRevision ==
  /\ Tap /\ poll.at = "ask" /\ poll' = [poll EXCEPT !.at = "wait"]
  /\ UNCHANGED <<shopVars, shown, voucher, reads, hidden>>

Hide ==
  /\ Tap /\ ~hidden /\ hidden' = TRUE
  /\ UNCHANGED <<shopVars, shown, voucher, reads, poll>>

Look ==
  /\ hidden /\ hidden' = FALSE
  /\ UNCHANGED <<shopVars, shown, voucher, reads, poll, taps>>

-----------------------------------------------------------------------------
StorefrontInit ==
  /\ source \in {"stream", "folder"}
  /\ menu \in Revisions /\ pods = [p \in Pods |-> menu] /\ fed = Nothing
  /\ shown = Nothing /\ voucher \in Codes
  /\ reads = [slot \in Refreshers |-> IF slot = "link" THEN [NoRead EXCEPT !.at = "sent", !.code = voucher]
                                 ELSE NoRead]
  /\ poll = [at |-> "wait", last |-> Nothing, agreed |-> 0] /\ hidden = FALSE
  /\ menus = 0 /\ taps = 0

StorefrontNext ==
  \/ MenuChanges \/ Streamed \/ Tick \/ RevisionSeen \/ NoRevision \/ Hide \/ Look
  \/ \E p \in Pods : PodFollows(p)
  \/ \E slot \in Refreshers : Served(slot) \/ Answered(slot) \/ ReadFails(slot)
  \/ \E code \in Codes : Scan(code)

(* Rollouts end, requests are answered, the timer runs and a phone that    *)
(* was put away is looked at again.                                        *)
Polling == Tick \/ RevisionSeen
StorefrontFairness ==
  /\ WF_barVars(\E p \in Pods : PodFollows(p))
  /\ WF_barVars(Polling) /\ WF_barVars(Look)
  /\ \A slot \in Refreshers : WF_barVars(Served(slot) \/ Answered(slot))

StorefrontSpec == StorefrontInit /\ [][StorefrontNext]_barVars /\ StorefrontFairness

(* Once a rollout is over, every phone comes to the menu the pods hold and *)
(* stays on it, whichever pods answered its polls and its refetches        *)
(* meanwhile, and in which order (menuRevision.ts, the comment above:      *)
(* acting once on seeing a change would leave a phone on the old menu).    *)
MenuArrives ==
  <>[](source = "folder" => shown # Nothing /\ shown.rev = menu)
=============================================================================
