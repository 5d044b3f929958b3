----------------------------- MODULE VoucherTill -----------------------------
(***************************************************************************)
(* The till of one Voter process: POST /public/orders from the moment the  *)
(* request is read to the moment it is answered, many requests at once,    *)
(* against a menu an operator keeps editing and a process that may be      *)
(* stopped (voter/participant_storefront.go, coffee_vouchers.go, main.go). *)
(*                                                                         *)
(* A handler gives up the processor wherever it waits or takes a lock, so  *)
(* it is one action up to each such point: the menu is read over the       *)
(* network, the ledger is counted under its own mutex, the identifier is   *)
(* drawn, the record is published under the feed's mutex, the status       *)
(* reconciler is told under another, and only then is the reply written.   *)
(*                                                                         *)
(* The ledger's count lives in the process: a restart forgives it.         *)
(***************************************************************************)
EXTENDS CoffeeMenu, Sequences, FiniteSets

CONSTANTS
  Requests,       \* the order requests, each sent once
  OrderOf,        \* what each request asks for
  Menus,          \* the menus the operator may publish
  MenuFromFolder, \* SETTINGS_DIR is set: the menu is loaded once, at start
  NoMenu,         \* a handler that has not read the menu yet
  MaxEdits,       \* bound: edits of the menu after the first
  MaxBoots        \* bound: restarts of the process

ASSUME TillAssumption ==
  /\ OrderOf \in [Requests -> Order]
  /\ Menus \subseteq Menu
  /\ MenuFromFolder \in BOOLEAN
  /\ NoMenu \notin Menus
  /\ MaxEdits \in Nat
  /\ MaxBoots \in Nat

VARIABLES
  editions,   \* the menus published so far; the last is the one in force
  since,      \* the edition in force when this process started
  phase,      \* where each request's handler is
  seen,       \* the menu each handler read
  outcome,    \* what each request comes to
  count,      \* voucherLedger.count
  feed,       \* orderLog.records, as the requests they came from
  told,       \* the requests coffeeStatus.orderPlaced was called for
  process,    \* "serving", or "stopping" after SIGTERM
  taken,      \* history: the requests this process accepted
  asked,      \* history: the edition in force when each was accepted
  boots

menuVars == <<editions, since>>
handlerVars == <<phase, seen, outcome>>
vars == <<menuVars, handlerVars, count, feed, told, process, taken, asked,
          boots>>

Phases == {"new", "reading", "preparing", "naming", "recording", "telling",
           "answering", "done", "cut"}

(* The failure codes of coffee_logic.go, what the handler does with a      *)
(* Kubernetes error, and the failure only an exhausted random source has.  *)
Outcomes == {"none", "placed", "KubeError", "EmptyOrder", "VoucherInvalid",
             "ProductUnavailable", "VoucherNotApplicable", "VoucherDepleted",
             "OrderIdUnavailable"}

InFlight == {r \in Requests : phase[r] \notin {"new", "done", "cut"}}

CodeOf(r) == OrderOf[r].code

Latest == Len(editions)

(* Mutant: the menu is kept from the start of the process.                 *)
ServedFromStart == editions[since]

(* deps.settings.menu, loaded at start, when there is a folder; the object *)
(* as it is now otherwise.                                                 *)
Served == editions[IF MenuFromFolder THEN since ELSE Latest]

(* The editions a read could have found since edition i was in force.      *)
Readable(i) == IF MenuFromFolder THEN {since} ELSE i..Latest

(* The requests that hold a use of c: counted and not given back.          *)
Holders(c) ==
  {r \in taken : /\ CodeOf(r) = c
                 /\ phase[r] = "naming" \/ outcome[r] = "placed"}

Init ==
  /\ editions \in {<<menu>> : menu \in Menus}
  /\ since = 1
  /\ phase = [r \in Requests |-> "new"]
  /\ seen = [r \in Requests |-> NoMenu]
  /\ outcome = [r \in Requests |-> "none"]
  /\ count = [c \in Codes |-> 0]
  /\ feed = <<>>
  /\ told = {}
  /\ process = "serving"
  /\ taken = {}
  /\ asked = [r \in Requests |-> 0]
  /\ boots = 0

-----------------------------------------------------------------------------
(* The handler.                                                            *)

Goto(r, from, to) == phase[r] = from /\ phase' = [phase EXCEPT ![r] = to]

Outcome(r, what) == outcome' = [outcome EXCEPT ![r] = what]

(* The body is read and is an order; a stopping server accepts no more.    *)
Submit(r) ==
  /\ process = "serving"
  /\ Goto(r, "new", "reading")
  /\ taken' = taken \cup {r}
  /\ asked' = [asked EXCEPT ![r] = Latest]
  /\ UNCHANGED <<menuVars, seen, outcome, count, feed, told, process, boots>>

ReadMenu(r) ==
  /\ Goto(r, "reading", "preparing")
  /\ seen' = [seen EXCEPT ![r] = Served]
  /\ UNCHANGED <<menuVars, outcome, count, feed, told, process, taken, asked,
                 boots>>

(* Denied, unreachable, or the 15 seconds are up: answered as Kubernetes'  *)
(* own error, and not recorded.  A menu from a folder cannot fail.         *)
ReadFails(r) ==
  /\ ~MenuFromFolder
  /\ Goto(r, "reading", "answering")
  /\ Outcome(r, "KubeError")
  /\ UNCHANGED <<menuVars, seen, count, feed, told, process, taken, asked,
                 boots>>

(* prepareCoffeeOrder says no, and nothing has been counted.               *)
Refuse(r) ==
  /\ Goto(r, "preparing", "recording")
  /\ Refusal(seen[r], OrderOf[r]) # "none"
  /\ Outcome(r, Refusal(seen[r], OrderOf[r]))
  /\ UNCHANGED <<menuVars, seen, count, feed, told, process, taken, asked,
                 boots>>

(* An order without a voucher does not touch the ledger.                   *)
TakeFullPrice(r) ==
  /\ Goto(r, "preparing", "naming")
  /\ CodeOf(r) = NoCode
  /\ Refusal(seen[r], OrderOf[r]) = "none"
  /\ UNCHANGED <<menuVars, seen, outcome, count, feed, told, process, taken,
                 asked, boots>>

(* redeem: the comparison and the count, under one lock, with the limit of *)
(* the menu this handler read.                                             *)
Redeem(r) ==
  LET c == CodeOf(r) IN
  /\ Goto(r, "preparing", "naming")
  /\ c # NoCode
  /\ Refusal(seen[r], OrderOf[r]) = "none"
  /\ ~AtLimit(count[c], seen[r].vouchers[c].limit)
  /\ count' = [count EXCEPT ![c] = @ + 1]
  /\ UNCHANGED <<menuVars, seen, outcome, feed, told, process, taken, asked,
                 boots>>

RedeemRefused(r) ==
  LET c == CodeOf(r) IN
  /\ Goto(r, "preparing", "recording")
  /\ c # NoCode
  /\ Refusal(seen[r], OrderOf[r]) = "none"
  /\ AtLimit(count[c], seen[r].vouchers[c].limit)
  /\ Outcome(r, "VoucherDepleted")
  /\ UNCHANGED <<menuVars, seen, count, feed, told, process, taken, asked,
                 boots>>

NameOrder(r) ==
  /\ Goto(r, "naming", "recording")
  /\ Outcome(r, "placed")
  /\ UNCHANGED <<menuVars, seen, count, feed, told, process, taken, asked,
                 boots>>

(* Mutants: a use is never given back; it is given back twice.             *)
ReleaseForgotten(c) == UNCHANGED count
ReleaseTwice(c) == count' = [count EXCEPT ![c] = @ - 2]

(* release, which never takes a count below zero.                          *)
Release(c) ==
  count' = IF count[c] > 0 THEN [count EXCEPT ![c] = @ - 1] ELSE count

(* randomToken fails: the use is given back.                               *)
NameFails(r) ==
  /\ Goto(r, "naming", "recording")
  /\ Outcome(r, "OrderIdUnavailable")
  /\ IF CodeOf(r) = NoCode THEN UNCHANGED count ELSE Release(CodeOf(r))
  /\ UNCHANGED <<menuVars, seen, feed, told, process, taken, asked,
                 boots>>

(* Mutant: the status is not told.                                         *)
RecordAndAnswer(r) ==
  /\ Goto(r, "recording", "answering")
  /\ feed' = Append(feed, r)
  /\ UNCHANGED <<menuVars, seen, outcome, count, told, process, taken, asked,
                 boots>>

(* Placed or refused, the room's feed gets it.                             *)
Record(r) ==
  /\ Goto(r, "recording",
          IF outcome[r] = "placed" THEN "telling" ELSE "answering")
  /\ feed' = Append(feed, r)
  /\ UNCHANGED <<menuVars, seen, outcome, count, told, process, taken, asked,
                 boots>>

(* Mutant: the wake-up of the reconciler waits for a slot of its channel.  *)
TellStatusBlocking(r) ==
  /\ told = {}
  /\ Goto(r, "telling", "answering")
  /\ told' = told \cup {r}
  /\ UNCHANGED <<menuVars, seen, outcome, count, feed, process, taken, asked,
                 boots>>

TellStatus(r) ==
  /\ Goto(r, "telling", "answering")
  /\ told' = told \cup {r}
  /\ UNCHANGED <<menuVars, seen, outcome, count, feed, process, taken, asked,
                 boots>>

Answer(r) ==
  /\ Goto(r, "answering", "done")
  /\ UNCHANGED <<menuVars, seen, outcome, count, feed, told, process, taken,
                 asked, boots>>

-----------------------------------------------------------------------------
(* The menu and the process.                                               *)

(* The operator saves, or Flux applies a commit.                           *)
EditMenu(menu) ==
  /\ Latest <= MaxEdits
  /\ editions' = Append(editions, menu)
  /\ UNCHANGED <<since, handlerVars, count, feed, told, process, taken, asked,
                 boots>>

(* SIGTERM: serve() stops accepting and waits for what is in flight.       *)
Stop ==
  /\ process = "serving"
  /\ boots < MaxBoots
  /\ process' = "stopping"
  /\ UNCHANGED <<menuVars, handlerVars, count, feed, told, taken, asked, boots>>

(* A new process: an empty ledger and an empty feed, and the folder read   *)
(* anew.                                                                   *)
Boot ==
  /\ boots' = boots + 1
  /\ process' = "serving"
  /\ count' = [c \in Codes |-> 0]
  /\ feed' = <<>>
  /\ told' = {}
  /\ taken' = {}
  /\ since' = Latest
  /\ UNCHANGED <<editions, asked>>

(* Shutdown has drained.                                                   *)
Restart ==
  /\ process = "stopping"
  /\ InFlight = {}
  /\ Boot
  /\ UNCHANGED handlerVars

(* Killed: whoever was waiting gets no answer.                             *)
Crash ==
  /\ boots < MaxBoots
  /\ phase' = [r \in Requests |-> IF r \in InFlight THEN "cut" ELSE phase[r]]
  /\ Boot
  /\ UNCHANGED <<seen, outcome>>

-----------------------------------------------------------------------------
Handle(r) ==
  \/ ReadMenu(r) \/ ReadFails(r) \/ Refuse(r) \/ TakeFullPrice(r)
  \/ Redeem(r) \/ RedeemRefused(r) \/ NameOrder(r) \/ NameFails(r)
  \/ Record(r) \/ TellStatus(r) \/ Answer(r)

Next ==
  \/ \E r \in Requests : Submit(r) \/ Handle(r)
  \/ \E menu \in Menus : EditMenu(menu)
  \/ Stop \/ Restart \/ Crash

Spec == Init /\ [][Next]_vars

(* Every wait of a handler is bounded (the read by its 15 seconds, the     *)
(* locks by sections that do no input or output), and a process told to    *)
(* stop is replaced by the Deployment.                                     *)
FairSpec == Spec /\ (\A r \in Requests : WF_vars(Handle(r))) /\ WF_vars(Restart)

-----------------------------------------------------------------------------
TypeOK ==
  /\ editions \in Seq(Menus) /\ since \in 1..Latest
  /\ phase \in [Requests -> Phases]
  /\ seen \in [Requests -> Menus \cup {NoMenu}]
  /\ outcome \in [Requests -> Outcomes]
  /\ count \in [Codes -> Nat]
  /\ feed \in Seq(Requests)
  /\ told \subseteq Requests /\ taken \subseteq Requests
  /\ asked \in [Requests -> 0..Latest]
  /\ process \in {"serving", "stopping"}
  /\ boots \in Nat

(* The ledger is exact: what it counts is the orders that drank, or are    *)
(* about to.  A refusal of any kind, whenever it came, burns nothing       *)
(* (placeCoffeeOrder: "a rejected order would burn an allowance nobody     *)
(* drank") and no use is given back twice.                                 *)
CountIsHeld == \A c \in Codes : count[c] = Cardinality(Holders(c))

(* However the requests interleave with each other and with edits of the   *)
(* menu, a voucher is never used more often than the most generous limit   *)
(* this process could have read for it.  An order that read the menu       *)
(* before the limit was lowered may still use the old one; no mix of old   *)
(* and new readers goes beyond the larger of the two.                      *)
NeverOversold ==
  \A c \in Codes :
    \/ Holders(c) = {}
    \/ \E i \in Readable(since) :
         LET limit == editions[i].vouchers[c].limit
         IN  limit = 0 \/ Cardinality(Holders(c)) <= limit

(* Whoever got an answer the shop decided can find it on the feed, refused *)
(* or placed, and of a placed one the status has heard: the reply is the   *)
(* last thing the handler does.  And no request is on the feed twice.      *)
OnFeed(r) == \E i \in 1..Len(feed) : feed[i] = r
AnsweredIsOnFeed ==
  /\ \A r \in taken :
       phase[r] = "done" =>
         /\ outcome[r] # "KubeError" => OnFeed(r)
         /\ outcome[r] = "placed" => r \in told
  /\ \A i, j \in 1..Len(feed) : feed[i] = feed[j] => i = j

(* "Depleted" is only said against a limit that was in force while that    *)
(* very order was in hand, and only while as many requests hold a use as   *)
(* that limit allows, whatever was refused, given back or forgiven before. *)
(* So raising maximumUsage serves the very next order with no restart      *)
(* (coffee_vouchers.go); with a folder the limit is the one at the start.  *)
DepletedOnlyWhenSpent ==
  [][\A r \in Requests :
       outcome'[r] = "VoucherDepleted" /\ outcome[r] # "VoucherDepleted" =>
         \E i \in Readable(asked[r]) :
           LET limit == editions[i].vouchers[CodeOf(r)].limit
           IN  limit > 0 /\ Cardinality(Holders(CodeOf(r))) >= limit]_vars

(* The till is an implementation of the ledger's promise: the counter, the *)
(* handlers, the failures and the restarts amount to claims, sales and     *)
(* claims given back, under limits the operator really published.          *)
Claimed == [c \in Codes |-> {r \in taken : CodeOf(r) = c /\ phase[r] = "naming"}]
Sold == [c \in Codes |-> {r \in taken : CodeOf(r) = c /\ outcome[r] = "placed"}]
Shown ==
  [c \in Codes |-> {editions[i].vouchers[c].limit : i \in Readable(since)}]

Promise == INSTANCE VoucherAllowance
             WITH claimed <- Claimed, sold <- Sold, shown <- Shown
KeepsPromise == Promise!Spec

(* Every order a process accepts is answered, unless it is killed; and a   *)
(* process told to stop does drain and is replaced.                        *)
EveryOrderAnswered ==
  /\ \A r \in Requests : (phase[r] = "reading") ~> (phase[r] \in {"done", "cut"})
  /\ (process = "stopping") ~> (process = "serving")

=============================================================================
