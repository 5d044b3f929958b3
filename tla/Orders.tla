------------------------------- MODULE Orders -------------------------------
(***************************************************************************)
(* The participant server of one process: the till that decides an order   *)
(* (VoucherTill) and the feed that shows it (OrderFeed).  The till only    *)
(* appends to the feed's log and never waits for a screen, so each is      *)
(* modelled with its own view of the log, a behaviour is of one of them    *)
(* (part), and one run asks of both what must come of every order and of   *)
(* every watcher.                                                          *)
(***************************************************************************)
EXTENDS OrderFeed

CONSTANTS
  Products, Codes, NoCode, Requests, OrderOf, Menus, MenuFromFolder, NoMenu,
  MaxEdits, MaxProcesses                                   \* VoucherTill

VARIABLES
  part,        \* which of the two this is
  editions, since, phase, read, outcome, count, feed, told, process, taken,
    asked, processes                                       \* VoucherTill

tillVars == <<editions, since, phase, read, outcome, count, feed, told,
              process, taken, asked, processes>>
ordersVars == <<part, vars, tillVars>>

Till == INSTANCE VoucherTill
          WITH seen <- read, boots <- processes, MaxBoots <- MaxProcesses

ASSUME OrdersAssumption == Till!TillAssumption /\ Till!MenuAssumption

OrdersInit ==
  /\ part \in {"till", "feed"} /\ Init /\ Till!Init
  /\ part = "till" \/ editions = <<CHOOSE m \in Menus : TRUE>>

OrdersNext ==
  \/ part = "till" /\ UNCHANGED <<part, vars>> /\ Till!Next
  \/ part = "feed" /\ UNCHANGED <<part, tillVars>> /\ Next

(* What each module says of its handlers, its watchers and its process.    *)
OrdersSpec ==
  /\ OrdersInit /\ [][OrdersNext]_ordersVars
  /\ \A r \in Requests : WF_tillVars(part = "till" /\ Till!Handle(r))
  /\ WF_tillVars(part = "till" /\ Till!Restart)
  /\ \A k \in Conns :
       /\ WF_vars(part = "feed" /\ SendSnapshot(k))
       /\ WF_vars(part = "feed" /\ Forward(k))
       /\ WF_vars(part = "feed" /\ HandlerEnds(k))
  /\ \A b \in Browsers : WF_vars(part = "feed" /\ Receive(b))

(* VoucherTill: every order that is accepted is answered, unless the       *)
(* process is killed, and a stop ends (participant_storefront.go, main.go).*)
EveryOrderAnswered == part = "till" => Till!EveryOrderAnswered

=============================================================================
