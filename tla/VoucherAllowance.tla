--------------------------- MODULE VoucherAllowance ---------------------------
(***************************************************************************)
(* What the voucher ledger promises, with no handlers, no menu and no      *)
(* counter: for each code, the requests that have claimed a use, the ones  *)
(* that were sold on it, and the limits the shop has shown since it        *)
(* opened.  A use is claimed only under a limit that was shown; a claim is *)
(* sold or given back; a sale is final until the shop reopens and forgets. *)
(* VoucherTill implements it.                                              *)
(***************************************************************************)
EXTENDS Integers, FiniteSets

CONSTANTS Codes, Requests

VARIABLES claimed, sold, shown

vars == <<claimed, sold, shown>>

Init ==
  /\ claimed = [c \in Codes |-> {}]
  /\ sold = [c \in Codes |-> {}]
  /\ shown \in [Codes -> SUBSET Nat]

(* A limit of zero is no limit.                                            *)
Room(c) ==
  \E limit \in shown[c] :
    limit = 0 \/ Cardinality(claimed[c] \cup sold[c]) < limit

Claim(c, r) ==
  /\ r \notin claimed[c] \cup sold[c]
  /\ Room(c)
  /\ claimed' = [claimed EXCEPT ![c] = @ \cup {r}]
  /\ UNCHANGED <<sold, shown>>

Sell(c, r) ==
  /\ r \in claimed[c]
  /\ claimed' = [claimed EXCEPT ![c] = @ \ {r}]
  /\ sold' = [sold EXCEPT ![c] = @ \cup {r}]
  /\ UNCHANGED shown

GiveBack(c, r) ==
  /\ r \in claimed[c]
  /\ claimed' = [claimed EXCEPT ![c] = @ \ {r}]
  /\ UNCHANGED <<sold, shown>>

(* The operator publishes another limit; handlers may hold the old one.    *)
Show ==
  /\ \A c \in Codes : shown[c] \subseteq shown'[c]
  /\ UNCHANGED <<claimed, sold>>

Reopen ==
  /\ claimed' = [c \in Codes |-> {}]
  /\ sold' = [c \in Codes |-> {}]

Next ==
  \/ \E c \in Codes, r \in Requests : Claim(c, r) \/ Sell(c, r) \/ GiveBack(c, r)
  \/ Show
  \/ Reopen

Spec == Init /\ [][Next]_vars

(* Sold and claimed together never pass the most generous limit shown.     *)
WithinLimits ==
  \A c \in Codes :
    \/ claimed[c] \cup sold[c] = {}
    \/ \E limit \in shown[c] :
         limit = 0 \/ Cardinality(claimed[c] \cup sold[c]) <= limit
=============================================================================
