----------------------------- MODULE MCOrderFeed -----------------------------
(* Two screens on a ring of two with channels of one.                      *)
EXTENDS OrderFeed, TLC
CONSTANTS wall, phone
Screens == Permutations({wall, phone})
=============================================================================
