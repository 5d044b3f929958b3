--------------------------- MODULE MCCoffeeStatus ---------------------------
(* Values of the constants: three menus that differ in whether the key is  *)
(* needed, in how often the voucher may be used, and in what is on sale.   *)
EXTENDS CoffeeStatus

CONSTANTS o1, o2

MCSpecs ==
  {[onSale |-> TRUE, needsKey |-> TRUE, voucher |-> TRUE, limit |-> 1,
    applies |-> TRUE],
   [onSale |-> TRUE, needsKey |-> FALSE, voucher |-> TRUE, limit |-> 2,
    applies |-> FALSE],
   [onSale |-> FALSE, needsKey |-> FALSE, voucher |-> FALSE, limit |-> 0,
    applies |-> FALSE]}

=============================================================================
