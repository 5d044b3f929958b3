------------------------------ MODULE MCOrders ------------------------------
(***************************************************************************)
(* An order with a voucher, one without, and one whose voucher is for      *)
(* another coffee, if it is on the menu at all; a menu that refuses in     *)
(* the other ways, and one that sells; two screens.                        *)
(***************************************************************************)
EXTENDS Orders, TLC

CONSTANTS r1, r2, r3, espresso, mocha, testnet, staff, wall, phone

MCProducts == {espresso, mocha}
MCCodes == {testnet, staff}

Voucher(enabled, skus) ==
  [listed |-> TRUE, enabled |-> enabled, limit |-> 1, appliesTo |-> skus]
Unlisted == [listed |-> FALSE, enabled |-> FALSE, limit |-> 0, appliesTo |-> {}]

Shop(mochaStock, t, s) ==
  [stock |-> espresso :> "on" @@ mocha :> mochaStock,
   vouchers |-> testnet :> t @@ staff :> s]

Refusals == {Shop("off", Voucher(FALSE, {}), Unlisted),
             Shop("on", Voucher(TRUE, {}), Voucher(TRUE, {espresso}))}

Mixed == r1 :> [items |-> {espresso}, code |-> testnet]
      @@ r2 :> [items |-> {mocha}, code |-> NoCode]
      @@ r3 :> [items |-> {mocha}, code |-> staff]
=============================================================================
