---------------------------- MODULE MCVoucherTill ----------------------------
(***************************************************************************)
(* A small shop: two coffees, two vouchers, an operator who raises,        *)
(* lowers and lifts the limit of the contested one.                        *)
(***************************************************************************)
EXTENDS VoucherTill, TLC

CONSTANTS r1, r2, r3, r4, espresso, mocha, testnet, staff

MCProducts == {espresso, mocha}
MCCodes == {testnet, staff}

Voucher(enabled, limit, skus) ==
  [listed |-> TRUE, enabled |-> enabled, limit |-> limit, appliesTo |-> skus]

Unlisted == [listed |-> FALSE, enabled |-> FALSE, limit |-> 0, appliesTo |-> {}]

Shop(mochaStock, t, s) ==
  [stock |-> espresso :> "on" @@ mocha :> mochaStock,
   vouchers |-> testnet :> t @@ staff :> s]

(* Limits of one and two, and none at all.                                 *)
Limits == {Shop("on", Voucher(TRUE, 1, {}), Unlisted),
           Shop("on", Voucher(TRUE, 2, {espresso}), Unlisted),
           Shop("off", Voucher(TRUE, 0, {espresso}), Unlisted)}

(* Three people after the same voucher, and one who pays the full price of *)
(* what one of the menus does not sell.                                    *)
Rivals == {r1, r2, r3}
Contested ==
  [r \in Rivals \cup {r4} |->
     IF r = r4 THEN [items |-> {mocha}, code |-> NoCode]
     ELSE [items |-> {espresso}, code |-> testnet]]

Anyone == Permutations(Rivals)

(* The one who pays comes after the race, to keep the run short: what he   *)
(* does between the others touches no limit and no count.                  *)
AfterTheRace ==
  phase[r4] = "new" \/ \A r \in Rivals : phase[r] \in {"done", "cut"}

=============================================================================
