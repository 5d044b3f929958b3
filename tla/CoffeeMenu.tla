----------------------------- MODULE CoffeeMenu -----------------------------
(***************************************************************************)
(* The menu (a CoffeeConfig) and the part of an order's decision that is a *)
(* pure function of it: prepareCoffeeOrder in voter/coffee_logic.go.       *)
(*                                                                         *)
(* A voucher code is its normalized form: findVoucher and the ledger both  *)
(* lower-case and trim before they compare, so "TESTNET" and " testnet "   *)
(* are one member of Codes.  Names, texts, currency and the order lines    *)
(* copied into the reply are left out, and so is money: an order is        *)
(* accepted or refused without looking at a price.                         *)
(***************************************************************************)
EXTENDS Integers

CONSTANTS
  Products,   \* the SKUs anything refers to, listed on the menu or not
  Codes,      \* normalized voucher codes
  NoCode      \* an order or a visit that names no voucher

ASSUME MenuAssumption == NoCode \notin Codes

(* A limit of zero is maximumUsage left out: the CRD's minimum is zero.    *)
VoucherSpec ==
  [listed : BOOLEAN, enabled : BOOLEAN, limit : Nat,
   appliesTo : SUBSET Products]

(* Products and vouchers are keyed lists in the CRD, so each is a function *)
(* of the key, with a value for a key the menu does not list.              *)
Menu ==
  [stock : [Products -> {"on", "off", "unlisted"}],
   vouchers : [Codes -> VoucherSpec]]

(* An order as the till reads it: quantities summed per SKU, lines of zero *)
(* or less already dropped.                                                *)
Order == [items : SUBSET Products, code : Codes \cup {NoCode}]

(* findVoucher together with the two tests every caller makes of it.       *)
VoucherUsable(menu, code) ==
  menu.vouchers[code].listed /\ menu.vouchers[code].enabled

(* An empty appliesToProducts applies to everything.                       *)
AppliesTo(voucher, sku) ==
  voucher.appliesTo = {} \/ sku \in voucher.appliesTo

OnSale(menu, sku) == menu.stock[sku] = "on"

(* The first check that fails decides, in the order the code makes them.   *)
Refusal(menu, order) ==
  IF order.items = {} THEN "EmptyOrder"
  ELSE IF order.code # NoCode /\ ~VoucherUsable(menu, order.code)
    THEN "VoucherInvalid"
  ELSE IF \E sku \in order.items : ~OnSale(menu, sku)
    THEN "ProductUnavailable"
  ELSE IF /\ order.code # NoCode
          /\ \A sku \in order.items :
               ~AppliesTo(menu.vouchers[order.code], sku)
    THEN "VoucherNotApplicable"
  ELSE "none"

(* Mutant: one use too many passes.                                        *)
AtLimitOffByOne(used, limit) == limit > 0 /\ used > limit

(* The till and the published status compare with this one function.       *)
AtLimit(used, limit) == limit > 0 /\ used >= limit

=============================================================================
