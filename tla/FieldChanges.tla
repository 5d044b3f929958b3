---------------------------- MODULE FieldChanges ----------------------------
(***************************************************************************)
(* The menu editor's list of changes and its Revert buttons                *)
(* (fieldChanges.ts, AdminScreen.vue).  The store reports an edit anywhere *)
(* in the products as one change of the whole list, so the page reopens    *)
(* the list: it lines the server's products up with the draft's by their   *)
(* SKU, a renamed one by its row, or all of them by row while two have the *)
(* same SKU, and shows what differs, each with a button that puts that one *)
(* thing back.                                                             *)
(*                                                                         *)
(* One keyed list with one field beside its key; what the server says does *)
(* not move here (LiveEdit).                                               *)
(***************************************************************************)
EXTENDS Naturals, Sequences, FiniteSets, SequencesExt, FiniteSetsExt

CONSTANTS
  Skus,        \* what a SKU may be
  Prices,      \* what the other field may be
  Absent,      \* a field that is not there; nothing to compare with
  MaxProducts, \* bound: products in a list
  MaxEdits     \* bound: edits

FormAssumption == MaxProducts \in Nat /\ MaxEdits \in Nat /\ Absent \notin Prices \cup Skus

Products == [sku : Skus, price : Prices]
Keyed(list) ==
  \A i, j \in DOMAIN list : list[i].sku # Absent /\ (list[i].sku = list[j].sku => i = j)

VARIABLES
  offered,   \* the products the server says
  drafted,   \* the products of the draft
  edits      \* how much of MaxEdits is used

formVars == <<offered, drafted, edits>>

-----------------------------------------------------------------------------
(* pairElements: the row of the server's product that row j is compared    *)
(* with, or Absent.                                                        *)

RowOfSku(list, sku) == CHOOSE i \in DOMAIN list : list[i].sku = sku
Has(list, sku) == \E i \in DOMAIN list : list[i].sku = sku

LinesUp == Keyed(offered) /\ Keyed(drafted)

Partner(j) ==
  IF ~LinesUp THEN IF j \in DOMAIN offered THEN j ELSE Absent
  ELSE IF Has(offered, drafted[j].sku) THEN RowOfSku(offered, drafted[j].sku)
  ELSE IF j \in DOMAIN offered /\ ~Has(drafted, offered[j].sku) THEN j
  ELSE Absent

(* The server's rows nothing is compared with.                             *)
Alone == DOMAIN offered \ {Partner(j) : j \in DOMAIN drafted}

(* walk and leafChanges: what is shown, by where it is.  A product that is *)
(* gone has no row, so it goes by its SKU, or by the row it had.           *)
Edited == {[row |-> j, field |-> f] : j \in DOMAIN drafted, f \in {"sku", "price"}}
Added == {[row |-> j, field |-> "all"] : j \in DOMAIN drafted}
Gone == {[row |-> i, field |-> "gone"] : i \in DOMAIN offered}

Changes ==
  {c \in Edited : Partner(c.row) # Absent /\ drafted[c.row][c.field] # offered[Partner(c.row)][c.field]}
  \cup {c \in Added : Partner(c.row) = Absent}
  \cup {c \in Gone : c.row \in Alone}

-----------------------------------------------------------------------------
(* The person.                                                             *)

Edit == edits < MaxEdits /\ edits' = edits + 1 /\ UNCHANGED offered

(* Typing in a row.  Only a SKU the server does not have is open to be     *)
(* typed in, and it may become one that another row has as well.           *)
UpdateField(j, product) ==
  /\ Edit /\ j \in DOMAIN drafted /\ drafted[j] # product
  /\ \/ product.sku = drafted[j].sku
     \/ product.price = drafted[j].price /\ ~Has(offered, drafted[j].sku)
  /\ drafted' = [drafted EXCEPT ![j] = product]

(* addProduct, with a SKU no row has.                                      *)
AddProduct ==
  /\ Edit /\ Len(drafted) < MaxProducts
  /\ \E product \in Products : /\ ~Has(drafted, product.sku)
                               /\ drafted' = Append(drafted, product)

RemoveProduct(j) ==
  /\ Edit /\ j \in DOMAIN drafted
  /\ drafted' = RemoveAt(drafted, j)

(* The marker beside one field of a product that was added: the server has *)
(* no value for it, so it is taken out.                                    *)
RevertField(j, field) ==
  /\ Edit /\ j \in DOMAIN drafted /\ Partner(j) = Absent
  /\ drafted' = [drafted EXCEPT ![j][field] = Absent]

-----------------------------------------------------------------------------
(* revertTarget.                                                           *)

Smaller(i, j) == IF i < j THEN i ELSE j

(* A product that is gone comes back in its row, or last: with two of the  *)
(* same SKU about, and three products in all, its row is the last.         *)
Restore(i) ==
  drafted' = InsertAt(drafted, Smaller(i, Len(drafted) + 1), offered[i])

(* Mutant: the server's value is that of its row.                          *)
FromRow(j) == IF j \in DOMAIN offered THEN j ELSE Partner(j)

(* serverPathFor.                                                          *)
From(j) == Partner(j)

(* applyServerValue with what revertTarget found.                          *)
Revert(c) ==
  /\ c \in Changes
  /\ \/ c.field = "gone" /\ Restore(c.row)
     \/ c.field = "all" /\ drafted' = RemoveAt(drafted, c.row)
     \/ /\ c.field \in {"sku", "price"}
        /\ drafted' = [drafted EXCEPT ![c.row][c.field] = offered[From(c.row)][c.field]]
  /\ UNCHANGED <<offered, edits>>

(* The marker beside the whole list.                                       *)
RevertList ==
  /\ Changes # {} /\ drafted' = offered
  /\ UNCHANGED <<offered, edits>>

-----------------------------------------------------------------------------
FormInit ==
  /\ offered \in {list \in UNION {[1 .. n -> Products] : n \in 1 .. MaxProducts} : Keyed(list)}
  /\ drafted = offered /\ edits = 0

Reverts == \E c \in Changes : Revert(c)

FormNext ==
  \/ \E j \in DOMAIN drafted :
       \/ RemoveProduct(j)
       \/ \E product \in Products : UpdateField(j, product)
       \/ \E field \in {"sku", "price"} : RevertField(j, field)
  \/ AddProduct \/ Reverts \/ RevertList

(* Somebody who wants everything back goes on until nothing is shown.      *)
FormSpec == FormInit /\ [][FormNext]_formVars /\ WF_formVars(Reverts)

(* Whatever was typed, renamed, added and removed, and in whichever order  *)
(* the changes that are shown are then reverted, it ends: with nothing     *)
(* shown, and with the products the server has (fieldChanges.ts,           *)
(* revertTarget: a button puts back the thing it is beside, and no other). *)
RevertsLeadHome == <>[](Changes = {} /\ ToSet(drafted) = ToSet(offered))
=============================================================================
