------------------------- MODULE CoffeeStatusProofs -------------------------
(***************************************************************************)
(* Theorems about CoffeeStatus, for any orders, menus and bounds: the      *)
(* types; that the first order told to a process is never lost or moved    *)
(* (Inv); and that the status judges the version it says it observed, and  *)
(* is right whenever the controller sleeps unpoked (Inv2).                 *)
(***************************************************************************)
EXTENDS CoffeeStatus, SequenceTheorems, TLAPS

-----------------------------------------------------------------------------
(* The inductive invariant.  First is what the status ought to say.        *)

First == told[1]
Ours(x) == x = NoOrder \/ (told # <<>> /\ x = First)
Placed(x) == x \in Orders => phase[x] = "placed"
Passing == {"judging", "computing", "writing"}
Due == told # <<>> /\ ~gone

(* No order is named anywhere before it is placed.                         *)
PlacedOnly ==
  /\ \A i \in 1..Len(told) : phase[told[i]] = "placed"
  /\ Placed(firstOrder) /\ Placed(pending) /\ Placed(want.first)
  /\ menu # NoMenu => Placed(menu.status.first)
  /\ got # NoMenu => Placed(got.status.first)

NoneTold == told = <<>> => firstOrder = NoOrder /\ pending = NoOrder /\ ~gone

(* Once the first order is pending no longer, the status says it, and this *)
(* process will not clear it.                                              *)
Published ==
  Due /\ firstOrder # First =>
    cleared /\ menu # NoMenu /\ menu.status.first = First

(* What a pass read is still there, or the menu is another, which says no  *)
(* order; the one that says the first is the one that is there.            *)
ReadIsThere ==
  worker \in Passing =>
    /\ got # NoMenu
    /\ menu # NoMenu => menu.status.first \in {got.status.first, NoOrder}
    /\ Due /\ got.status.first = First =>
         menu # NoMenu /\ menu.status.first = First
    /\ Due /\ firstOrder # First => got.status.first = First

(* A pass that took a later order took it after the first was published.   *)
TookLater ==
  worker = "computing" /\ Due /\ ~Ours(pending) => firstOrder # First

(* What a process that has cleared reads, and what it writes, is its own.  *)
OwnOnly ==
  ~gone =>
    /\ cleared /\ menu # NoMenu => Ours(menu.status.first)
    /\ cleared /\ worker \in {"judging", "computing"} => Ours(got.status.first)
    /\ worker = "writing" => Ours(want.first)
    /\ worker = "closing" /\ menu # NoMenu => Ours(menu.status.first)

(* A pass that is about to write says the first order, if it took it or    *)
(* came after it was published; one that is about to end has said it.      *)
SaysFirst ==
  /\ worker = "writing" /\ Due /\ (firstOrder # First \/ pending = First) =>
       want.first = First
  /\ worker = "closing" /\ Due /\ pending = First =>
       menu # NoMenu /\ menu.status.first = First

(* Before it has cleared, a process whose order the menu says, or a pass   *)
(* read there, still has it pending, and says it again.                    *)
SaysAgain ==
  /\ ~cleared /\ menu # NoMenu /\ menu.status.first \in ToldSet =>
       firstOrder = menu.status.first
  /\ worker = "judging" /\ ~cleared /\ got.status.first \in ToldSet =>
       firstOrder = got.status.first
  /\ worker \in {"computing", "writing"} /\ ~cleared /\ pending # NoOrder =>
       firstOrder = pending
  /\ worker = "computing" /\ ~cleared /\ got.status.first \in ToldSet =>
       pending = got.status.first
  /\ worker = "writing" /\ got.status.first \in ToldSet =>
       want.first = got.status.first
  /\ worker = "writing" /\ ~cleared => want.first = pending

Inv ==
  /\ TypeOK /\ PlacedOnly /\ NoneTold /\ Published /\ ReadIsThere
  /\ TookLater /\ OwnOnly /\ SaysFirst /\ SaysAgain

-----------------------------------------------------------------------------
(* A judgement is a condition, whatever it is of.                          *)
LEMMA JudgementType ==
  ASSUME NEW spec \in Specs, NEW set \in BOOLEAN, NEW used \in Nat
  PROVE  Judgement(spec, set, used) \in Condition
<1>1. /\ MenuReason(spec) \in Reasons
      /\ KeyReason(spec, set) \in Reasons
      /\ VoucherReason(spec, used) \in Reasons
  BY DEF MenuReason, KeyReason, VoucherReason, Reasons
<1>2. ASSUME NEW m \in Reasons, NEW k \in Reasons, NEW v \in Reasons
      PROVE  ReadyReason(m, k, v) \in Reasons
  BY DEF ReadyReason, Reasons
<1> QED
  BY <1>1, <1>2 DEF Judgement, Condition

LEMMA UnjudgedType == Unjudged \in Condition
  BY DEF Unjudged, Condition, Reasons

LEMMA StatusIs ==
  ASSUME NEW generation \in Nat, NEW first \in Orders \cup {NoOrder, Earlier},
         NEW set \in BOOLEAN, NEW conditions \in Condition
  PROVE  Status(generation, first, set, conditions) \in StatusType
  BY DEF Status, StatusType

LEMMA MenuIs ==
  ASSUME NEW uid \in Nat, NEW generation \in Nat, NEW spec \in Specs,
         NEW status \in StatusType
  PROVE  Menu(uid, generation, spec, status) \in MenuType
  BY DEF Menu, MenuType

LEMMA NoStatusType == NoStatus \in StatusType
  BY StatusIs, UnjudgedType DEF NoStatus

(* What a menu and a status are made of.                                   *)
LEMMA MenuParts ==
  ASSUME NEW m \in MenuType
  PROVE  /\ m.uid \in Nat /\ m.generation \in Nat /\ m.spec \in Specs
         /\ m.status \in StatusType
  BY DEF MenuType

LEMMA StatusParts ==
  ASSUME NEW s \in StatusType
  PROVE  /\ s.observed \in Nat /\ s.first \in Orders \cup {NoOrder, Earlier}
         /\ s.set \in BOOLEAN /\ s.conditions \in Condition
  BY DEF StatusType

(* A patch that lands leaves a menu.                                       *)
LEMMA LandedType ==
  ASSUME TypeOK, menu # NoMenu, worker = "writing", Landed
  PROVE  menu' \in MenuType /\ written' \in Nat
<1>1. menu \in MenuType /\ got \in MenuType /\ want \in StatusType
  BY DEF TypeOK, InPass
<1>2. Merged(menu.status, got.status, want) \in StatusType
  BY <1>1, MenuParts, StatusParts, StatusIs DEF Merged
<1> QED
  BY <1>1, <1>2, MenuParts, MenuIs DEF Landed

LEMMA InitType == Init => TypeOK
<1> SUFFICES ASSUME Init PROVE TypeOK
  OBVIOUS
<1>1. menu \in MenuType
  BY UnjudgedType, StatusIs, MenuIs DEF Init
<1>2. /\ keyWatch \in Seq(BOOLEAN) /\ told \in Seq(Orders)
      /\ phase \in [Orders -> {"new", "counted", "placed", "refused", "cut"}]
      /\ want \in StatusType /\ got \in IF worker \in InPass THEN MenuType ELSE {NoMenu}
  BY NoStatusType DEF Init, InPass
<1>3. /\ secret \in BOOLEAN /\ keyStore \in BOOLEAN
      /\ menuNews \in BOOLEAN /\ cleared \in BOOLEAN /\ changed \in BOOLEAN
      /\ gone \in BOOLEAN /\ failed \in BOOLEAN /\ returned \in BOOLEAN
  BY DEF Init
<1>4. /\ uses \in Nat
      /\ written \in Nat /\ menus \in Nat /\ edits \in Nat /\ troubles \in Nat
  BY DEF Init
<1> QED
  BY <1>1, <1>2, <1>3, <1>4 DEF Init, TypeOK

LEMMA NextType == TypeOK /\ [Next]_vars => TypeOK'
<1> SUFFICES ASSUME TypeOK, [Next]_vars PROVE TypeOK'
  OBVIOUS
<1> USE StatusAssumption, NoStatusType
    DEF TypeOK, InPass, apiVars, orderVars, memory, passVars, history,
        bounds
<1>1. ASSUME NEW o \in Orders, Count(o) PROVE TypeOK'
  BY <1>1 DEF Count, Goto, Used
<1>2. ASSUME NEW o \in Orders, GiveBack(o) PROVE TypeOK'
  <2>1. uses' \in Nat
    BY <1>2 DEF GiveBack, Used
  <2>2. phase' \in [Orders -> {"new", "counted", "placed", "refused", "cut"}]
    BY <1>2 DEF GiveBack, Goto
  <2>3. UNCHANGED <<apiVars, told, memory, passVars, history, bounds>>
    BY <1>2 DEF GiveBack
  <2>4. returned' \in BOOLEAN
    BY <1>2, Zenon DEF GiveBack
  <2> QED
    BY <2>1, <2>2, <2>3, <2>4
<1>3. ASSUME NEW o \in Orders, Tell(o) PROVE TypeOK'
  BY <1>3 DEF Tell, Poke, Goto
<1>4. ASSUME NEW spec \in Specs, EditMenu(spec) PROVE TypeOK'
  <2>1. menu \in MenuType
    BY <1>4 DEF EditMenu
  <2>2. /\ menu.uid \in Nat /\ menu.generation + 1 \in Nat
        /\ menu.status \in StatusType
    BY <2>1, MenuParts
  <2>3. Menu(menu.uid, menu.generation + 1, spec, menu.status) \in MenuType
    BY <2>2, MenuIs
  <2> QED
    BY <1>4, <2>3 DEF EditMenu, Edited
<1>5. ASSUME NEW spec \in Specs, CreateMenu(spec) PROVE TypeOK'
  BY <1>5, MenuIs DEF CreateMenu
<1>6. ASSUME NEW set \in BOOLEAN, SetKey(set) PROVE TypeOK'
  BY <1>6 DEF SetKey, Edited
<1>7. CASE Tick
  BY <1>7 DEF Tick
<1>8. CASE Wake
  BY <1>8 DEF Wake
<1>9. CASE DeleteMenu
  BY <1>9 DEF DeleteMenu, Trouble
<1>10. CASE DeliverMenu
  BY <1>10 DEF DeliverMenu, Poke
<1>11. CASE DeliverKey
  BY <1>11 DEF DeliverKey, Poke
<1>12. CASE Restart
  <2>1. menu' \in MenuType \cup {NoMenu} /\ written' \in Nat
    BY <1>12, LandedType DEF Restart
  <2>2. phase' \in [Orders -> {"new", "counted", "placed", "refused", "cut"}]
    BY <1>12 DEF Restart
  <2>3. /\ uses' = 0 /\ told' = <<>> /\ keyWatch' = <<>> /\ worker' = "syncing"
        /\ firstOrder' = NoOrder /\ Return /\ Trouble
        /\ UNCHANGED <<secret, menus, edits>>
    BY <1>12 DEF Restart
  <2>4. /\ returned' \in BOOLEAN /\ cleared' \in BOOLEAN /\ changed' \in BOOLEAN
        /\ keyStore' \in BOOLEAN /\ menuNews' \in BOOLEAN
        /\ gone' \in BOOLEAN /\ failed' \in BOOLEAN
    BY <1>12 DEF Restart
  <2> QED
    BY <2>1, <2>2, <2>3, <2>4 DEF Return, Trouble
<1>13. CASE Sync
  BY <1>13 DEF Sync
<1>14. CASE Coalesced
  BY <1>14 DEF Coalesced
<1>15. CASE Read
  BY <1>15 DEF Read
<1>16. CASE ReadNothing
  BY <1>16 DEF ReadNothing
<1>17. CASE ReadFails
  BY <1>17 DEF ReadFails, EndInError, Trouble, Return
<1>18. CASE TakePending
  BY <1>18 DEF TakePending
<1>19. CASE Compute
  BY <1>19, JudgementType, MenuParts, StatusParts, StatusIs
  DEF Compute, Differs, Previous
<1>20. CASE PatchLands
  BY LandedType, <1>20 DEF PatchLands
<1>21. CASE PatchFails
  <2>1. /\ menu' \in MenuType /\ written' \in Nat /\ menuNews' \in BOOLEAN
    BY <1>21, LandedType DEF PatchFails
  <2>2. EndInError
    BY <1>21 DEF PatchFails
  <2> QED
    BY <2>1, <2>2 DEF EndInError, Trouble, Return
<1>22. CASE PatchNotFound
  BY <1>22 DEF PatchNotFound, Return
<1>23. CASE Close
  BY <1>23 DEF Close, Return, StillPending
<1>24. CASE UNCHANGED vars
  BY <1>24 DEF vars
<1> QED
  BY <1>1, <1>2, <1>3, <1>4, <1>5, <1>6, <1>7, <1>8, <1>9, <1>10, <1>11, <1>12, <1>13, <1>14, <1>15, <1>16, <1>17, <1>18, <1>19, <1>20, <1>21, <1>22, <1>23, <1>24 DEF Next, Pass

(* Every variable keeps its type, for any orders, menus and bounds.        *)
THEOREM StatusTypeCorrect == Spec => []TypeOK
  BY InitType, NextType, PTL DEF Spec

-----------------------------------------------------------------------------
(* What a patch that lands makes the status say.                           *)
LEMMA LandedFirst ==
  ASSUME TypeOK, menu # NoMenu, worker = "writing", Landed
  PROVE  /\ menu' # NoMenu /\ menu'.uid = menu.uid
         /\ menu'.status.first =
              IF want.first # NoOrder \/ got.status.first # NoOrder
              THEN want.first ELSE menu.status.first
<1>1. menu' # NoMenu
  BY LandedType, StatusAssumption
<1> QED
  BY <1>1 DEF Landed, Merged, Menu, Status

(* What telling an order adds.                                             *)
LEMMA TellFacts ==
  ASSUME TypeOK, PlacedOnly, NEW o \in Orders, Tell(o)
  PROVE  /\ told' # <<>>
         /\ told = <<>> => told'[1] = o
         /\ told # <<>> => told'[1] = told[1]
         /\ ToldSet' = ToldSet \cup {o}
         /\ \A i \in 1..Len(told') : phase'[told'[i]] = "placed"
         /\ told # <<>> => told[1] # o
         /\ o \notin ToldSet
         /\ phase[o] = "counted" /\ phase' = [phase EXCEPT ![o] = "placed"]
  BY DEF TypeOK, PlacedOnly, Tell, Goto, ToldSet

LEMMA InitInv == Init => Inv
<1> SUFFICES ASSUME Init PROVE Inv
  OBVIOUS
<1>1. menu.status.first \in {NoOrder, Earlier} /\ want.first = NoOrder
  BY DEF Init, Menu, Status, NoStatus
<1>2. /\ told = <<>> /\ firstOrder = NoOrder /\ pending = NoOrder
      /\ got = NoMenu /\ worker = "syncing" /\ ~cleared /\ ~gone
  BY DEF Init
<1> QED
  BY <1>1, <1>2, InitType, StatusAssumption
  DEF Inv, PlacedOnly, NoneTold, Published, ReadIsThere, TookLater,
      OwnOnly, SaysFirst, SaysAgain, Due, Placed, Passing, ToldSet

LEMMA NextInv == Inv /\ [Next]_vars => Inv'
<1> SUFFICES ASSUME Inv, [Next]_vars PROVE Inv'
  OBVIOUS
<1>0. TypeOK /\ TypeOK'
  BY NextType DEF Inv
<1> USE <1>0, StatusAssumption
    DEF Inv, PlacedOnly, NoneTold, Published, ReadIsThere, TookLater,
        OwnOnly, SaysFirst, SaysAgain, Due, First, Ours, Placed, Passing,
        ToldSet, apiVars, orderVars, memory, passVars, history, bounds
<1>1. ASSUME NEW o \in Orders, Count(o) PROVE Inv'
  <2>1. /\ UNCHANGED <<menu, told, memory, passVars, gone>>
        /\ \A p \in Orders : phase[p] = "placed" => phase'[p] = "placed"
    BY <1>1 DEF Count, Goto, TypeOK
  <2> QED
    BY <2>1 DEF TypeOK
<1>2. ASSUME NEW o \in Orders, GiveBack(o) PROVE Inv'
  BY <1>2 DEF GiveBack, Goto, TypeOK
<1>3. ASSUME NEW o \in Orders, Tell(o) PROVE Inv'
  BY <1>3, TellFacts DEF Tell, Poke, TypeOK
<1>4. ASSUME NEW spec \in Specs, EditMenu(spec) PROVE Inv'
  <2>1. menu # NoMenu /\ menu' # NoMenu /\ menu'.status = menu.status
    <3>1. menu \in MenuType /\ menu # NoMenu
      BY <1>4 DEF EditMenu, TypeOK
    <3>2. menu' = Menu(menu.uid, menu.generation + 1, spec, menu.status)
      BY <1>4 DEF EditMenu
    <3>3. menu.generation + 1 \in Nat /\ menu.uid \in Nat /\ menu.status \in StatusType
      BY <3>1, MenuParts
    <3>4. menu' \in MenuType
      BY <3>2, <3>3, MenuIs
    <3> QED
      BY <3>1, <3>2, <3>4 DEF Menu
  <2> QED
    BY <1>4, <2>1 DEF EditMenu
<1>5. ASSUME NEW spec \in Specs, CreateMenu(spec) PROVE Inv'
  <2>1. menu = NoMenu /\ menu' # NoMenu /\ menu'.status.first = NoOrder
    <3>1. menu = NoMenu /\ menu' = Menu(menus + 1, 1, spec, NoStatus)
      BY <1>5 DEF CreateMenu
    <3>2. menu' \in MenuType
      BY <3>1, NoStatusType, MenuIs DEF TypeOK
    <3> QED
      BY <3>1, <3>2 DEF Menu, NoStatus, Status
  <2>2. UNCHANGED <<told, phase, firstOrder, cleared, gone, got, pending, want, worker>>
    BY <1>5 DEF CreateMenu
  <2>3. PlacedOnly' /\ NoneTold' /\ Published' /\ ReadIsThere' /\ TookLater'
    BY <2>1, <2>2
  <2>4. OwnOnly' /\ SaysFirst'
    BY <2>1, <2>2
  <2>5. SaysAgain'
    BY <2>1, <2>2 DEF TypeOK
  <2> QED
    BY <2>3, <2>4, <2>5
<1>6. ASSUME NEW set \in BOOLEAN, SetKey(set) PROVE Inv'
  BY <1>6 DEF SetKey
<1>7. CASE Tick
  BY <1>7 DEF Tick
<1>8. CASE Wake
  BY <1>8 DEF Wake
<1>9. CASE DeleteMenu
  BY <1>9 DEF DeleteMenu
<1>10. CASE DeliverMenu
  BY <1>10 DEF DeliverMenu, Poke
<1>11. CASE DeliverKey
  BY <1>11 DEF DeliverKey, Poke
<1>12. CASE Restart
  BY LandedFirst, <1>12 DEF Restart, Return, NoStatus, Status
<1>13. CASE Sync
  BY <1>13 DEF Sync
<1>14. CASE Coalesced
  BY <1>14 DEF Coalesced
<1>15. CASE Read
  BY <1>15 DEF Read
<1>16. CASE ReadNothing
  BY <1>16 DEF ReadNothing
<1>17. CASE ReadFails
  BY <1>17 DEF ReadFails, EndInError, Return, NoStatus, Status
<1>18. CASE TakePending
  BY <1>18 DEF TakePending
<1>19. CASE Compute
  <2>1. /\ worker = "computing" /\ worker' \in {"writing", "closing"}
        /\ worker' = "closing" => want'.first = got.status.first
        /\ want'.first = Previous(got.status.first, pending)
    BY <1>19 DEF Compute, Differs, Status
  <2>2. UNCHANGED <<menu, told, phase, firstOrder, cleared, gone, got, pending>>
    BY <1>19 DEF Compute
  <2>3. PlacedOnly' /\ NoneTold' /\ Published' /\ ReadIsThere' /\ TookLater'
    BY <2>1, <2>2 DEF Previous
  <2>4. ASSUME ~gone PROVE Ours(want'.first)
    <3>1. CASE cleared /\ got.status.first # NoOrder
      BY <2>1, <2>4, <3>1 DEF Previous
    <3>2. CASE ~(cleared /\ got.status.first # NoOrder)
      <4>1. want'.first = pending
        BY <2>1, <3>2 DEF Previous
      <4>2. CASE Ours(pending)
        BY <4>1, <4>2
      <4>3. CASE ~Ours(pending)
        <5>1. Due /\ firstOrder # First
          BY <2>1, <2>4, <4>3
        <5>2. cleared /\ got.status.first = First
          BY <2>1, <5>1
        <5>3. First # NoOrder
          BY <5>1 DEF TypeOK
        <5> QED
          BY <3>2, <5>2, <5>3
      <4> QED
        BY <4>2, <4>3
    <3> QED
      BY <3>1, <3>2
  <2>5. ASSUME Due, firstOrder # First \/ pending = First
        PROVE  want'.first = First
    BY <2>1, <2>4, <2>5 DEF Previous
  <2>6. OwnOnly'
    BY <2>1, <2>2, <2>4
  <2>7. SaysFirst'
    BY <2>1, <2>2, <2>5
  <2>8. SaysAgain'
    BY <2>1, <2>2 DEF Previous, TypeOK
  <2> QED
    BY <2>3, <2>6, <2>7, <2>8
<1>20. CASE PatchLands
  <2>1. /\ worker = "writing" /\ worker' = "closing" /\ menu # NoMenu
        /\ UNCHANGED <<told, phase, firstOrder, cleared, gone, got, pending, want>>
    BY <1>20 DEF PatchLands
  <2>2. /\ menu' # NoMenu
        /\ menu'.status.first =
             IF want.first # NoOrder \/ got.status.first # NoOrder
             THEN want.first ELSE menu.status.first
    BY <1>20, LandedFirst DEF PatchLands
  <2>3. PlacedOnly' /\ NoneTold' /\ Published' /\ ReadIsThere' /\ TookLater'
    BY <2>1, <2>2
  <2>4. OwnOnly'
    BY <2>1, <2>2
  <2>5. SaysFirst'
    BY <2>1, <2>2
  <2>6. SaysAgain'
    <3>1. CASE want.first # NoOrder
      BY <2>1, <2>2, <3>1
    <3>2. CASE want.first = NoOrder
      BY <2>1, <2>2, <3>2 DEF TypeOK
    <3> QED
      BY <3>1, <3>2
  <2> QED
    BY <2>3, <2>4, <2>5, <2>6
<1>21. CASE PatchFails
  <2>1. /\ worker = "writing" /\ worker' = "waiting" /\ menu # NoMenu
        /\ got' = NoMenu /\ pending' = NoOrder /\ want'.first = NoOrder
        /\ UNCHANGED <<told, phase, firstOrder, cleared, gone>>
    BY <1>21 DEF PatchFails, EndInError, Return, NoStatus, Status
  <2>2. CASE Landed
    <3>1. /\ menu' # NoMenu
          /\ menu'.status.first =
               IF want.first # NoOrder \/ got.status.first # NoOrder
               THEN want.first ELSE menu.status.first
      BY <2>1, <2>2, LandedFirst
    <3>2. PlacedOnly' /\ NoneTold' /\ Published' /\ ReadIsThere' /\ TookLater'
      BY <2>1, <3>1
    <3>3. OwnOnly' /\ SaysFirst'
      BY <2>1, <3>1
    <3>4. SaysAgain'
      <4>1. CASE want.first # NoOrder
        BY <2>1, <3>1, <4>1
      <4>2. CASE want.first = NoOrder
        BY <2>1, <3>1, <4>2 DEF TypeOK
      <4> QED
        BY <4>1, <4>2
    <3> QED
      BY <3>2, <3>3, <3>4
  <2>3. CASE UNCHANGED <<menu, menuNews, written>>
    BY <2>1, <2>3
  <2> QED
    BY <1>21, <2>2, <2>3 DEF PatchFails
<1>22. CASE PatchNotFound
  BY <1>22 DEF PatchNotFound, Return, NoStatus, Status
<1>23. CASE Close
  BY <1>23 DEF Close, Return, StillPending, NoStatus, Status
<1>24. CASE UNCHANGED vars
  BY <1>24 DEF vars
<1> QED
  BY <1>1, <1>2, <1>3, <1>4, <1>5, <1>6, <1>7, <1>8, <1>9, <1>10, <1>11, <1>12, <1>13, <1>14, <1>15, <1>16, <1>17, <1>18, <1>19, <1>20, <1>21, <1>22, <1>23, <1>24 DEF Next, Pass

LEMMA Invariance == Spec => []Inv
  BY InitInv, NextInv, PTL DEF Spec

(* The first order told to a process is pending until the status says it,  *)
(* for any orders, menus and bounds.                                       *)
THEOREM FirstOrderIsKept == Spec => []FirstOrderKept
<1>1. Inv => FirstOrderKept
  BY DEF Inv, Published, FirstOrderKept, Due, First
<1> QED
  BY <1>1, Invariance, PTL

(* A write that lands says an order of this process again, if the menu it  *)
(* lands on says one.                                                      *)
LEMMA LandedStays ==
  ASSUME Inv, worker = "writing", menu # NoMenu, Landed,
         menu.status.first \in ToldSet
  PROVE  menu'.status.first = menu.status.first
<1>1. menu.status.first # NoOrder
  BY StatusAssumption DEF Inv, TypeOK, ToldSet
<1>2. got.status.first = menu.status.first
  BY <1>1 DEF Inv, ReadIsThere, Passing
<1>3. want.first = got.status.first
  BY <1>2 DEF Inv, SaysAgain
<1> QED
  BY <1>1, <1>2, <1>3, LandedFirst DEF Inv

(* An order of this process that the status says stays there, whatever is  *)
(* ordered, fails or is written again.                                     *)
THEOREM FirstOrderIsFinal == Spec => FirstOrderStays
<1>1. ASSUME Inv, [Next]_vars, menu # NoMenu, menu' # NoMenu,
             menu'.uid = menu.uid, menu.status.first \in ToldSet
      PROVE  menu'.status.first = menu.status.first
  <2> USE <1>1 DEF apiVars
  <2>1. ASSUME NEW o \in Orders, Count(o) \/ GiveBack(o) \/ Tell(o)
        PROVE  menu' = menu
    BY <2>1 DEF Count, GiveBack, Tell
  <2>2. ASSUME NEW spec \in Specs, EditMenu(spec)
        PROVE  menu'.status = menu.status
    BY <2>2 DEF EditMenu, Menu
  <2>3. ASSUME NEW spec \in Specs PROVE ~CreateMenu(spec)
    BY DEF CreateMenu
  <2>4. ASSUME NEW set \in BOOLEAN, SetKey(set) PROVE menu' = menu
    BY <2>4 DEF SetKey
  <2>5. ~DeleteMenu
    BY DEF DeleteMenu
  <2>6. CASE DeliverMenu \/ DeliverKey \/ Tick \/ Wake \/ Sync \/ Coalesced
    BY <2>6 DEF DeliverMenu, DeliverKey, Tick, Wake, Sync, Coalesced
  <2>7. CASE Read \/ ReadNothing \/ ReadFails \/ TakePending \/ Compute
    BY <2>7 DEF Read, ReadNothing, ReadFails, TakePending, Compute
  <2>8. CASE PatchNotFound \/ Close
    BY <2>8 DEF PatchNotFound, Close
  <2>9. CASE PatchLands
    BY <2>9, LandedStays DEF PatchLands
  <2>10. CASE PatchFails
    BY <2>10, LandedStays DEF PatchFails
  <2>11. CASE Restart
    BY <2>11, LandedStays DEF Restart
  <2>12. CASE UNCHANGED vars
    BY <2>12 DEF vars
  <2> QED
    BY <2>1, <2>2, <2>3, <2>4, <2>5, <2>6, <2>7, <2>8, <2>9, <2>10, <2>11,
       <2>12 DEF Next, Pass
<1> QED
  BY <1>1, Invariance, PTL DEF Spec, FirstOrderStays

-----------------------------------------------------------------------------
(* The second half of the inductive invariant: what a pass knows of the    *)
(* menu it read, and what has happened since if nobody poked.              *)

IsJudgement(spec, status) ==
  \E used \in {0, spec.limit} :
    status.conditions = Judgement(spec, status.set, used)

(* Each menu of the name has a number of its own, and a pass has read one  *)
(* of its versions.                                                        *)
Versions ==
  /\ written <= menus
  /\ menu # NoMenu => menu.uid <= menus
  /\ got # NoMenu => got.uid <= menus
  /\ menu # NoMenu /\ got # NoMenu /\ got.uid = menu.uid =>
       /\ got.generation <= menu.generation
       /\ got.generation = menu.generation => got.spec = menu.spec

(* What a pass writes is judged from the version it says it observed.      *)
WritesJudged ==
  worker = "writing" => IsJudgement(got.spec, want)

(* No status speaks of a version that is still to come.                    *)
Observed ==
  menu # NoMenu /\ written = menu.uid =>
    /\ menu.status.observed <= menu.generation
    /\ menu.status.observed = menu.generation =>
         IsJudgement(menu.spec, menu.status)

(* The last event of the key says what the key is.                         *)
KeyFollows ==
  /\ keyWatch # <<>> => keyWatch[Len(keyWatch)] = secret
  /\ keyWatch = <<>> /\ worker # "syncing" => keyStore = secret

(* The orders this process speaks of were told to it.                      *)
Told(x) == x \in ToldSet \cup {NoOrder}

SpeaksOfTold ==
  /\ Told(firstOrder) /\ Told(pending)
  /\ cleared /\ menu # NoMenu => Told(menu.status.first)
  /\ cleared /\ worker \in {"judging", "computing"} => Told(got.status.first)
  /\ worker = "writing" => Told(want.first)
  /\ worker = "closing" /\ menu # NoMenu => Told(menu.status.first)

VoucherInHand == InHand \cap WithVoucher # {}

(* A pass that nobody poked: the menu is the one it read, the order it     *)
(* took is the pending one, and what it computed is still so.              *)
Unpoked ==
  ~changed =>
    /\ worker \in Passing /\ ~menuNews => menu = got
    /\ worker \in {"computing", "writing", "closing"} => firstOrder = pending
    /\ worker \in {"writing", "closing"} =>
         /\ keyWatch = <<>> => want.set = secret
         /\ ~returned /\ ~VoucherInHand =>
              want.conditions = Judgement(got.spec, want.set, uses)
    /\ worker = "closing" /\ ~menuNews => menu = got /\ got.status = want
    /\ worker = "waiting" /\ ~menuNews /\ keyWatch = <<>> /\ ~failed
         /\ ~returned /\ ~VoucherInHand => Right

Computed == worker \in {"writing", "closing"} => want.observed = got.generation

Inv2 ==
  /\ Versions /\ WritesJudged /\ Observed /\ KeyFollows /\ SpeaksOfTold
  /\ Computed /\ Unpoked
-----------------------------------------------------------------------------
(* A use that counts can only matter through the limit.                    *)
LEMMA JudgedByLimit ==
  ASSUME NEW spec \in Specs, NEW set \in BOOLEAN, NEW used \in Nat
  PROVE  \E u \in {0, spec.limit} :
           Judgement(spec, set, used) = Judgement(spec, set, u)
<1>1. spec.limit \in Nat
  BY StatusAssumption DEF MenuSpec
<1>2. \E u \in {0, spec.limit} : AtLimit(used, spec.limit) = AtLimit(u, spec.limit)
  <2>1. CASE AtLimit(used, spec.limit)
    BY <1>1, <2>1 DEF AtLimit
  <2>2. CASE ~AtLimit(used, spec.limit)
    BY <1>1, <2>2 DEF AtLimit
  <2> QED
    BY <2>1, <2>2
<1> QED
  BY <1>2 DEF Judgement, VoucherReason

(* What a save, a new menu and a patch that lands leave.                   *)
LEMMA EditedMenu ==
  ASSUME TypeOK, NEW spec \in Specs, EditMenu(spec)
  PROVE  /\ menu # NoMenu /\ menu' # NoMenu
         /\ menu'.uid = menu.uid /\ menu'.generation = menu.generation + 1
         /\ menu'.spec = spec /\ menu'.status = menu.status
<1>1. menu \in MenuType /\ menu # NoMenu
  BY DEF EditMenu, TypeOK
<1>2. menu.generation + 1 \in Nat /\ menu.uid \in Nat /\ menu.status \in StatusType
  BY <1>1, MenuParts
<1>3. menu' = Menu(menu.uid, menu.generation + 1, spec, menu.status)
  BY DEF EditMenu
<1> QED
  BY <1>1, <1>2, <1>3, MenuIs, StatusAssumption DEF Menu

LEMMA CreatedMenu ==
  ASSUME TypeOK, NEW spec \in Specs, CreateMenu(spec)
  PROVE  /\ menu = NoMenu /\ menu' # NoMenu
         /\ menu'.uid = menus + 1 /\ menu'.generation = 1
         /\ menu'.spec = spec /\ menu'.status = NoStatus
<1>1. menu = NoMenu /\ menu' = Menu(menus + 1, 1, spec, NoStatus)
  BY DEF CreateMenu
<1> QED
  BY <1>1, NoStatusType, MenuIs, StatusAssumption DEF Menu, TypeOK

LEMMA LandedMenu ==
  ASSUME TypeOK, menu # NoMenu, worker = "writing", Landed
  PROVE  /\ menu' # NoMenu /\ menu'.uid = menu.uid
         /\ menu'.generation = menu.generation /\ menu'.spec = menu.spec
         /\ menu'.status.observed = want.observed
         /\ menu'.status.set = want.set
         /\ menu'.status.conditions = want.conditions
         /\ written' = got.uid
<1>1. menu' # NoMenu
  BY LandedType, StatusAssumption
<1> QED
  BY <1>1 DEF Landed, Merged, Menu, Status

(* The menu is what it was, whatever the orders, the watches and the       *)
(* controller do but for a patch that lands.                               *)
Elsewhere ==
  \/ \E o \in Orders : Count(o) \/ GiveBack(o) \/ Tell(o)
  \/ \E set \in BOOLEAN : SetKey(set)
  \/ DeliverMenu \/ DeliverKey \/ Sync \/ Coalesced \/ ReadNothing
  \/ ReadFails \/ TakePending \/ Compute \/ PatchNotFound \/ Close \/ Tick
  \/ Wake \/ UNCHANGED vars

LEMMA ElsewhereFacts ==
  ASSUME Elsewhere
  PROVE  /\ menu' = menu /\ menus' = menus /\ written' = written
         /\ got' \in {got, NoMenu}
<1> USE DEF apiVars, orderVars, memory, passVars, history, bounds
<1>1. ASSUME NEW o \in Orders, Count(o) \/ GiveBack(o) \/ Tell(o)
      PROVE  UNCHANGED <<menu, menus, written, got>>
  BY <1>1 DEF Count, GiveBack, Tell
<1>2. ASSUME NEW set \in BOOLEAN, SetKey(set)
      PROVE  UNCHANGED <<menu, menus, written, got>>
  BY <1>2 DEF SetKey
<1>3. CASE DeliverMenu \/ DeliverKey \/ Sync \/ Coalesced \/ Tick \/ Wake
  BY <1>3 DEF DeliverMenu, DeliverKey, Sync, Coalesced, Tick, Wake
<1>4. CASE ReadNothing \/ ReadFails \/ TakePending \/ Compute
  BY <1>4 DEF ReadNothing, ReadFails, EndInError, Return, TakePending, Compute
<1>5. CASE PatchNotFound \/ Close
  BY <1>5 DEF PatchNotFound, Close, Return
<1>6. CASE UNCHANGED vars
  BY <1>6 DEF vars
<1> QED
  BY <1>1, <1>2, <1>3, <1>4, <1>5, <1>6 DEF Elsewhere

(* The steps that are not elsewhere.                                       *)
LEMMA Steps ==
  ASSUME [Next]_vars
  PROVE  \/ Elsewhere
         \/ \E spec \in Specs : EditMenu(spec) \/ CreateMenu(spec)
         \/ DeleteMenu \/ Read \/ PatchLands \/ PatchFails \/ Restart
  BY DEF Next, Pass, Elsewhere

(* Only a menu that is made anew gets a number, and only a save a version. *)
LEMMA NextVersions ==
  ASSUME TypeOK, TypeOK', Versions, [Next]_vars
  PROVE  Versions'
<1>0. /\ menu # NoMenu => menu.uid \in Nat /\ menu.generation \in Nat
      /\ got # NoMenu => got.uid \in Nat /\ got.generation \in Nat
      /\ menus \in Nat /\ written \in Nat
  BY MenuParts DEF TypeOK
<1> USE <1>0 DEF Versions
<1>1. CASE Elsewhere
  BY <1>1, ElsewhereFacts
<1>2. ASSUME NEW spec \in Specs, EditMenu(spec) PROVE Versions'
  <2>1. UNCHANGED <<menus, got, written>>
    BY <1>2 DEF EditMenu, passVars, history
  <2> QED
    BY <1>2, <2>1, EditedMenu
<1>3. ASSUME NEW spec \in Specs, CreateMenu(spec) PROVE Versions'
  <2>1. menus' = menus + 1 /\ UNCHANGED <<got, written>>
    BY <1>3 DEF CreateMenu, passVars, history
  <2> QED
    BY <1>3, <2>1, CreatedMenu
<1>4. CASE DeleteMenu
  BY <1>4 DEF DeleteMenu, passVars, history
<1>5. CASE Read
  BY <1>5 DEF Read, apiVars, history, bounds
<1>6. ASSUME worker = "writing", menu # NoMenu, Landed,
             got' \in {got, NoMenu}, menus' = menus
      PROVE  Versions'
  <2>1. got # NoMenu
    BY <1>6, StatusAssumption DEF TypeOK, InPass
  <2> QED
    BY <1>6, <2>1, LandedMenu
<1>7. CASE PatchLands
  BY <1>6, <1>7 DEF PatchLands, bounds
<1>8. CASE PatchFails
  BY <1>6, <1>8 DEF PatchFails, EndInError, Return
<1>9. CASE Restart
  BY <1>6, <1>9 DEF Restart, Return
<1> QED
  BY <1>1, <1>2, <1>3, <1>4, <1>5, <1>7, <1>8, <1>9, Steps

(* What Compute computes is a judgement of the menu it read.               *)
LEMMA ComputedIsJudged ==
  ASSUME TypeOK, Compute
  PROVE  /\ want'.observed = got.generation
         /\ want'.first = Previous(got.status.first, pending)
         /\ want'.set = keyStore
         /\ want'.conditions = Judgement(got.spec, keyStore, uses)
         /\ IsJudgement(got.spec, want')
<1>1. /\ want' = Status(got.generation, Previous(got.status.first, pending),
                        keyStore, Judgement(got.spec, keyStore, uses))
  BY DEF Compute
<1>2. got.spec \in Specs /\ keyStore \in BOOLEAN /\ uses \in Nat
  BY MenuParts DEF TypeOK, Compute, InPass
<1> QED
  BY <1>1, <1>2, JudgedByLimit DEF Status, IsJudgement

(* The controller is about to write what it computed.                      *)
LEMMA NextComputed ==
  ASSUME TypeOK, Computed, WritesJudged, [Next]_vars
  PROVE  Computed' /\ WritesJudged'
<1> USE DEF Computed, WritesJudged, apiVars, orderVars, memory, passVars,
            history, bounds
<1>1. CASE Compute
  <2>1. got' = got
    BY <1>1 DEF Compute
  <2> QED
    BY <1>1, <2>1, ComputedIsJudged
<1>2. CASE UNCHANGED <<worker, got, want>>
  BY <1>2 DEF IsJudgement
<1>3. CASE PatchLands
  BY <1>3 DEF PatchLands
<1>4. CASE worker' \notin {"writing", "closing"}
  BY <1>4
<1>5. ASSUME NEW o \in Orders, Count(o) \/ GiveBack(o) \/ Tell(o)
      PROVE  UNCHANGED <<worker, got, want>>
  BY <1>5 DEF Count, GiveBack, Tell
<1>6. ASSUME NEW spec \in Specs, EditMenu(spec) \/ CreateMenu(spec)
      PROVE  UNCHANGED <<worker, got, want>>
  BY <1>6 DEF EditMenu, CreateMenu
<1>7. ASSUME NEW set \in BOOLEAN, SetKey(set)
      PROVE  UNCHANGED <<worker, got, want>>
  BY <1>7 DEF SetKey
<1>8. CASE DeleteMenu \/ DeliverMenu \/ DeliverKey \/ UNCHANGED vars
  BY <1>2, <1>8 DEF DeleteMenu, DeliverMenu, DeliverKey, vars
<1>9. CASE Sync \/ Coalesced \/ Read \/ ReadNothing \/ ReadFails
  BY <1>4, <1>9 DEF Sync, Coalesced, Read, ReadNothing, ReadFails, EndInError
<1>10. CASE TakePending \/ Tick \/ Wake \/ Restart
  BY <1>4, <1>10 DEF TakePending, Tick, Wake, Restart
<1>11. CASE PatchFails \/ PatchNotFound \/ Close
  BY <1>4, <1>11 DEF PatchFails, PatchNotFound, Close, EndInError
<1> QED
  BY <1>1, <1>2, <1>3, <1>5, <1>6, <1>7, <1>8, <1>9, <1>10, <1>11 DEF Next, Pass

(* A patch that lands on the version it was computed from brings that      *)
(* version's judgement; on a later one it says it saw an earlier.          *)
LEMMA NextObserved ==
  ASSUME TypeOK, TypeOK', Versions, Computed, WritesJudged, Observed,
         [Next]_vars
  PROVE  Observed'
<1>0. /\ menu # NoMenu =>
           /\ menu.uid \in Nat /\ menu.generation \in Nat
           /\ menu.status.observed \in Nat
      /\ menus \in Nat /\ written \in Nat
  BY MenuParts, StatusParts DEF TypeOK
<1> USE <1>0 DEF Observed, IsJudgement
<1>1. CASE Elsewhere
  BY <1>1, ElsewhereFacts
<1>2. ASSUME NEW spec \in Specs, EditMenu(spec) PROVE Observed'
  <2>1. written' = written
    BY <1>2 DEF EditMenu, history
  <2> QED
    BY <1>2, <2>1, EditedMenu
<1>3. ASSUME NEW spec \in Specs, CreateMenu(spec) PROVE Observed'
  <2>1. written' = written
    BY <1>3 DEF CreateMenu, history
  <2> QED
    BY <1>3, <2>1, CreatedMenu DEF Versions
<1>4. CASE DeleteMenu
  BY <1>4 DEF DeleteMenu
<1>5. CASE Read
  BY <1>5 DEF Read, apiVars, history
<1>6. ASSUME worker = "writing", menu # NoMenu, Landed PROVE Observed'
  <2>1. got # NoMenu
    BY <1>6, StatusAssumption DEF TypeOK, InPass
  <2>2. IsJudgement(got.spec, want) /\ want.observed = got.generation
    BY <1>6 DEF WritesJudged, Computed
  <2> QED
    BY <1>6, <2>1, <2>2, LandedMenu DEF Versions
<1>7. CASE PatchLands
  BY <1>6, <1>7 DEF PatchLands
<1>8. CASE PatchFails
  BY <1>6, <1>8 DEF PatchFails
<1>9. CASE Restart
  BY <1>6, <1>9 DEF Restart
<1> QED
  BY <1>1, <1>2, <1>3, <1>4, <1>5, <1>7, <1>8, <1>9, Steps

(* The last of a sequence is the last of its tail, or its head.            *)
LEMMA LastOfTail ==
  ASSUME NEW S, NEW s \in Seq(S), s # <<>>
  PROVE  IF Tail(s) = <<>> THEN Head(s) = s[Len(s)]
         ELSE Tail(s)[Len(Tail(s))] = s[Len(s)]
<1>1. /\ Tail(s) \in Seq(S) /\ Len(Tail(s)) = Len(s) - 1
      /\ \A i \in 1..Len(Tail(s)) : Tail(s)[i] = s[i + 1]
  BY HeadTailProperties
<1>2. Len(s) \in Nat /\ Len(Tail(s)) \in Nat
  BY <1>1
<1>3. Head(s) = s[1]
  OBVIOUS
<1>4. CASE Tail(s) = <<>>
  <2>1. Len(Tail(s)) = 0
    BY <1>4, EmptySeq
  <2>2. Len(s) = 1
    <3>1. ASSUME NEW n \in Nat, n - 1 = 0 PROVE n = 1
      BY <3>1
    <3> QED
      BY <1>1, <1>2, <2>1, <3>1, Zenon
  <2> QED
    BY <1>3, <1>4, <2>2
<1>5. CASE Tail(s) # <<>>
  <2>1. Len(Tail(s)) \in 1..Len(Tail(s))
    BY <1>1, <1>2, <1>5, EmptySeq
  <2>2. Tail(s)[Len(Tail(s))] = s[Len(Tail(s)) + 1]
    BY <1>1, <2>1
  <2> QED
    BY <1>1, <1>2, <1>5, <2>2
<1> QED
  BY <1>4, <1>5

(* The informer has the key as soon as nothing is on its way to it.        *)
LEMMA NextKeyFollows ==
  ASSUME TypeOK, KeyFollows, [Next]_vars
  PROVE  KeyFollows'
<1> USE DEF KeyFollows, apiVars, orderVars, memory, passVars, history, bounds
<1>1. ASSUME NEW set \in BOOLEAN, SetKey(set) PROVE KeyFollows'
  BY <1>1 DEF SetKey, TypeOK
<1>2. CASE DeliverKey
  <2>1. /\ keyWatch \in Seq(BOOLEAN) /\ keyWatch # <<>>
        /\ keyWatch' = Tail(keyWatch) /\ keyStore' = Head(keyWatch)
        /\ secret' = secret /\ worker' = worker
    BY <1>2 DEF DeliverKey, TypeOK
  <2>2. IF Tail(keyWatch) = <<>> THEN Head(keyWatch) = keyWatch[Len(keyWatch)]
        ELSE Tail(keyWatch)[Len(Tail(keyWatch))] = keyWatch[Len(keyWatch)]
    BY <2>1, LastOfTail
  <2> QED
    BY <2>1, <2>2
<1>3. CASE Sync \/ Restart
  BY <1>3 DEF Sync, Restart
<1>4. CASE UNCHANGED <<secret, keyWatch, keyStore, worker>>
  BY <1>4
<1>5. ASSUME NEW o \in Orders, Count(o) \/ GiveBack(o) \/ Tell(o)
      PROVE  UNCHANGED <<secret, keyWatch, keyStore, worker>>
  BY <1>5 DEF Count, GiveBack, Tell
<1>6. ASSUME NEW spec \in Specs, EditMenu(spec) \/ CreateMenu(spec)
      PROVE  UNCHANGED <<secret, keyWatch, keyStore, worker>>
  BY <1>6 DEF EditMenu, CreateMenu
<1>7. CASE DeleteMenu \/ DeliverMenu \/ UNCHANGED vars
  BY <1>7 DEF DeleteMenu, DeliverMenu, vars
<1>8. CASE worker # "syncing" /\ UNCHANGED <<secret, keyWatch, keyStore>>
  BY <1>8
<1>9. CASE Tick \/ Wake \/ Coalesced \/ Read \/ ReadNothing \/ ReadFails
  BY <1>8, <1>9
  DEF Tick, Wake, Coalesced, Read, ReadNothing, ReadFails, EndInError
<1>10. CASE TakePending \/ Compute \/ PatchLands \/ PatchFails
  BY <1>8, <1>10 DEF TakePending, Compute, PatchLands, PatchFails, EndInError
<1>11. CASE PatchNotFound \/ Close
  BY <1>8, <1>11 DEF PatchNotFound, Close
<1> QED
  BY <1>1, <1>2, <1>3, <1>4, <1>5, <1>6, <1>7, <1>9, <1>10, <1>11 DEF Next, Pass

(* The orders a pass speaks of, and those it leaves on the menu.           *)
LEMMA NextSpeaksOfTold ==
  ASSUME Inv, SpeaksOfTold, [Next]_vars
  PROVE  SpeaksOfTold'
<1>0. TypeOK
  BY DEF Inv
<1> USE <1>0 DEF SpeaksOfTold, Told, apiVars, orderVars, memory, passVars,
                 history, bounds
<1>1. ASSUME NEW o \in Orders, Tell(o) PROVE SpeaksOfTold'
  <2>1. ToldSet' = ToldSet \cup {o}
    BY <1>1, TellFacts DEF Inv
  <2> QED
    BY <1>1, <2>1 DEF Tell
<1>2. CASE told' = told /\ UNCHANGED <<menu, memory, passVars>>
  BY <1>2 DEF ToldSet
<1>3. ASSUME NEW o \in Orders, Count(o) \/ GiveBack(o) PROVE SpeaksOfTold'
  BY <1>2, <1>3 DEF Count, GiveBack
<1>4. ASSUME NEW spec \in Specs, EditMenu(spec) PROVE SpeaksOfTold'
  <2>1. UNCHANGED <<told, memory, passVars>>
    BY <1>4 DEF EditMenu
  <2> QED
    BY <1>4, <2>1, EditedMenu DEF ToldSet
<1>5. ASSUME NEW spec \in Specs, CreateMenu(spec) PROVE SpeaksOfTold'
  <2>1. UNCHANGED <<told, memory, passVars>>
    BY <1>5 DEF CreateMenu
  <2> QED
    BY <1>5, <2>1, CreatedMenu DEF ToldSet, NoStatus, Status
<1>6. ASSUME NEW set \in BOOLEAN, SetKey(set) PROVE SpeaksOfTold'
  BY <1>2, <1>6 DEF SetKey
<1>7. CASE DeleteMenu
  BY <1>7 DEF DeleteMenu, ToldSet
<1>8. CASE DeliverMenu \/ DeliverKey \/ Tick \/ Wake \/ Sync \/ Coalesced
  BY <1>8 DEF DeliverMenu, DeliverKey, Tick, Wake, Sync, Coalesced, ToldSet
<1>9. CASE Read \/ ReadNothing
  BY <1>9 DEF Read, ReadNothing, ToldSet
<1>10. CASE ReadFails \/ PatchNotFound
  BY <1>10 DEF ReadFails, PatchNotFound, EndInError, Return, NoStatus, Status,
               ToldSet
<1>11. CASE TakePending
  BY <1>11 DEF TakePending, ToldSet
<1>12. CASE Compute
  <2>1. UNCHANGED <<menu, told, firstOrder, cleared, got, pending>>
        /\ worker = "computing"
    BY <1>12 DEF Compute
  <2>2. Told(want'.first)
    <3>1. want'.first = Previous(got.status.first, pending)
      BY <1>12, ComputedIsJudged
    <3> QED
      BY <2>1, <3>1 DEF Previous
  <2>3. worker' = "closing" => want' = got.status
    BY <1>12 DEF Compute, Differs
  <2>4. menu # NoMenu => menu.status.first \in {got.status.first, NoOrder}
    BY <2>1 DEF Inv, ReadIsThere, Passing
  <2>5. worker' \in {"writing", "closing"}
    BY <1>12 DEF Compute
  <2> QED
    BY <2>1, <2>2, <2>3, <2>4, <2>5 DEF ToldSet
<1>13. ASSUME worker = "writing", menu # NoMenu, Landed
       PROVE  Told(menu'.status.first)
  <2>1. menu.status.first \in {got.status.first, NoOrder}
    BY <1>13 DEF Inv, ReadIsThere, Passing
  <2> QED
    BY <1>13, <2>1, LandedFirst
<1>14. CASE PatchLands
  BY <1>13, <1>14 DEF PatchLands, ToldSet
<1>15. CASE PatchFails
  <2>1. /\ got' = NoMenu /\ pending' = NoOrder /\ worker' = "waiting"
        /\ UNCHANGED <<told, memory>>
    BY <1>15 DEF PatchFails, EndInError, Return
  <2> QED
    BY <1>13, <1>15, <2>1 DEF PatchFails, ToldSet
<1>16. CASE Restart
  BY <1>16 DEF Restart, Return
<1>17. CASE Close
  BY <1>17 DEF Close, Return, StillPending, ToldSet
<1>18. CASE UNCHANGED vars
  BY <1>2, <1>18 DEF vars
<1> QED
  BY <1>1, <1>3, <1>4, <1>5, <1>6, <1>7, <1>8, <1>9, <1>10, <1>11, <1>12,
     <1>14, <1>15, <1>16, <1>17, <1>18 DEF Next, Pass

(* A step of an order that leaves nobody poked changes no count that       *)
(* matters.                                                                *)
LEMMA UnpokedOrder ==
  ASSUME TypeOK, NEW o \in Orders, Count(o) \/ GiveBack(o)
  PROVE  /\ UNCHANGED <<apiVars, told, memory, passVars, history, bounds>>
         /\ ~returned' => ~returned
         /\ ~returned' /\ ~VoucherInHand' => ~VoucherInHand /\ uses' = uses
<1> USE StatusAssumption DEF TypeOK, VoucherInHand, InHand, Goto, Used
<1>1. CASE Count(o)
  <2>1. /\ UNCHANGED <<apiVars, told, returned, memory, passVars, history,
                       bounds>>
        /\ phase[o] = "new" /\ phase' = [phase EXCEPT ![o] = "counted"]
        /\ uses' = uses + Used(o)
    BY <1>1 DEF Count
  <2>2. ~VoucherInHand' => ~VoucherInHand /\ o \notin WithVoucher
    BY <2>1
  <2> QED
    BY <2>1, <2>2
<1>2. CASE GiveBack(o)
  <2>1. /\ UNCHANGED <<apiVars, told, memory, passVars, history, bounds>>
        /\ phase[o] = "counted" /\ phase' = [phase EXCEPT ![o] = "refused"]
        /\ uses' = IF uses > 0 THEN uses - Used(o) ELSE uses
        /\ returned' = (returned \/ o \in WithVoucher)
    BY <1>2 DEF GiveBack
  <2>2. ~returned' => ~returned /\ o \notin WithVoucher
    BY <2>1, Zenon
  <2>3. ~returned' /\ ~VoucherInHand' => ~VoucherInHand
    BY <2>1, <2>2
  <2>4. ~returned' => uses' = uses
    BY <2>1, <2>2
  <2> QED
    BY <2>1, <2>2, <2>3, <2>4
<1> QED
  BY <1>1, <1>2

(* While nobody pokes, nothing has happened that the pass did not see.     *)
LEMMA NextUnpoked ==
  ASSUME Inv, Computed, KeyFollows, SpeaksOfTold, Unpoked, [Next]_vars
  PROVE  Unpoked'
<1>0. TypeOK
  BY DEF Inv
<1> USE <1>0 DEF Unpoked, Passing, VoucherInHand, InHand, apiVars, orderVars,
                 memory, passVars, history, bounds
<1>1. CASE changed'
  BY <1>1
<1>2. ASSUME NEW o \in Orders, Count(o) \/ GiveBack(o) PROVE Unpoked'
  <2>1. /\ UNCHANGED <<apiVars, told, memory, passVars, history, bounds>>
        /\ ~returned' => ~returned
        /\ ~returned' /\ ~VoucherInHand' => ~VoucherInHand /\ uses' = uses
    BY <1>2, UnpokedOrder
  <2>2. ASSUME ~returned', ~VoucherInHand', Right PROVE Right'
    BY <2>1, <2>2 DEF Right, ToldSet
  <2> QED
    BY <2>1, <2>2
<1>3. ASSUME NEW o \in Orders, Tell(o) PROVE changed'
  BY <1>3 DEF Tell, Poke
<1>4. ASSUME NEW spec \in Specs, EditMenu(spec) \/ CreateMenu(spec)
      PROVE  Unpoked'
  BY <1>4 DEF EditMenu, CreateMenu
<1>5. ASSUME NEW set \in BOOLEAN, SetKey(set) PROVE Unpoked'
  <2>1. keyWatch' # <<>>
    BY <1>5 DEF SetKey, TypeOK
  <2> QED
    BY <1>5, <2>1 DEF SetKey
<1>6. CASE DeleteMenu
  BY <1>6 DEF DeleteMenu
<1>7. CASE DeliverMenu \/ DeliverKey
  BY <1>7 DEF DeliverMenu, DeliverKey, Poke
<1>8. CASE worker' \notin {"waiting", "judging", "computing", "writing", "closing"}
  BY <1>8
<1>9. CASE Tick \/ Wake \/ Sync \/ Coalesced \/ Restart
  BY <1>8, <1>9 DEF Tick, Wake, Sync, Coalesced, Restart
<1>10. CASE Read
  BY <1>10 DEF Read
<1>11. CASE ReadNothing
  BY <1>11 DEF ReadNothing, Right
<1>12. CASE worker' = "waiting" /\ failed'
  BY <1>12
<1>13. CASE ReadFails \/ PatchFails \/ PatchNotFound
  BY <1>12, <1>13 DEF ReadFails, PatchFails, PatchNotFound, EndInError
<1>14. CASE TakePending
  BY <1>14 DEF TakePending
<1>15. CASE Compute
  <2>1. /\ worker = "computing" /\ worker' \in {"writing", "closing"}
        /\ worker' = "closing" => got.status = want'
        /\ UNCHANGED <<apiVars, phase, uses, told, memory, got, pending>>
    BY <1>15 DEF Compute, Differs
  <2>2. /\ want'.set = keyStore
        /\ want'.conditions = Judgement(got.spec, keyStore, uses)
    BY <1>15, ComputedIsJudged
  <2> QED
    BY <2>1, <2>2 DEF KeyFollows
<1>16. CASE PatchLands
  BY <1>16 DEF PatchLands
<1>17. CASE Close
  <2>1. /\ worker = "closing" /\ worker' = "waiting"
        /\ firstOrder' = StillPending
        /\ UNCHANGED <<apiVars, orderVars, changed>>
    BY <1>17 DEF Close
  <2>2. ASSUME ~changed, ~menuNews, keyWatch = <<>>, ~returned, ~VoucherInHand,
               menu # NoMenu
        PROVE  Right'
    <3>1. menu = got /\ got.status = want /\ firstOrder = pending
      BY <2>1, <2>2
    <3>2. /\ want.set = secret /\ want.observed = got.generation
          /\ want.conditions = Judgement(got.spec, want.set, uses)
      BY <2>1, <2>2 DEF Computed
    <3>3. menu.status.first \in ToldSet \cup {NoOrder}
      BY <2>1, <2>2 DEF SpeaksOfTold, Told
    <3> QED
      BY <2>1, <3>1, <3>2, <3>3 DEF Right, StillPending, ToldSet
  <2>3. ASSUME menu = NoMenu PROVE Right'
    BY <2>1, <2>3 DEF Right
  <2> QED
    BY <2>1, <2>2, <2>3
<1>18. CASE UNCHANGED vars
  BY <1>18 DEF vars, Right, ToldSet
<1> QED
  BY <1>1, <1>2, <1>3, <1>4, <1>5, <1>6, <1>7, <1>9, <1>10, <1>11, <1>13,
     <1>14, <1>15, <1>16, <1>17, <1>18 DEF Next, Pass

LEMMA InitInv2 == Init => Inv2
<1> SUFFICES ASSUME Init PROVE Inv2
  OBVIOUS
<1>1. menu.uid = 1 /\ menu.status.first \in {NoOrder, Earlier}
  BY DEF Init, Menu, Status
<1>2. menu # NoMenu
  BY UnjudgedType, StatusIs, MenuIs, StatusAssumption DEF Init
<1>3. /\ worker = "syncing" /\ keyWatch = <<>> /\ cleared = FALSE
      /\ firstOrder = NoOrder /\ pending = NoOrder
      /\ got = NoMenu /\ written = 0 /\ menus = 1
  BY DEF Init
<1> QED
  BY <1>1, <1>2, <1>3
  DEF Inv2, Versions, WritesJudged, Observed, KeyFollows, SpeaksOfTold,
      Told, Computed, Unpoked, Passing

LEMMA Invariance2 == Spec => [](Inv /\ Inv2)
<1>1. Init => Inv /\ Inv2
  BY InitInv, InitInv2
<1>2. Inv /\ Inv2 /\ [Next]_vars => (Inv /\ Inv2)'
  <2> SUFFICES ASSUME Inv, Inv2, [Next]_vars PROVE Inv' /\ Inv2'
    OBVIOUS
  <2>1. Inv' /\ TypeOK /\ TypeOK'
    BY NextInv DEF Inv
  <2>2. Versions' /\ Computed' /\ WritesJudged' /\ Observed'
    BY <2>1, NextVersions, NextComputed, NextObserved DEF Inv2
  <2>3. KeyFollows' /\ SpeaksOfTold' /\ Unpoked'
    BY <2>1, NextKeyFollows, NextSpeaksOfTold, NextUnpoked DEF Inv2
  <2> QED
    BY <2>1, <2>2, <2>3 DEF Inv2
<1> QED
  BY <1>1, <1>2, PTL DEF Spec

(* The status says it has looked at a version of the menu only with a      *)
(* judgement of that version, for any orders, menus and bounds.            *)
THEOREM ObservedMeansJudged == Spec => []ObservedIsJudged
<1>1. Inv2 => ObservedIsJudged
  BY DEF Inv2, Observed, ObservedIsJudged, IsJudgement
<1> QED
  BY <1>1, Invariance2, PTL

(* A controller that sleeps with nothing on its way to it has left a       *)
(* status that is right, for any orders, menus and bounds.                 *)
THEOREM SleepsOnlyWhenRight == Spec => []NoWakeUpLost
<1>1. Inv2 => NoWakeUpLost
  BY DEF Inv2, Unpoked, NoWakeUpLost, VoucherInHand
<1> QED
  BY <1>1, Invariance2, PTL

=============================================================================
