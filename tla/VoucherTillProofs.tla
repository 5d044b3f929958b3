-------------------------- MODULE VoucherTillProofs --------------------------
(***************************************************************************)
(* The till's invariants, for every menu, every set of requests (finite or *)
(* not) and every number of edits and restarts; and that the till          *)
(* implements VoucherAllowance.                                            *)
(*                                                                         *)
(* CountIsHeld is not inductive by itself: a step of a handler changes who *)
(* holds a use only if its request was accepted by this process and its    *)
(* outcome is still open (HandlersOwn), and the limit it compares with is  *)
(* of a menu that was in force while it was in hand (SeenInForce).  What    *)
(* is on the feed follows from where each handler is (Recorded).           *)
(***************************************************************************)
EXTENDS VoucherTill, FiniteSetTheorems, TLAPS

HandlersOwn ==
  \A r \in Requests :
    /\ phase[r] \in {"new", "cut"} => r \notin taken
    /\ phase[r] \notin {"new", "cut", "done"} => r \in taken
    /\ phase[r] \in {"new", "reading", "preparing", "naming"} => outcome[r] = "none"

AskedSinceStart == \A r \in taken : asked[r] \in since..Latest

SeenInForce ==
  \A r \in Requests :
    phase[r] = "preparing" =>
      \E i \in Readable(asked[r]) : seen[r] = editions[i]

HoldersFinite == \A c \in Codes : IsFiniteSet(Holders(c))

IInv ==
  /\ TypeOK
  /\ HandlersOwn
  /\ AskedSinceStart
  /\ SeenInForce
  /\ HoldersFinite
  /\ CountIsHeld
  /\ NeverOversold

-----------------------------------------------------------------------------
(* Types.                                                                  *)

(* What a menu of the model lets a proof use.                              *)
LEMMA LimitsAreNumbers ==
  ASSUME NEW menu \in Menus, NEW c \in Codes
  PROVE  menu.vouchers[c].limit \in Nat
BY TillAssumption DEF Menu, VoucherSpec

LEMMA CodesAreCodes ==
  ASSUME NEW r \in Requests
  PROVE  CodeOf(r) \in Codes \cup {NoCode}
BY TillAssumption DEF CodeOf, Order

(* The reason a request is refused for is one of the outcomes.             *)
LEMMA RefusalsAreOutcomes ==
  ASSUME NEW menu, NEW order
  PROVE  Refusal(menu, order) \in Outcomes \ {"placed"}
BY DEF Refusal, Outcomes

LEMMA TypeInit == Init => TypeOK
<1> SUFFICES ASSUME Init PROVE TypeOK
  OBVIOUS
<1>1. PICK menu \in Menus : editions = <<menu>>
  BY DEF Init
<1>2. editions \in Seq(Menus) /\ Latest = 1
  BY <1>1 DEF Latest
<1> QED
  BY <1>2 DEF Init, TypeOK, Phases, Outcomes

(* No step of a handler, of the operator or of the process leaves the      *)
(* types.                                                                  *)
LEMMA TypeStep == TypeOK /\ [Next]_vars => TypeOK'
<1> SUFFICES ASSUME TypeOK, [Next]_vars PROVE TypeOK'
  OBVIOUS
<1> USE DEF TypeOK, Phases, Outcomes, menuVars, handlerVars, Goto, Outcome,
        Latest
<1>1. ASSUME NEW r \in Requests, Submit(r) PROVE TypeOK'
  BY <1>1 DEF Submit
<1>2. ASSUME NEW r \in Requests, ReadMenu(r) PROVE TypeOK'
  <2>1. Served \in Menus
    BY DEF Served
  <2> QED
    BY <1>2, <2>1 DEF ReadMenu
<1>3. ASSUME NEW r \in Requests, ReadFails(r) PROVE TypeOK'
  BY <1>3 DEF ReadFails
<1>4. ASSUME NEW r \in Requests, Refuse(r) PROVE TypeOK'
  BY <1>4, RefusalsAreOutcomes DEF Refuse
<1>5. ASSUME NEW r \in Requests, TakeFullPrice(r) PROVE TypeOK'
  BY <1>5 DEF TakeFullPrice
<1>6. ASSUME NEW r \in Requests, Redeem(r) PROVE TypeOK'
  BY <1>6, CodesAreCodes DEF Redeem
<1>7. ASSUME NEW r \in Requests, RedeemRefused(r) PROVE TypeOK'
  BY <1>7 DEF RedeemRefused
<1>8. ASSUME NEW r \in Requests, NameOrder(r) PROVE TypeOK'
  BY <1>8 DEF NameOrder
<1>9. ASSUME NEW r \in Requests, NameFails(r) PROVE TypeOK'
  <2>1. count' \in [Codes -> Nat]
    BY <1>9 DEF NameFails, Release
  <2> QED
    BY <1>9, <2>1 DEF NameFails
<1>10. ASSUME NEW r \in Requests, Record(r) PROVE TypeOK'
  BY <1>10 DEF Record
<1>11. ASSUME NEW r \in Requests, TellStatus(r) PROVE TypeOK'
  BY <1>11 DEF TellStatus
<1>12. ASSUME NEW r \in Requests, Answer(r) PROVE TypeOK'
  BY <1>12 DEF Answer
<1>13. ASSUME NEW menu \in Menus, EditMenu(menu) PROVE TypeOK'
  BY <1>13 DEF EditMenu
<1>14. ASSUME Stop PROVE TypeOK'
  BY <1>14 DEF Stop
<1>15. ASSUME Restart PROVE TypeOK'
  BY <1>15 DEF Restart, Boot
<1>16. ASSUME Crash PROVE TypeOK'
  BY <1>16 DEF Crash, Boot
<1>17. CASE UNCHANGED vars
  BY <1>17 DEF vars
<1> QED
  BY <1>1, <1>2, <1>3, <1>4, <1>5, <1>6, <1>7, <1>8, <1>9, <1>10, <1>11,
     <1>12, <1>13, <1>14, <1>15, <1>16, <1>17 DEF Next, Handle

(* The state of the till keeps its types.                                  *)
THEOREM TypeCorrect == Spec => []TypeOK
<1> QED
  BY TypeInit, TypeStep, PTL DEF Spec

-----------------------------------------------------------------------------
(* The invariant.                                                          *)

(* The steps that leave every holder of a use and the count alone.         *)
Quiet ==
  \/ \E r \in Requests :
       \/ Submit(r) \/ ReadMenu(r) \/ ReadFails(r) \/ Refuse(r)
       \/ TakeFullPrice(r) \/ RedeemRefused(r) \/ NameOrder(r)
       \/ Record(r) \/ TellStatus(r) \/ Answer(r)
  \/ \E menu \in Menus : EditMenu(menu)
  \/ Stop
  \/ UNCHANGED vars

(* A step is quiet, counts a use, gives one back or starts a process.      *)
LEMMA StepKinds ==
  [Next]_vars => Quiet \/ (\E r \in Requests : Redeem(r) \/ NameFails(r))
                       \/ Restart \/ Crash
BY DEF Next, Handle, Quiet

LEMMA QuietKeepsHolders ==
  ASSUME TypeOK, HandlersOwn, Quiet, NEW c \in Codes
  PROVE  Holders(c)' = Holders(c) /\ count' = count
<1> USE DEF TypeOK, HandlersOwn, Holders, Goto, Outcome, menuVars, handlerVars
<1>1. ASSUME NEW r \in Requests, Submit(r)
      PROVE  Holders(c)' = Holders(c) /\ count' = count
  BY <1>1 DEF Submit
<1>2. ASSUME NEW r \in Requests, ReadMenu(r) \/ ReadFails(r) \/ Refuse(r)
      PROVE  Holders(c)' = Holders(c) /\ count' = count
  BY <1>2, RefusalsAreOutcomes DEF ReadMenu, ReadFails, Refuse
<1>3. ASSUME NEW r \in Requests, TakeFullPrice(r)
      PROVE  Holders(c)' = Holders(c) /\ count' = count
  BY <1>3, MenuAssumption DEF TakeFullPrice
<1>4. ASSUME NEW r \in Requests, RedeemRefused(r) \/ NameOrder(r)
      PROVE  Holders(c)' = Holders(c) /\ count' = count
  BY <1>4 DEF RedeemRefused, NameOrder
<1>5. ASSUME NEW r \in Requests, Record(r) \/ TellStatus(r) \/ Answer(r)
      PROVE  Holders(c)' = Holders(c) /\ count' = count
  BY <1>5 DEF Record, TellStatus, Answer
<1>6. CASE \E menu \in Menus : EditMenu(menu)
  BY <1>6 DEF EditMenu
<1>7. CASE Stop
  BY <1>7 DEF Stop
<1>8. CASE UNCHANGED vars
  BY <1>8 DEF vars
<1> QED
  BY <1>1, <1>2, <1>3, <1>4, <1>5, <1>6, <1>7, <1>8 DEF Quiet

(* A redemption makes its request a holder, of its own code only.          *)
LEMMA RedeemAddsHolder ==
  ASSUME TypeOK, HandlersOwn, NEW r \in Requests, Redeem(r), NEW c \in Codes
  PROVE  /\ CodeOf(r) \in Codes
         /\ r \notin Holders(CodeOf(r))
         /\ Holders(c)' = IF c = CodeOf(r) THEN Holders(c) \cup {r} ELSE Holders(c)
         /\ count' = [count EXCEPT ![CodeOf(r)] = count[CodeOf(r)] + 1]
BY CodesAreCodes DEF TypeOK, HandlersOwn, Holders, Goto, Redeem

(* A request that cannot be named gives its own use back.                  *)
LEMMA NameFailsDropsHolder ==
  ASSUME TypeOK, HandlersOwn, NEW r \in Requests, NameFails(r), NEW c \in Codes
  PROVE  /\ Holders(c)' = Holders(c) \ {r}
         /\ CodeOf(r) # c => r \notin Holders(c)
         /\ CodeOf(r) = c => r \in Holders(c)
BY DEF TypeOK, HandlersOwn, Holders, Goto, Outcome, NameFails

LEMMA BootForgets ==
  ASSUME Boot, NEW c \in Codes
  PROVE  Holders(c)' = {} /\ count'[c] = 0
BY DEF Boot, Holders

(* While the process lives, what could be read can still be read.          *)
LEMMA EditionsStay ==
  ASSUME TypeOK,
         Quiet \/ (\E r \in Requests : Redeem(r) \/ NameFails(r))
  PROVE  /\ since' = since /\ Latest' \in Nat /\ Latest <= Latest'
         /\ \A i \in 1..Latest : i \in 1..Latest' /\ editions'[i] = editions[i]
<1> USE DEF TypeOK, Latest
<1>1. CASE editions' = editions /\ since' = since
  BY <1>1
<1>2. ASSUME NEW menu \in Menus, EditMenu(menu)
      PROVE  /\ since' = since /\ Latest' = Latest + 1
             /\ \A i \in 1..Latest : editions'[i] = editions[i]
  BY <1>2 DEF EditMenu
<1> QED
  BY <1>1, <1>2
  DEF Quiet, vars, menuVars, Submit, ReadMenu, ReadFails, Refuse, TakeFullPrice,
      RedeemRefused, NameOrder, Record, TellStatus, Answer, Stop, Redeem,
      NameFails

LEMMA HandlersOwnStep == TypeOK /\ HandlersOwn /\ [Next]_vars => HandlersOwn'
<1> SUFFICES ASSUME TypeOK, HandlersOwn, [Next]_vars PROVE HandlersOwn'
  OBVIOUS
<1> USE DEF TypeOK, HandlersOwn, Goto, Outcome, menuVars, handlerVars
<1>1. ASSUME NEW r \in Requests, Submit(r) PROVE HandlersOwn'
  BY <1>1 DEF Submit
<1>2. ASSUME NEW r \in Requests, ReadMenu(r) \/ ReadFails(r) \/ Refuse(r)
      PROVE  HandlersOwn'
  BY <1>2 DEF ReadMenu, ReadFails, Refuse
<1>3. ASSUME NEW r \in Requests,
             TakeFullPrice(r) \/ Redeem(r) \/ RedeemRefused(r)
      PROVE  HandlersOwn'
  BY <1>3 DEF TakeFullPrice, Redeem, RedeemRefused
<1>4. ASSUME NEW r \in Requests, NameOrder(r) \/ NameFails(r)
      PROVE  HandlersOwn'
  BY <1>4 DEF NameOrder, NameFails
<1>5. ASSUME NEW r \in Requests, Record(r) \/ TellStatus(r) \/ Answer(r)
      PROVE  HandlersOwn'
  BY <1>5 DEF Record, TellStatus, Answer
<1>6. CASE \E menu \in Menus : EditMenu(menu)
  BY <1>6 DEF EditMenu
<1>7. CASE Stop
  BY <1>7 DEF Stop
<1>8. CASE Restart
  BY <1>8 DEF Restart, Boot, InFlight
<1>9. CASE Crash
  BY <1>9 DEF Crash, Boot, InFlight
<1>10. CASE UNCHANGED vars
  BY <1>10 DEF vars
<1> QED
  BY <1>1, <1>2, <1>3, <1>4, <1>5, <1>6, <1>7, <1>8, <1>9, <1>10
  DEF Next, Handle

LEMMA AskedStep ==
  TypeOK /\ AskedSinceStart /\ [Next]_vars => AskedSinceStart'
<1> SUFFICES ASSUME TypeOK, AskedSinceStart, [Next]_vars PROVE AskedSinceStart'
  OBVIOUS
<1> USE DEF AskedSinceStart
<1>1. CASE Restart \/ Crash
  BY <1>1 DEF Restart, Crash, Boot
<1>2. ASSUME NEW r \in Requests, Submit(r) PROVE AskedSinceStart'
  BY <1>2 DEF Submit, menuVars, TypeOK, Latest
<1>3. CASE /\ Quiet \/ (\E r \in Requests : Redeem(r) \/ NameFails(r))
           /\ taken' = taken /\ asked' = asked
  BY <1>3, EditionsStay DEF TypeOK, Latest
<1> QED
  BY <1>1, <1>2, <1>3, StepKinds
  DEF Quiet, vars, ReadMenu, ReadFails, Refuse, TakeFullPrice, RedeemRefused,
      NameOrder, Record, TellStatus, Answer, EditMenu, Stop, Redeem, NameFails

(* What a handler at work could have read lies among the editions.         *)
LEMMA InHand ==
  ASSUME TypeOK, HandlersOwn, AskedSinceStart, NEW r \in Requests,
         phase[r] \in {"reading", "preparing"}
  PROVE  /\ Latest \in Nat /\ since \in 1..Latest
         /\ asked[r] \in since..Latest
         /\ Readable(asked[r]) \subseteq 1..Latest
         /\ Readable(asked[r]) \subseteq Readable(since)
<1>1. Latest \in Nat /\ since \in 1..Latest
  BY DEF TypeOK, Latest
<1>2. r \in taken
  BY DEF HandlersOwn
<1>3. asked[r] \in since..Latest
  BY <1>2 DEF AskedSinceStart
<1> QED
  BY <1>1, <1>3 DEF Readable

(* A menu that was in force while a request was in hand still was, later.  *)
LEMMA SeenStep ==
  /\ TypeOK /\ HandlersOwn /\ AskedSinceStart /\ SeenInForce
  /\ [Next]_vars
  => SeenInForce'
<1> SUFFICES ASSUME TypeOK, HandlersOwn, AskedSinceStart, SeenInForce,
                    [Next]_vars,
                    NEW q \in Requests, phase'[q] = "preparing"
             PROVE  \E i \in Readable(asked[q])' : seen'[q] = editions'[i]
  BY DEF SeenInForce
<1>1. ASSUME ReadMenu(q)
      PROVE  \E i \in Readable(asked[q])' : seen'[q] = editions'[i]
  <2>1. asked[q] \in since..Latest
    BY <1>1, InHand DEF ReadMenu, Goto
  <2>2. (IF MenuFromFolder THEN since ELSE Latest) \in Readable(asked[q])
    BY <2>1 DEF Readable, TypeOK, Latest
  <2> QED
    BY <1>1, <2>2 DEF ReadMenu, Served, menuVars, Readable, Latest, TypeOK
<1>2. ASSUME ~ReadMenu(q), ~Restart, ~Crash
      PROVE  \E i \in Readable(asked[q])' : seen'[q] = editions'[i]
  <2>1. phase[q] = "preparing" /\ seen'[q] = seen[q] /\ asked'[q] = asked[q]
    BY <1>2
    DEF Next, Handle, vars, handlerVars, Goto, TypeOK, Submit, ReadMenu,
        ReadFails, Refuse, TakeFullPrice, RedeemRefused, NameOrder, Record,
        TellStatus, Answer, EditMenu, Stop, Redeem, NameFails
  <2>2. PICK i \in Readable(asked[q]) : seen[q] = editions[i]
    BY <2>1 DEF SeenInForce
  <2>3. /\ Latest \in Nat /\ since \in 1..Latest
        /\ asked[q] \in since..Latest
        /\ i \in 1..Latest
    BY <2>1, <2>2, InHand
  <2>5. i \in Readable(asked[q])' /\ editions'[i] = editions[i]
    <3>1. /\ since' = since /\ Latest' \in Nat /\ Latest <= Latest'
          /\ editions'[i] = editions[i]
      BY <1>2, <2>3, StepKinds, EditionsStay
    <3> QED
      BY <3>1, <2>1, <2>2, <2>3 DEF Readable
  <2> QED
    BY <2>1, <2>2, <2>5
<1>3. CASE Restart \/ Crash
  BY <1>3 DEF Restart, Crash, InFlight, TypeOK, handlerVars
<1> QED
  BY <1>1, <1>2, <1>3

(* The count and the set it counts move together.                          *)
LEMMA CountStep ==
  TypeOK /\ HandlersOwn /\ HoldersFinite /\ CountIsHeld /\ [Next]_vars
  => HoldersFinite' /\ CountIsHeld'
<1> SUFFICES ASSUME TypeOK, HandlersOwn, HoldersFinite, CountIsHeld, [Next]_vars,
                    NEW c \in Codes
             PROVE  /\ IsFiniteSet(Holders(c)')
                    /\ count'[c] = Cardinality(Holders(c)')
  BY DEF HoldersFinite, CountIsHeld
<1>1. IsFiniteSet(Holders(c)) /\ count[c] = Cardinality(Holders(c))
  BY DEF HoldersFinite, CountIsHeld
<1>2. CASE Quiet
  BY <1>1, <1>2, QuietKeepsHolders
<1>3. ASSUME NEW r \in Requests, Redeem(r)
      PROVE  /\ IsFiniteSet(Holders(c)')
             /\ count'[c] = Cardinality(Holders(c)')
  <2>1. /\ CodeOf(r) \in Codes
        /\ r \notin Holders(CodeOf(r))
        /\ Holders(c)' = IF c = CodeOf(r) THEN Holders(c) \cup {r} ELSE Holders(c)
        /\ count' = [count EXCEPT ![CodeOf(r)] = count[CodeOf(r)] + 1]
    BY <1>3, RedeemAddsHolder
  <2>2. CASE c = CodeOf(r)
    <3>1. /\ IsFiniteSet(Holders(c) \cup {r})
          /\ Cardinality(Holders(c) \cup {r}) = Cardinality(Holders(c)) + 1
      BY <1>1, <2>1, <2>2, FS_AddElement
    <3> QED
      BY <1>1, <2>1, <2>2, <3>1 DEF TypeOK
  <2>3. CASE c # CodeOf(r)
    BY <1>1, <2>1, <2>3 DEF TypeOK
  <2> QED
    BY <2>2, <2>3
<1>4. ASSUME NEW r \in Requests, NameFails(r)
      PROVE  /\ IsFiniteSet(Holders(c)')
             /\ count'[c] = Cardinality(Holders(c)')
  <2>1. /\ Holders(c)' = Holders(c) \ {r}
        /\ CodeOf(r) # c => r \notin Holders(c)
        /\ CodeOf(r) = c => r \in Holders(c)
    BY <1>4, NameFailsDropsHolder
  <2>2. /\ IsFiniteSet(Holders(c) \ {r})
        /\ Cardinality(Holders(c) \ {r}) =
             IF r \in Holders(c) THEN Cardinality(Holders(c)) - 1
                                 ELSE Cardinality(Holders(c))
    BY <1>1, FS_RemoveElement
  <2>3. CASE CodeOf(r) = c
    <3>1. count[c] > 0
      <4>1. Cardinality(Holders(c)) # 0
        BY <1>1, <2>1, <2>3, FS_EmptySet
      <4> QED
        BY <1>1, <4>1 DEF TypeOK
    <3>2. CodeOf(r) # NoCode
      BY <2>3, MenuAssumption
    <3>3. count'[c] = count[c] - 1
      BY <1>4, <2>3, <3>1, <3>2 DEF NameFails, Release, TypeOK
    <3> QED
      BY <1>1, <2>1, <2>2, <2>3, <3>3
  <2>4. CASE CodeOf(r) # c
    <3>1. count'[c] = count[c]
      BY <1>4, <2>4 DEF NameFails, Release, TypeOK
    <3> QED
      BY <1>1, <2>1, <2>2, <2>4, <3>1
  <2> QED
    BY <2>3, <2>4
<1>5. CASE Restart \/ Crash
  BY <1>5, BootForgets, FS_EmptySet DEF Restart, Crash
<1> QED
  BY <1>2, <1>3, <1>4, <1>5, StepKinds

(* A use is only counted below a limit of a menu of this process's time,   *)
(* and those limits only grow in number while the process lives.           *)
LEMMA OversoldStep ==
  /\ TypeOK /\ HandlersOwn /\ AskedSinceStart /\ SeenInForce
  /\ HoldersFinite /\ CountIsHeld /\ NeverOversold /\ [Next]_vars
  => NeverOversold'
<1> SUFFICES ASSUME TypeOK, HandlersOwn, AskedSinceStart, SeenInForce,
                    HoldersFinite, CountIsHeld, NeverOversold, [Next]_vars,
                    NEW c \in Codes, Holders(c)' # {}
             PROVE  \E i \in Readable(since)' :
                      LET limit == editions'[i].vouchers[c].limit
                      IN  limit = 0 \/ Cardinality(Holders(c)') <= limit
  BY DEF NeverOversold
<1>1. IsFiniteSet(Holders(c)) /\ count[c] = Cardinality(Holders(c))
  BY DEF HoldersFinite, CountIsHeld
<1>2. ~Restart /\ ~Crash
  BY BootForgets DEF Restart, Crash
<1>3. /\ since' = since /\ Latest' \in Nat /\ Latest <= Latest'
      /\ Latest \in Nat /\ since \in 1..Latest
      /\ \A i \in 1..Latest : editions'[i] = editions[i]
  BY <1>2, StepKinds, EditionsStay DEF TypeOK, Latest
<1>4. \A i \in Readable(since) :
        i \in Readable(since)' /\ editions'[i] = editions[i]
  BY <1>3 DEF Readable
<1>5. ASSUME NEW r \in Requests, Redeem(r), c = CodeOf(r)
      PROVE  \E i \in Readable(since)' :
               LET limit == editions'[i].vouchers[c].limit
               IN  limit = 0 \/ Cardinality(Holders(c)') <= limit
  <2>1. PICK i \in Readable(since) : seen[r] = editions[i]
    BY <1>5, InHand DEF Redeem, Goto, SeenInForce
  <2>2. editions[i] \in Menus
    BY <1>3, <2>1 DEF Readable, TypeOK, Latest
  <2>3. editions[i].vouchers[c].limit \in Nat
    BY <2>2, LimitsAreNumbers
  <2>4. ~AtLimit(count[c], editions[i].vouchers[c].limit)
    BY <1>5, <2>1 DEF Redeem
  <2>5. Cardinality(Holders(c)') = Cardinality(Holders(c)) + 1
    <3>1. r \notin Holders(c) /\ Holders(c)' = Holders(c) \cup {r}
      BY <1>5, RedeemAddsHolder
    <3> QED
      BY <1>1, <3>1, FS_AddElement
  <2>6. \/ editions[i].vouchers[c].limit = 0
        \/ Cardinality(Holders(c)') <= editions[i].vouchers[c].limit
    BY <1>1, <2>3, <2>4, <2>5 DEF AtLimit, TypeOK
  <2> QED
    BY <1>4, <2>1, <2>6
<1>6. ASSUME IsFiniteSet(Holders(c)'), Holders(c)' \subseteq Holders(c)
      PROVE  \E i \in Readable(since)' :
               LET limit == editions'[i].vouchers[c].limit
               IN  limit = 0 \/ Cardinality(Holders(c)') <= limit
  <2>1. PICK i \in Readable(since) :
          \/ editions[i].vouchers[c].limit = 0
          \/ Cardinality(Holders(c)) <= editions[i].vouchers[c].limit
    BY <1>6 DEF NeverOversold
  <2>2. editions[i] \in Menus
    BY <1>3, <2>1 DEF Readable, TypeOK, Latest
  <2>3. editions[i].vouchers[c].limit \in Nat
    BY <2>2, LimitsAreNumbers
  <2>4. /\ Cardinality(Holders(c)') <= Cardinality(Holders(c))
        /\ Cardinality(Holders(c)) \in Nat /\ Cardinality(Holders(c)') \in Nat
    BY <1>1, <1>6, FS_Subset, FS_CardinalityType
  <2> QED
    BY <1>4, <2>1, <2>3, <2>4
<1>7. Holders(c)' \subseteq Holders(c) \/ (\E r \in Requests : Redeem(r) /\ c = CodeOf(r))
  BY <1>2, StepKinds, QuietKeepsHolders, RedeemAddsHolder, NameFailsDropsHolder
<1>8. Holders(c)' \subseteq Holders(c) => IsFiniteSet(Holders(c)')
  BY <1>1, FS_Subset
<1> QED
  BY <1>5, <1>6, <1>7, <1>8

LEMMA InvariantInit == Init => IInv
<1> SUFFICES ASSUME Init PROVE IInv
  OBVIOUS
<1>1. TypeOK
  BY TypeInit
<1>2. \A c \in Codes : Holders(c) = {}
  BY DEF Init, Holders
<1>3. HoldersFinite /\ CountIsHeld /\ NeverOversold
  BY <1>2, FS_EmptySet DEF HoldersFinite, CountIsHeld, NeverOversold, Init
<1>4. HandlersOwn /\ AskedSinceStart /\ SeenInForce
  BY DEF Init, HandlersOwn, AskedSinceStart, SeenInForce
<1> QED
  BY <1>1, <1>3, <1>4 DEF IInv

LEMMA InvariantStep == IInv /\ [Next]_vars => IInv'
BY TypeStep, HandlersOwnStep, AskedStep, SeenStep, CountStep, OversoldStep
DEF IInv

LEMMA Invariant == Spec => []IInv
<1> QED
  BY InvariantInit, InvariantStep, PTL DEF Spec

(* The ledger counts exactly the uses that are held.                       *)
THEOREM LedgerIsExact == Spec => []CountIsHeld
<1>1. IInv => CountIsHeld
  BY DEF IInv
<1> QED
  BY <1>1, Invariant, PTL

(* No interleaving of orders, edits and restarts oversells a voucher.      *)
THEOREM NoVoucherOversold == Spec => []NeverOversold
<1>1. IInv => NeverOversold
  BY DEF IInv
<1> QED
  BY <1>1, Invariant, PTL

-----------------------------------------------------------------------------
(* The feed.                                                               *)

(* A request is on the feed from the step that records it, once; and the   *)
(* status is told of a placed one before the reply is due.                 *)
Recorded ==
  /\ \A i \in 1..Len(feed) : phase[feed[i]] \in {"telling", "answering", "done"}
  /\ \A i, j \in 1..Len(feed) : feed[i] = feed[j] => i = j
  /\ \A r \in taken :
       phase[r] \in {"telling", "answering", "done"} /\ outcome[r] # "KubeError"
         => OnFeed(r)
  /\ \A r \in taken :
       phase[r] \in {"answering", "done"} /\ outcome[r] = "placed" => r \in told

(* A handler that has not recorded its request moves on, and the feed and  *)
(* what was told stay.                                                     *)
LEMMA BeforeRecord ==
  ASSUME TypeOK, Recorded, NEW r \in Requests,
         UNCHANGED <<feed, told>>,
         phase[r] \notin {"telling", "answering", "done"},
         \/ phase'[r] \in {"reading", "preparing", "naming", "recording"}
         \/ phase'[r] = "answering" /\ outcome'[r] = "KubeError",
         taken' \subseteq taken \cup {r},
         \A q \in Requests : q # r => phase'[q] = phase[q] /\ outcome'[q] = outcome[q]
  PROVE  Recorded'
<1>1. \A i \in 1..Len(feed) : feed[i] \in Requests /\ feed[i] # r
  BY DEF TypeOK, Recorded
<1>2. taken \subseteq Requests
  BY DEF TypeOK
<1> QED
  BY <1>1, <1>2 DEF Recorded, OnFeed

LEMMA RecordedStep == TypeOK /\ HandlersOwn /\ Recorded /\ [Next]_vars => Recorded'
<1> SUFFICES ASSUME TypeOK, HandlersOwn, Recorded, [Next]_vars PROVE Recorded'
  OBVIOUS
<1> USE DEF Goto, Outcome, menuVars, handlerVars
<1>0. /\ phase \in [Requests -> Phases] /\ outcome \in [Requests -> Outcomes]
      /\ feed \in Seq(Requests) /\ taken \subseteq Requests
  BY DEF TypeOK
<1>1. ASSUME NEW r \in Requests, Submit(r) PROVE Recorded'
  BY <1>0, <1>1, BeforeRecord DEF Submit
<1>2. ASSUME NEW r \in Requests,
             \/ ReadMenu(r) \/ ReadFails(r) \/ Refuse(r) \/ TakeFullPrice(r)
             \/ Redeem(r) \/ RedeemRefused(r) \/ NameOrder(r) \/ NameFails(r)
      PROVE  Recorded'
  <2>1. /\ UNCHANGED <<feed, told, taken>>
        /\ phase[r] \notin {"telling", "answering", "done"}
        /\ \/ phase'[r] \in {"reading", "preparing", "naming", "recording"}
           \/ phase'[r] = "answering" /\ outcome'[r] = "KubeError"
        /\ \A q \in Requests :
             q # r => phase'[q] = phase[q] /\ outcome'[q] = outcome[q]
    BY <1>0, <1>2
    DEF ReadMenu, ReadFails, Refuse, TakeFullPrice, Redeem, RedeemRefused,
        NameOrder, NameFails
  <2> QED
    BY <2>1, BeforeRecord
<1>3. ASSUME NEW r \in Requests, Record(r) PROVE Recorded'
  <2>1. /\ phase[r] = "recording" /\ phase'[r] \in {"telling", "answering"}
        /\ outcome[r] = "placed" => phase'[r] = "telling"
        /\ \A q \in Requests : q # r => phase'[q] = phase[q]
        /\ UNCHANGED <<outcome, told, taken>>
    BY <1>0, <1>3 DEF Record
  <2>2. /\ Len(feed) \in Nat /\ Len(feed') = Len(feed) + 1
        /\ feed'[Len(feed) + 1] = r
        /\ \A i \in 1..Len(feed) :
             i \in 1..Len(feed') /\ feed'[i] = feed[i] /\ feed[i] \in Requests
    BY <1>0, <1>3 DEF Record
  <2>3. \A i \in 1..Len(feed) : feed[i] # r
    BY <2>1 DEF Recorded
  <2>4. \A q : OnFeed(q)' <=> OnFeed(q) \/ q = r
    BY <2>2 DEF OnFeed
  <2>5. \A i \in 1..Len(feed') : phase'[feed'[i]] \in {"telling", "answering", "done"}
    BY <2>1, <2>2, <2>3 DEF Recorded
  <2>6. \A i, j \in 1..Len(feed') : feed'[i] = feed'[j] => i = j
    BY <2>2, <2>3 DEF Recorded
  <2>7. \A q \in taken' :
          phase'[q] \in {"telling", "answering", "done"} /\ outcome'[q] # "KubeError"
            => OnFeed(q)'
    BY <1>0, <2>1, <2>4 DEF Recorded
  <2>8. \A q \in taken' :
          phase'[q] \in {"answering", "done"} /\ outcome'[q] = "placed" => q \in told'
    BY <1>0, <2>1 DEF Recorded
  <2> QED
    BY <2>5, <2>6, <2>7, <2>8 DEF Recorded
<1>4. ASSUME NEW r \in Requests, TellStatus(r) PROVE Recorded'
  BY <1>0, <1>4 DEF TellStatus, Recorded, OnFeed
<1>5. ASSUME NEW r \in Requests, Answer(r) PROVE Recorded'
  BY <1>0, <1>5 DEF Answer, Recorded, OnFeed
<1>6. ASSUME NEW menu \in Menus, EditMenu(menu) PROVE Recorded'
  BY <1>6 DEF EditMenu, Recorded, OnFeed
<1>7. ASSUME Stop \/ UNCHANGED vars PROVE Recorded'
  BY <1>7 DEF Stop, vars, Recorded, OnFeed
<1>8. ASSUME Restart \/ Crash PROVE Recorded'
  BY <1>8 DEF Restart, Crash, Boot, Recorded, OnFeed
<1> QED
  BY <1>1, <1>2, <1>3, <1>4, <1>5, <1>6, <1>7, <1>8 DEF Next, Handle

(* Whoever has an answer the shop decided is on the feed, once, and of a   *)
(* placed order the status has heard; whatever else was in flight, refused *)
(* or stopped meanwhile.                                                   *)
THEOREM AnswerComesLast == Spec => []AnsweredIsOnFeed
<1>1. Init => Recorded
  BY DEF Init, Recorded
<1>2. IInv /\ Recorded /\ [Next]_vars => Recorded'
  BY RecordedStep DEF IInv
<1>3. Recorded => AnsweredIsOnFeed
  BY DEF Recorded, AnsweredIsOnFeed
<1> QED
  BY <1>1, <1>2, <1>3, Invariant, PTL DEF Spec

-----------------------------------------------------------------------------
(* What a step may never do.                                               *)

LEMMA RefusalIsNotDepletion ==
  ASSUME NEW menu, NEW order
  PROVE  Refusal(menu, order) # "VoucherDepleted"
BY DEF Refusal

(* The only step that says "depleted" is the ledger's own refusal.         *)
LEMMA WhoSaysDepleted ==
  ASSUME TypeOK, [Next]_vars, NEW r \in Requests,
         outcome'[r] = "VoucherDepleted", outcome[r] # "VoucherDepleted"
  PROVE  RedeemRefused(r)
BY RefusalIsNotDepletion
DEF Next, Handle, TypeOK, Outcome, vars, handlerVars, Submit, ReadMenu,
    ReadFails, Refuse, TakeFullPrice, Redeem, RedeemRefused, NameOrder,
    NameFails, Record, TellStatus, Answer, EditMenu, Stop, Restart, Crash

(* "Depleted" is said only while the limit's worth of uses is held, and of *)
(* a limit that was in force while that order was in hand.                 *)
THEOREM DepletionIsReal == Spec => DepletedOnlyWhenSpent
<1>1. ASSUME IInv, [Next]_vars, NEW r \in Requests,
             outcome'[r] = "VoucherDepleted", outcome[r] # "VoucherDepleted"
      PROVE  \E i \in Readable(asked[r]) :
               LET limit == editions[i].vouchers[CodeOf(r)].limit
               IN  limit > 0 /\ Cardinality(Holders(CodeOf(r))) >= limit
  <2>1. RedeemRefused(r)
    BY <1>1, WhoSaysDepleted DEF IInv
  <2>2. PICK i \in Readable(asked[r]) : seen[r] = editions[i]
    BY <1>1, <2>1 DEF IInv, SeenInForce, RedeemRefused, Goto
  <2>3. CodeOf(r) \in Codes
    BY <2>1, CodesAreCodes DEF RedeemRefused
  <2>4. count[CodeOf(r)] = Cardinality(Holders(CodeOf(r)))
    BY <1>1, <2>3 DEF IInv, CountIsHeld
  <2> QED
    BY <2>1, <2>2, <2>4 DEF RedeemRefused, AtLimit
<1>2. IInv /\ [Next]_vars =>
        [\A r \in Requests :
           outcome'[r] = "VoucherDepleted" /\ outcome[r] # "VoucherDepleted" =>
             \E i \in Readable(asked[r]) :
               LET limit == editions[i].vouchers[CodeOf(r)].limit
               IN  limit > 0 /\ Cardinality(Holders(CodeOf(r))) >= limit]_vars
  BY <1>1
<1> QED
  BY <1>2, Invariant, PTL DEF Spec, DepletedOnlyWhenSpent

-----------------------------------------------------------------------------
(* The till implements the allowance.                                      *)

LEMMA HoldersAreClaimedOrSold ==
  ASSUME NEW c \in Codes
  PROVE  Holders(c) = Claimed[c] \cup Sold[c]
BY DEF Holders, Claimed, Sold

(* The instance's Cardinality is the one it was declared with.             *)
LEMMA PromiseCardinality ==
  ASSUME NEW S
  PROVE  Promise!Cardinality(S) = Cardinality(S)
BY DEF Promise!Cardinality, Cardinality, Promise!IsFiniteSet, IsFiniteSet

(* A step that moves nothing the allowance sees.                           *)
Invisible == Claimed' = Claimed /\ Sold' = Sold /\ Shown' = Shown

LEMMA PromiseStep == IInv /\ [Next]_vars => [Promise!Next]_(Promise!vars)
<1> SUFFICES ASSUME IInv, [Next]_vars
             PROVE  Promise!Next \/ Invisible
  BY DEF Promise!vars, Invisible
<1> USE DEF IInv
<1>1. ASSUME NEW r \in Requests, Submit(r) PROVE Invisible
  <2>1. ASSUME NEW c \in Codes
        PROVE  /\ {q \in taken' : CodeOf(q) = c /\ phase'[q] = "naming"} = Claimed[c]
               /\ {q \in taken' : CodeOf(q) = c /\ outcome'[q] = "placed"} = Sold[c]
    BY <1>1 DEF Submit, Goto, HandlersOwn, TypeOK, Claimed, Sold
  <2>2. Shown' = Shown
    BY <1>1 DEF Submit, Shown, menuVars, Readable, Latest
  <2> QED
    BY <2>1, <2>2 DEF Invisible, Claimed, Sold
<1>2. ASSUME NEW r \in Requests, ReadMenu(r) \/ ReadFails(r) \/ Refuse(r)
      PROVE  Invisible
  <2>1. ASSUME NEW c \in Codes
        PROVE  /\ {q \in taken' : CodeOf(q) = c /\ phase'[q] = "naming"} = Claimed[c]
               /\ {q \in taken' : CodeOf(q) = c /\ outcome'[q] = "placed"} = Sold[c]
    BY <1>2, RefusalsAreOutcomes
    DEF ReadMenu, ReadFails, Refuse, Goto, Outcome, HandlersOwn, TypeOK,
        Claimed, Sold
  <2>2. Shown' = Shown
    BY <1>2 DEF ReadMenu, ReadFails, Refuse, Shown, menuVars, Readable, Latest
  <2> QED
    BY <2>1, <2>2 DEF Invisible, Claimed, Sold
<1>3. ASSUME NEW r \in Requests, TakeFullPrice(r) PROVE Invisible
  BY <1>3, MenuAssumption
  DEF Invisible, TakeFullPrice, Goto, TypeOK, Claimed, Sold, Shown, menuVars,
      Readable, Latest
<1>4. ASSUME NEW r \in Requests,
             RedeemRefused(r) \/ Record(r) \/ TellStatus(r) \/ Answer(r)
      PROVE  Invisible
  <2>1. ASSUME NEW c \in Codes
        PROVE  /\ {q \in taken' : CodeOf(q) = c /\ phase'[q] = "naming"} = Claimed[c]
               /\ {q \in taken' : CodeOf(q) = c /\ outcome'[q] = "placed"} = Sold[c]
    BY <1>4
    DEF RedeemRefused, Record, TellStatus, Answer, Goto, Outcome, HandlersOwn,
        TypeOK, Claimed, Sold
  <2>2. Shown' = Shown
    BY <1>4 DEF RedeemRefused, Record, TellStatus, Answer, Shown, menuVars,
                Readable, Latest
  <2> QED
    BY <2>1, <2>2 DEF Invisible, Claimed, Sold
<1>5. ASSUME NEW r \in Requests, Redeem(r) PROVE Promise!Claim(CodeOf(r), r)
  <2>1. CodeOf(r) \in Codes /\ r \notin Holders(CodeOf(r))
    <3>1. CodeOf(r) \in Codes
      BY <1>5, CodesAreCodes DEF Redeem
    <3> QED
      BY <1>5, <3>1, RedeemAddsHolder
  <2>2. r \notin Claimed[CodeOf(r)] \cup Sold[CodeOf(r)]
    BY <2>1, HoldersAreClaimedOrSold
  <2>3. Promise!Room(CodeOf(r))
    <3>1. PICK i \in Readable(since) : seen[r] = editions[i]
      BY <1>5, InHand DEF Redeem, Goto, SeenInForce
    <3>2. editions[i].vouchers[CodeOf(r)].limit \in Shown[CodeOf(r)]
      BY <2>1, <3>1 DEF Shown
    <3>3. editions[i] \in Menus
      BY <3>1 DEF Readable, TypeOK, Latest
    <3>4. editions[i].vouchers[CodeOf(r)].limit \in Nat
      BY <2>1, <3>3, LimitsAreNumbers
    <3>5. count[CodeOf(r)] = Cardinality(Claimed[CodeOf(r)] \cup Sold[CodeOf(r)])
      BY <2>1, HoldersAreClaimedOrSold DEF CountIsHeld
    <3>6. count[CodeOf(r)] \in Nat
      BY <2>1 DEF TypeOK
    <3>7. ~AtLimit(count[CodeOf(r)], editions[i].vouchers[CodeOf(r)].limit)
      BY <1>5, <3>1 DEF Redeem
    <3>8. \/ editions[i].vouchers[CodeOf(r)].limit = 0
          \/ count[CodeOf(r)] < editions[i].vouchers[CodeOf(r)].limit
      BY <3>4, <3>6, <3>7 DEF AtLimit
    <3>9. \/ editions[i].vouchers[CodeOf(r)].limit = 0
          \/ Cardinality(Claimed[CodeOf(r)] \cup Sold[CodeOf(r)])
               < editions[i].vouchers[CodeOf(r)].limit
      BY <3>5, <3>8
    <3> QED
      BY <3>2, <3>9, PromiseCardinality DEF Promise!Room
  <2>4. Claimed' = [Claimed EXCEPT ![CodeOf(r)] = @ \cup {r}]
    <3>1. r \in taken /\ taken' = taken /\ phase' = [phase EXCEPT ![r] = "naming"]
      BY <1>5 DEF Redeem, Goto, HandlersOwn
    <3>2. ASSUME NEW c \in Codes
          PROVE  {q \in taken' : CodeOf(q) = c /\ phase'[q] = "naming"} =
                   IF c = CodeOf(r) THEN Claimed[c] \cup {r} ELSE Claimed[c]
      BY <3>1 DEF Claimed, TypeOK
    <3> QED
      BY <2>1, <3>2 DEF Claimed
  <2>5. Sold' = Sold /\ Shown' = Shown
    BY <1>5 DEF Redeem, Goto, Sold, Shown, menuVars, Readable, Latest
  <2> QED
    BY <2>2, <2>3, <2>4, <2>5 DEF Promise!Claim
<1>6. ASSUME NEW r \in Requests, NameOrder(r)
      PROVE  Invisible \/ (Promise!Sell(CodeOf(r), r) /\ CodeOf(r) \in Codes)
  <2>1. Shown' = Shown
    BY <1>6 DEF NameOrder, Shown, menuVars, Readable, Latest
  <2>2. ASSUME CodeOf(r) \in Codes
        PROVE  /\ r \in Claimed[CodeOf(r)]
               /\ Claimed' = [Claimed EXCEPT ![CodeOf(r)] = @ \ {r}]
               /\ Sold' = [Sold EXCEPT ![CodeOf(r)] = @ \cup {r}]
    <3>1. /\ r \in taken /\ taken' = taken /\ phase[r] = "naming"
          /\ phase' = [phase EXCEPT ![r] = "recording"]
          /\ outcome' = [outcome EXCEPT ![r] = "placed"]
      BY <1>6 DEF NameOrder, Goto, Outcome, HandlersOwn
    <3>2. ASSUME NEW c \in Codes
          PROVE  /\ {q \in taken' : CodeOf(q) = c /\ phase'[q] = "naming"} =
                      IF c = CodeOf(r) THEN Claimed[c] \ {r} ELSE Claimed[c]
                 /\ {q \in taken' : CodeOf(q) = c /\ outcome'[q] = "placed"} =
                      IF c = CodeOf(r) THEN Sold[c] \cup {r} ELSE Sold[c]
      BY <3>1 DEF Claimed, Sold, TypeOK
    <3>3. r \in Claimed[CodeOf(r)]
      BY <2>2, <3>1 DEF Claimed
    <3>4. Claimed' = [Claimed EXCEPT ![CodeOf(r)] = @ \ {r}]
      BY <2>2, <3>2 DEF Claimed
    <3>5. Sold' = [Sold EXCEPT ![CodeOf(r)] = @ \cup {r}]
      BY <2>2, <3>2 DEF Sold
    <3> QED
      BY <3>3, <3>4, <3>5
  <2>3. ASSUME CodeOf(r) \notin Codes
        PROVE  Claimed' = Claimed /\ Sold' = Sold
    BY <1>6, <2>3 DEF NameOrder, Goto, Outcome, Claimed, Sold, HandlersOwn, TypeOK
  <2> QED
    BY <2>1, <2>2, <2>3 DEF Invisible, Promise!Sell
<1>7. ASSUME NEW r \in Requests, NameFails(r)
      PROVE  Invisible \/ (Promise!GiveBack(CodeOf(r), r) /\ CodeOf(r) \in Codes)
  <2>1. Shown' = Shown /\ Sold' = Sold
    BY <1>7 DEF NameFails, Goto, Outcome, Sold, Shown, menuVars, Readable,
                Latest, HandlersOwn, TypeOK
  <2>2. ASSUME CodeOf(r) \in Codes
        PROVE  /\ r \in Claimed[CodeOf(r)]
               /\ Claimed' = [Claimed EXCEPT ![CodeOf(r)] = @ \ {r}]
    <3>1. /\ r \in taken /\ taken' = taken /\ phase[r] = "naming"
          /\ phase' = [phase EXCEPT ![r] = "recording"]
      BY <1>7 DEF NameFails, Goto, HandlersOwn
    <3>2. ASSUME NEW c \in Codes
          PROVE  {q \in taken' : CodeOf(q) = c /\ phase'[q] = "naming"} =
                   IF c = CodeOf(r) THEN Claimed[c] \ {r} ELSE Claimed[c]
      BY <3>1 DEF Claimed, TypeOK
    <3>3. r \in Claimed[CodeOf(r)]
      BY <2>2, <3>1 DEF Claimed
    <3>4. Claimed' = [Claimed EXCEPT ![CodeOf(r)] = @ \ {r}]
      BY <2>2, <3>2 DEF Claimed
    <3> QED
      BY <3>3, <3>4
  <2>3. ASSUME CodeOf(r) \notin Codes
        PROVE  Claimed' = Claimed
    BY <1>7, <2>3 DEF NameFails, Goto, Outcome, Claimed, HandlersOwn, TypeOK
  <2> QED
    BY <2>1, <2>2, <2>3 DEF Invisible, Promise!GiveBack
<1>8. ASSUME NEW menu \in Menus, EditMenu(menu) PROVE Promise!Show
  <2>1. Claimed' = Claimed /\ Sold' = Sold
    BY <1>8 DEF EditMenu, Claimed, Sold, handlerVars
  <2>2. ASSUME NEW c \in Codes PROVE Shown[c] \subseteq Shown'[c]
    <3>1. /\ since' = since /\ Latest' \in Nat /\ Latest <= Latest'
          /\ \A i \in 1..Latest : editions'[i] = editions[i]
      BY <1>8, EditionsStay DEF Quiet
    <3>2. Latest \in Nat /\ since \in 1..Latest
      BY DEF TypeOK, Latest
    <3>3. \A i \in Readable(since) :
            i \in Readable(since)' /\ editions'[i] = editions[i]
      BY <3>1, <3>2 DEF Readable
    <3> QED
      BY <3>3 DEF Shown
  <2> QED
    BY <2>1, <2>2 DEF Promise!Show
<1>9. ASSUME Stop \/ UNCHANGED vars PROVE Invisible
  BY <1>9 DEF Stop, vars, Invisible, Claimed, Sold, Shown, menuVars,
              handlerVars, Readable, Latest
<1>10. ASSUME Restart \/ Crash PROVE Promise!Reopen
  BY <1>10 DEF Restart, Crash, Boot, Promise!Reopen, Claimed, Sold
<1>11. \A r \in Requests : Redeem(r) => CodeOf(r) \in Codes
  BY CodesAreCodes DEF Redeem
<1> QED
  BY <1>1, <1>2, <1>3, <1>4, <1>5, <1>6, <1>7, <1>8, <1>9, <1>10, <1>11
  DEF Next, Handle, Promise!Next

(* The till implements the allowance, for every menu and every request.    *)
THEOREM TillKeepsPromise == Spec => KeepsPromise
<1>1. Init => Promise!Init
  <2> SUFFICES ASSUME Init PROVE Promise!Init
    OBVIOUS
  <2>1. TypeOK
    BY TypeInit
  <2>2. \A c \in Codes, i \in Readable(since) : editions[i].vouchers[c].limit \in Nat
    BY <2>1, LimitsAreNumbers DEF TypeOK, Readable, Latest
  <2>3. Shown \in [Codes -> SUBSET Nat]
    BY <2>2 DEF Shown
  <2> QED
    BY <2>3 DEF Init, Promise!Init, Claimed, Sold
<1> QED
  BY <1>1, PromiseStep, Invariant, PTL DEF Spec, KeepsPromise, Promise!Spec

=============================================================================
