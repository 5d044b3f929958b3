--------------------------- MODULE OrderFeedProofs ---------------------------
(***************************************************************************)
(* Theorems about OrderFeed, for any screens, capacities and bounds: the   *)
(* types; that no order is on a screen twice; that a watcher that lost     *)
(* nothing has every recent record on its way or on its screen; and that,  *)
(* as long as the process lives, a record of a new order is shown.         *)
(***************************************************************************)
EXTENDS OrderFeed, InductionLemmas, SequenceTheorems

-----------------------------------------------------------------------------
(* The inductive invariant.                                                *)

(* The records a process still holds, or has sent and were not read; and   *)
(* all there are, with those on a screen.                                  *)
OnTheWay ==
  Elems(records) \cup (UNION {Elems(chan[k]) \cup Elems(wire[k]) : k \in Conns})

Anywhere == OnTheWay \cup (UNION {Elems(shown[b]) : b \in Browsers})

(* An order was stamped once, and not before it was placed.                *)
StampedOnce ==
  /\ \A rec \in Anywhere : rec.order <= placed
  /\ \A rec, other \in Anywhere : rec.order = other.order => rec = other

(* The numbers of a page are those it shows, each once.                    *)
GoodPage(page) ==
  /\ page.seen \in SUBSET (Nat \ {0}) /\ page.shown \in Seq(Rec)
  /\ page.seen = Seqs(page.shown)
  /\ \A i, j \in DOMAIN page.shown :
       page.shown[i].seq = page.shown[j].seq => i = j

PagesGood == \A b \in Browsers : GoodPage(PageOf(b))

(* A record of this process is numbered by its orders alone, and no other  *)
(* is on its way.                                                          *)
Numbered ==
  /\ \A rec \in Anywhere : OfThisProcess(rec) => rec.order = Earlier + rec.seq
  /\ \A rec \in OnTheWay : OfThisProcess(rec)
  /\ Earlier \in Nat

(* The ring holds the last numbers of this process, in their order.        *)
RecentNumbers == {n \in 1..(nextSeq - 1) : n >= nextSeq - Capacity}

RingIsRecent ==
  /\ Len(records) = IF nextSeq - 1 > Capacity THEN Capacity ELSE nextSeq - 1
  /\ \A i \in DOMAIN records :
       records[i].seq = nextSeq - 1 - Len(records) + i

(* A page that is open has a connection of its own, which was made and     *)
(* whose handler has not ended.                                            *)
Connected ==
  /\ \A b \in Browsers :
       /\ conn[b] <= opened
       /\ (client[b] = "open") <=> (conn[b] # 0)
       /\ conn[b] # 0 => sub[conn[b]] \in {"subscribed", "streaming"}
  /\ \A b, c \in Browsers : conn[b] = conn[c] /\ conn[b] # 0 => b = c

(* Until the process is replaced the numbers count the orders.             *)
Unbroken ==
  /\ boots <= MaxBoots
  /\ boots = 0 =>
       /\ placed = nextSeq - 1
       /\ \A rec \in Anywhere : rec.seq = rec.order

(* A watcher that lost nothing has seen those numbers, or is sent them.     *)
NumbersHere ==
  \A b \in Browsers :
    LET k == conn[b] IN
    client[b] = "open" /\ sub[k] # "subscribed" /\ ~lost[k] =>
      RecentNumbers \subseteq seen[b] \cup Seqs(wire[k]) \cup Seqs(chan[k])

Inv ==
  /\ TypeOK /\ StampedOnce /\ PagesGood /\ RingIsRecent /\ Connected
  /\ NumbersHere /\ Numbered /\ Unbroken

-----------------------------------------------------------------------------
(* What sequences of records hold.                                         *)

LEMMA AppendHolds ==
  ASSUME NEW s \in Seq(Rec), NEW rec \in Rec
  PROVE  /\ Append(s, rec) \in Seq(Rec)
         /\ Elems(Append(s, rec)) = Elems(s) \cup {rec}
         /\ Seqs(Append(s, rec)) = Seqs(s) \cup {rec.seq}
<1>1. /\ Append(s, rec) \in Seq(Rec)
      /\ Len(Append(s, rec)) = Len(s) + 1
      /\ \A i \in 1..Len(s) : Append(s, rec)[i] = s[i]
      /\ Append(s, rec)[Len(s) + 1] = rec
  BY AppendProperties
<1>2. /\ DOMAIN s = 1..Len(s) /\ Len(s) \in Nat
      /\ DOMAIN Append(s, rec) = 1..(Len(s) + 1)
  BY <1>1, LenProperties
<1> QED
  BY <1>1, <1>2 DEF Elems, Seqs

(* A number is in a sequence with a record that has it.                    *)
LEMMA SeqsOf ==
  ASSUME NEW s
  PROVE  Seqs(s) = {rec.seq : rec \in Elems(s)}
  BY DEF Seqs, Elems

LEMMA TailHolds ==
  ASSUME NEW s \in Seq(Rec), s # <<>>
  PROVE  /\ Head(s) \in Rec /\ Tail(s) \in Seq(Rec)
         /\ Elems(s) = {Head(s)} \cup Elems(Tail(s))
         /\ Seqs(s) = {Head(s).seq} \cup Seqs(Tail(s))
<1>1. /\ Head(s) \in Rec /\ Tail(s) \in Seq(Rec)
      /\ Len(Tail(s)) = Len(s) - 1
      /\ \A i \in 1..Len(Tail(s)) : Tail(s)[i] = s[i + 1]
  BY HeadTailProperties
<1>2. /\ DOMAIN s = 1..Len(s) /\ Len(s) \in Nat /\ Len(s) # 0
      /\ DOMAIN Tail(s) = 1..(Len(s) - 1)
  BY <1>1, LenProperties, EmptySeq
<1>3. Head(s) = s[1]
  BY <1>2
<1> DEFINE h == Head(s)
           t == Tail(s)
           n == Len(s)
<1>4. /\ DOMAIN s = 1..n /\ n \in Nat /\ n # 0 /\ DOMAIN t = 1..(n - 1)
      /\ h = s[1] /\ \A i \in 1..(n - 1) : t[i] = s[i + 1]
  BY <1>1, <1>2, <1>3
<1> HIDE DEF h, t, n
<1>5. ASSUME NEW x \in Elems(s) PROVE x \in {h} \cup Elems(t)
  <2>1. PICK i \in 1..n : x = s[i]
    BY <1>4, <1>5 DEF Elems
  <2>2. CASE i = 1
    BY <1>4, <2>1, <2>2
  <2>3. CASE i # 1
    <3>1. i - 1 \in 1..(n - 1) /\ t[i - 1] = s[i]
      BY <1>4, <2>1, <2>3
    <3> QED
      BY <1>4, <2>1, <3>1 DEF Elems
  <2> QED
    BY <2>2, <2>3
<1>6. ASSUME NEW x \in {h} \cup Elems(t) PROVE x \in Elems(s)
  <2>1. CASE x = h
    BY <1>4, <2>1 DEF Elems
  <2>2. CASE x \in Elems(t)
    <3>1. PICK i \in 1..(n - 1) : x = t[i]
      BY <1>4, <2>2 DEF Elems
    <3>2. i + 1 \in 1..n /\ x = s[i + 1]
      BY <1>4, <3>1
    <3> QED
      BY <1>4, <3>2 DEF Elems
  <2> QED
    BY <1>6, <2>1, <2>2
<1>7. Elems(s) = {h} \cup Elems(t)
  BY <1>5, <1>6
<1>8. Seqs(s) = {h.seq} \cup Seqs(t)
  BY <1>7, SeqsOf
<1> QED
  BY <1>1, <1>7, <1>8 DEF h, t

(* What is left of a ring of consecutive records when it is cut.           *)
LEMMA TrimmedHolds ==
  ASSUME NEW s \in Seq(Rec)
  PROVE  /\ Trimmed(s) \in Seq(Rec)
         /\ Len(Trimmed(s)) = IF Len(s) > Capacity THEN Capacity ELSE Len(s)
         /\ \A i \in DOMAIN Trimmed(s) :
              /\ i + (Len(s) - Len(Trimmed(s))) \in DOMAIN s
              /\ Trimmed(s)[i] = s[i + (Len(s) - Len(Trimmed(s)))]
         /\ Elems(Trimmed(s)) \subseteq Elems(s)
<1> USE FeedAssumption
<1>0. Len(s) \in Nat /\ DOMAIN s = 1..Len(s)
  BY LenProperties
<1>1. CASE Len(s) > Capacity
  <2> DEFINE m == Len(s) - Capacity + 1
  <2>1. m \in Nat /\ m >= 1 /\ m <= Len(s)
    BY <1>0, <1>1
  <2>2. Trimmed(s) = SubSeq(s, m, Len(s))
    BY <1>1 DEF Trimmed, Last
  <2>3. /\ Trimmed(s) \in Seq(Rec)
        /\ Len(Trimmed(s)) = Capacity
        /\ \A i \in 1..Capacity : Trimmed(s)[i] = s[m + i - 1]
    BY <1>0, <2>1, <2>2, SubSeqProperties
  <2>4. DOMAIN Trimmed(s) = 1..Capacity
    BY <2>3, LenProperties
  <2>5. ASSUME NEW i \in DOMAIN Trimmed(s)
        PROVE  /\ i + (Len(s) - Len(Trimmed(s))) \in DOMAIN s
               /\ Trimmed(s)[i] = s[i + (Len(s) - Len(Trimmed(s)))]
    <3>1. i \in 1..Capacity
      BY <2>4
    <3>2. i + (Len(s) - Capacity) = m + i - 1 /\ i + (Len(s) - Capacity) \in 1..Len(s)
      BY <1>0, <1>1, <3>1
    <3> QED
      BY <1>0, <2>3, <3>1, <3>2
  <2> QED
    BY <1>1, <2>3, <2>5 DEF Elems
<1>2. CASE ~(Len(s) > Capacity)
  <2>1. Trimmed(s) = s
    BY <1>2 DEF Trimmed
  <2>2. ASSUME NEW i \in DOMAIN s
        PROVE  i + (Len(s) - Len(s)) = i
    BY <1>0
  <2> QED
    BY <1>2, <2>1, <2>2
<1> QED
  BY <1>1, <1>2

-----------------------------------------------------------------------------
(* Acceptance, of one record and of a list.                                *)

LEMMA AcceptKeeps ==
  ASSUME NEW page, GoodPage(page), NEW rec \in Rec
  PROVE  /\ GoodPage(Accept(page, rec))
         /\ Elems(Accept(page, rec).shown) \subseteq Elems(page.shown) \cup {rec}
         /\ Accept(page, rec).seen = page.seen \cup {rec.seq}
<1>1. CASE rec.seq \in page.seen
  BY <1>1 DEF Accept
<1>2. CASE rec.seq \notin page.seen
  <2> DEFINE s == page.shown
  <2>1. Accept(page, rec) = [seen |-> page.seen \cup {rec.seq},
                             shown |-> Append(s, rec)]
    BY <1>2 DEF Accept, Added
  <2>2. s \in Seq(Rec) /\ rec.seq \in Nat \ {0}
    BY DEF GoodPage, Rec
  <2>3. /\ Len(Append(s, rec)) = Len(s) + 1
        /\ \A i \in 1..Len(s) : Append(s, rec)[i] = s[i]
        /\ Append(s, rec)[Len(s) + 1] = rec
    BY <2>2, AppendProperties
  <2>4. /\ DOMAIN s = 1..Len(s) /\ Len(s) \in Nat
        /\ DOMAIN Append(s, rec) = 1..(Len(s) + 1)
    BY <2>2, <2>3, LenProperties
  <2>5. \A i \in DOMAIN s : s[i].seq # rec.seq
    BY <1>2 DEF GoodPage, Seqs
  <2>6. \A i, j \in DOMAIN Append(s, rec) :
          Append(s, rec)[i].seq = Append(s, rec)[j].seq => i = j
    <3> DEFINE t == Append(s, rec)
    <3>1. \A i, j \in 1..Len(s) : s[i].seq = s[j].seq => i = j
      BY <2>4 DEF GoodPage
    <3>2. \A i \in 1..Len(s) : t[i].seq = s[i].seq /\ t[i].seq # rec.seq
      BY <2>3, <2>4, <2>5
    <3>3. t[Len(s) + 1].seq = rec.seq /\ DOMAIN t = 1..(Len(s) + 1)
      BY <2>3, <2>4
    <3> HIDE DEF s, t
    <3>4. \A i, j \in DOMAIN t : t[i].seq = t[j].seq => i = j
      BY <2>4, <3>1, <3>2, <3>3
    <3> QED
      BY <3>4 DEF t
  <2> HIDE DEF s
  <2>7. /\ Append(s, rec) \in Seq(Rec)
        /\ Elems(Append(s, rec)) = Elems(s) \cup {rec}
        /\ Seqs(Append(s, rec)) = Seqs(s) \cup {rec.seq}
    BY <2>2, AppendHolds
  <2> QED
    BY <2>1, <2>2, <2>6, <2>7 DEF GoodPage, s
<1> QED
  BY <1>1, <1>2

(* The function that accepts a list record by record exists.               *)
AcceptsUpTo(f, n, page, recs) ==
  f = [i \in 0..n |-> IF i = 0 THEN page ELSE Accept(f[i - 1], recs[i])]

LEMMA AcceptedExists ==
  ASSUME NEW page, NEW recs, NEW n \in Nat
  PROVE  \E f : AcceptsUpTo(f, n, page, recs)
<1> DEFINE S == {m \in Nat : \E f : AcceptsUpTo(f, m, page, recs)}
<1>1. 0 \in S
  <2> DEFINE f == [i \in 0..0 |-> page]
  <2>1. f[0] = page /\ 0..0 = {0}
    OBVIOUS
  <2>2. f = [i \in 0..0 |-> IF i = 0 THEN page ELSE Accept(f[i - 1], recs[i])]
    BY <2>1
  <2> QED
    BY <2>2 DEF AcceptsUpTo
<1>2. ASSUME NEW m \in S PROVE m + 1 \in S
  <2>1. PICK f : AcceptsUpTo(f, m, page, recs)
    OBVIOUS
  <2> DEFINE g == [i \in 0..(m + 1) |->
                     IF i = m + 1 THEN Accept(f[m], recs[m + 1]) ELSE f[i]]
  <2>2. \A i \in 0..m : f[i] = IF i = 0 THEN page ELSE Accept(f[i - 1], recs[i])
    BY <2>1 DEF AcceptsUpTo
  <2>3. ASSUME NEW i \in 0..(m + 1)
        PROVE  g[i] = IF i = 0 THEN page ELSE Accept(g[i - 1], recs[i])
    <3>1. CASE i = m + 1
      <4>1. g[m + 1] = Accept(f[m], recs[m + 1]) /\ g[m] = f[m]
        OBVIOUS
      <4> QED
        BY <4>1, <3>1
    <3>2. CASE i # m + 1
      <4>1. i \in 0..m /\ g[i] = f[i]
        BY <3>2
      <4>2. i # 0 => i - 1 \in 0..(m + 1) /\ i - 1 # m + 1
        BY <3>2
      <4>3. i # 0 => g[i - 1] = f[i - 1]
        BY <4>2
      <4> HIDE DEF g
      <4> QED
        BY <2>2, <4>1, <4>3
    <3> QED
      BY <3>1, <3>2
  <2>4. g = [i \in 0..(m + 1) |-> g[i]]
    OBVIOUS
  <2> HIDE DEF g
  <2>5. AcceptsUpTo(g, m + 1, page, recs)
    BY <2>3, <2>4 DEF AcceptsUpTo
  <2> QED
    BY <2>5
<1>3. S \in SUBSET Nat
  OBVIOUS
<1> HIDE DEF S
<1>4. S = Nat
  BY <1>1, <1>2, <1>3, AllNumbers
<1> QED
  BY <1>4 DEF S

LEMMA AcceptedIs ==
  ASSUME NEW page, NEW recs \in Seq(Rec)
  PROVE  \A i \in 0..Len(recs) :
           Accepted(page, recs)[i] =
             IF i = 0 THEN page
             ELSE Accept(Accepted(page, recs)[i - 1], recs[i])
<1>0. Len(recs) \in Nat
  BY LenProperties
<1>1. PICK f : AcceptsUpTo(f, Len(recs), page, recs)
  BY <1>0, AcceptedExists
<1>2. AcceptsUpTo(Accepted(page, recs), Len(recs), page, recs)
  BY <1>1 DEF AcceptsUpTo, Accepted
<1> QED
  BY <1>2 DEF AcceptsUpTo

(* A page that accepts a list has the numbers of the list, shows each once *)
(* and nothing that is neither its own nor the list's.                     *)
LEMMA AcceptEachKeeps ==
  ASSUME NEW page, GoodPage(page), NEW recs \in Seq(Rec)
  PROVE  /\ GoodPage(AcceptEach(page, recs))
         /\ Elems(AcceptEach(page, recs).shown)
              \subseteq Elems(page.shown) \cup Elems(recs)
         /\ AcceptEach(page, recs).seen = page.seen \cup Seqs(recs)
<1> DEFINE f == Accepted(page, recs)
           Kept(n) == /\ GoodPage(f[n])
                      /\ Elems(f[n].shown) \subseteq Elems(page.shown) \cup Elems(recs)
                      /\ f[n].seen = page.seen \cup {recs[i].seq : i \in 1..n}
           S == {n \in Nat : n <= Len(recs) => Kept(n)}
<1>0. /\ Len(recs) \in Nat /\ DOMAIN recs = 1..Len(recs)
      /\ \A i \in 1..Len(recs) : recs[i] \in Rec
  BY LenProperties, ElementOfSeq
<1>1. \A i \in 0..Len(recs) :
        f[i] = IF i = 0 THEN page ELSE Accept(f[i - 1], recs[i])
  BY AcceptedIs
<1> HIDE DEF f
<1>2. 0 \in S
  <2>1. f[0] = page /\ 1..0 = {}
    BY <1>0, <1>1
  <2> QED
    BY <2>1
<1>3. ASSUME NEW n \in S PROVE n + 1 \in S
  <2> SUFFICES ASSUME n + 1 <= Len(recs) PROVE Kept(n + 1)
    OBVIOUS
  <2>1. n \in Nat /\ n + 1 \in 1..Len(recs) /\ Kept(n)
    <3>1. n \in Nat /\ (n <= Len(recs) => Kept(n))
      OBVIOUS
    <3> HIDE DEF Kept, S
    <3> QED
      BY <1>0, <3>1
  <2>2. f[n + 1] = Accept(f[n], recs[n + 1]) /\ recs[n + 1] \in Rec
    BY <1>0, <1>1, <2>1
  <2>3. /\ GoodPage(f[n + 1])
        /\ Elems(f[n + 1].shown) \subseteq Elems(f[n].shown) \cup {recs[n + 1]}
        /\ f[n + 1].seen = f[n].seen \cup {recs[n + 1].seq}
    <3>1. GoodPage(f[n])
      BY <2>1
    <3> HIDE DEF Kept, S
    <3>2. recs[n + 1] \in Rec
      BY <2>2
    <3>3. GoodPage(Accept(f[n], recs[n + 1]))
      BY <3>1, <3>2, AcceptKeeps
    <3>4. Elems(Accept(f[n], recs[n + 1]).shown) \subseteq Elems(f[n].shown) \cup {recs[n + 1]}
      BY <3>1, <3>2, AcceptKeeps
    <3>5. Accept(f[n], recs[n + 1]).seen = f[n].seen \cup {recs[n + 1].seq}
      BY <3>1, <3>2, AcceptKeeps
    <3> QED
      BY <2>2, <3>3, <3>4, <3>5
  <2>4. recs[n + 1] \in Elems(recs)
    <3>1. n + 1 \in DOMAIN recs
      BY <1>0, <2>1
    <3> QED
      BY <3>1 DEF Elems
  <2>5. 1..(n + 1) = 1..n \cup {n + 1}
    <3>1. n \in Nat
      BY <2>1
    <3> HIDE DEF Kept, S
    <3> QED
      BY <3>1
  <2> DEFINE upTo(m) == {recs[i].seq : i \in 1..m}
  <2>6. upTo(n + 1) = upTo(n) \cup {recs[n + 1].seq}
    BY <2>5
  <2>7. f[n + 1].seen = page.seen \cup upTo(n + 1)
    <3>1. f[n].seen = page.seen \cup upTo(n)
      BY <2>1
    <3> HIDE DEF upTo
    <3> QED
      BY <2>3, <2>6, <3>1
  <2>8. Elems(f[n + 1].shown) \subseteq Elems(page.shown) \cup Elems(recs)
    BY <2>1, <2>3, <2>4
  <2> QED
    BY <2>3, <2>7, <2>8
<1>4. S = Nat
  <2>1. S \in SUBSET Nat
    OBVIOUS
  <2> HIDE DEF S
  <2> QED
    BY <1>2, <1>3, <2>1, AllNumbers
<1>5. Kept(Len(recs))
  BY <1>0, <1>4
<1>6. f[Len(recs)] = AcceptEach(page, recs)
  BY DEF f, AcceptEach
<1> QED
  BY <1>0, <1>5, <1>6 DEF Seqs

-----------------------------------------------------------------------------
(* Where the records are.                                                  *)

LEMMA OnTheWayHas ==
  /\ Elems(records) \subseteq OnTheWay
  /\ \A k \in Conns : Elems(chan[k]) \subseteq OnTheWay /\ Elems(wire[k]) \subseteq OnTheWay
  BY DEF OnTheWay

LEMMA AnywhereHas ==
  /\ OnTheWay \subseteq Anywhere
  /\ \A b \in Browsers : Elems(shown[b]) \subseteq Anywhere
  BY DEF Anywhere

LEMMA OnTheWayIs ==
  ASSUME NEW S, Elems(records') \subseteq S,
         \A k \in Conns : Elems(chan'[k]) \subseteq S,
         \A k \in Conns : Elems(wire'[k]) \subseteq S
  PROVE  OnTheWay' \subseteq S
  BY DEF OnTheWay

LEMMA AnywhereIs ==
  ASSUME NEW S, OnTheWay' \subseteq S,
         \A b \in Browsers : Elems(shown'[b]) \subseteq S
  PROVE  Anywhere' \subseteq S
  BY DEF Anywhere

LEMMA NothingHolds == Elems(<<>>) = {} /\ Seqs(<<>>) = {} /\ <<>> \in Seq(Rec)
  BY DEF Elems, Seqs

(* A page that turns leaves the others alone.                              *)
LEMMA TurnKeeps ==
  ASSUME TypeOK, PagesGood, NEW b \in Browsers, NEW page, GoodPage(page),
         Turn(b, page)
  PROVE  /\ seen' \in [Browsers -> SUBSET (Nat \ {0})]
         /\ shown' \in [Browsers -> Seq(Rec)]
         /\ PagesGood'
         /\ seen'[b] = page.seen /\ shown'[b] = page.shown
         /\ \A c \in Browsers : c # b => seen'[c] = seen[c] /\ shown'[c] = shown[c]
<1>1. /\ seen' = [seen EXCEPT ![b] = page.seen]
      /\ shown' = [shown EXCEPT ![b] = page.shown]
      /\ seen \in [Browsers -> SUBSET (Nat \ {0})]
      /\ shown \in [Browsers -> Seq(Rec)]
  BY DEF Turn, TypeOK
<1>2. page.seen \in SUBSET (Nat \ {0}) /\ page.shown \in Seq(Rec)
  BY DEF GoodPage
<1>3. /\ seen'[b] = page.seen /\ shown'[b] = page.shown
      /\ \A c \in Browsers : c # b => seen'[c] = seen[c] /\ shown'[c] = shown[c]
  BY <1>1
<1>4. ASSUME NEW c \in Browsers PROVE GoodPage(PageOf(c)')
  <2>1. CASE c = b
    BY <1>3, <2>1 DEF GoodPage, PageOf
  <2>2. CASE c # b
    BY <1>3, <2>2 DEF GoodPage, PageOf, PagesGood
  <2> QED
    BY <2>1, <2>2
<1>5. PagesGood'
  BY <1>4 DEF PagesGood, GoodPage
<1> QED
  BY <1>1, <1>2, <1>3, <1>5

(* What the two accepting steps turn the page to.                          *)
LEMMA ReceivedPage ==
  ASSUME TypeOK, PagesGood, NEW b \in Browsers, conn[b] \in Conns,
         wire[conn[b]] # <<>>
  PROVE  LET page == Accept(PageOf(b), Head(wire[conn[b]])) IN
         /\ GoodPage(page)
         /\ Elems(page.shown) \subseteq Anywhere
         /\ page.seen = seen[b] \cup {Head(wire[conn[b]]).seq}
<1> DEFINE k == conn[b]
           rec == Head(wire[k])
           page == Accept(PageOf(b), rec)
<1>1. wire[k] \in Seq(Rec)
  BY DEF TypeOK
<1>2. rec \in Rec /\ rec \in Elems(wire[k])
  BY <1>1, TailHolds
<1>3. GoodPage(PageOf(b)) /\ PageOf(b).seen = seen[b] /\ PageOf(b).shown = shown[b]
  BY DEF PagesGood, PageOf
<1>4. Elems(shown[b]) \subseteq Anywhere /\ rec \in Anywhere
  BY <1>2, AnywhereHas, OnTheWayHas
<1> HIDE DEF rec
<1>5. GoodPage(page)
  BY <1>2, <1>3, AcceptKeeps
<1>6. Elems(page.shown) \subseteq Elems(PageOf(b).shown) \cup {rec}
  BY <1>2, <1>3, AcceptKeeps
<1>7. page.seen = PageOf(b).seen \cup {rec.seq}
  BY <1>2, <1>3, AcceptKeeps
<1> HIDE DEF page
<1>8. GoodPage(page) /\ Elems(page.shown) \subseteq Anywhere
      /\ page.seen = seen[b] \cup {rec.seq}
  BY <1>3, <1>4, <1>5, <1>6, <1>7
<1> QED
  BY <1>8 DEF page, rec

LEMMA LoadedPage ==
  ASSUME TypeOK, PagesGood, NEW b \in Browsers
  PROVE  /\ GoodPage(AcceptEach(PageOf(b), records))
         /\ Elems(AcceptEach(PageOf(b), records).shown) \subseteq Anywhere
<1>1. GoodPage(PageOf(b)) /\ PageOf(b).shown = shown[b]
  BY DEF PagesGood, PageOf
<1>2. records \in Seq(Rec)
  BY DEF TypeOK
<1>3. GoodPage(AcceptEach(PageOf(b), records))
  BY <1>1, <1>2, AcceptEachKeeps
<1>4. Elems(AcceptEach(PageOf(b), records).shown)
        \subseteq Elems(PageOf(b).shown) \cup Elems(records)
  BY <1>1, <1>2, AcceptEachKeeps
<1> QED
  BY <1>1, <1>3, <1>4, AnywhereHas, OnTheWayHas

(* A page that starts over has nothing.                                    *)
EmptyPage == [seen |-> {}, shown |-> <<>>]

LEMMA EmptyIsGood ==
  GoodPage(EmptyPage) /\ EmptyPage.seen = {} /\ EmptyPage.shown = <<>>
  BY NothingHolds DEF GoodPage, EmptyPage, Seqs

(* Only a record's arrival and a reload change a page.                     *)
LEMMA NextPages ==
  ASSUME TypeOK, PagesGood, Connected, [Next]_vars
  PROVE  /\ PagesGood'
         /\ seen' \in [Browsers -> SUBSET (Nat \ {0})]
         /\ shown' \in [Browsers -> Seq(Rec)]
         /\ \A b \in Browsers : Elems(shown'[b]) \subseteq Anywhere
<1> DEFINE Goal == /\ PagesGood'
                   /\ seen' \in [Browsers -> SUBSET (Nat \ {0})]
                   /\ shown' \in [Browsers -> Seq(Rec)]
                   /\ \A b \in Browsers : Elems(shown'[b]) \subseteq Anywhere
<1> USE DEF pageVars
<1>1. CASE UNCHANGED pageVars
  BY <1>1, AnywhereHas, OnTheWayHas DEF PagesGood, PageOf, TypeOK, GoodPage
<1>2. ASSUME NEW b \in Browsers, NEW page, GoodPage(page),
             Elems(page.shown) \subseteq Anywhere, Turn(b, page)
      PROVE  Goal
  <2>1. /\ seen' \in [Browsers -> SUBSET (Nat \ {0})]
        /\ shown' \in [Browsers -> Seq(Rec)]
        /\ PagesGood'
        /\ shown'[b] = page.shown
        /\ \A c \in Browsers : c # b => shown'[c] = shown[c]
    BY <1>2, TurnKeeps
  <2> QED
    BY <1>2, <2>1, AnywhereHas, OnTheWayHas
<1>3. ASSUME NEW b \in Browsers, LoadSnapshot(b) PROVE Goal
  BY <1>2, <1>3, LoadedPage DEF LoadSnapshot
<1>4. ASSUME NEW b \in Browsers, Receive(b) PROVE Goal
  <2>1. conn[b] \in Conns /\ wire[conn[b]] # <<>>
    BY <1>4 DEF Receive, Connected, TypeOK, Conns
  <2> DEFINE page == Accept(PageOf(b), Head(wire[conn[b]]))
  <2>2. GoodPage(page) /\ Elems(page.shown) \subseteq Anywhere
    BY <2>1, ReceivedPage
  <2>3. Turn(b, page)
    BY <1>4 DEF Receive
  <2> QED
    BY <1>2, <2>2, <2>3
<1>5. ASSUME NEW b \in Browsers, Reload(b) PROVE Goal
  <2>1. Turn(b, EmptyPage)
    BY <1>5, EmptyIsGood DEF Reload, Turn
  <2>2. Elems(EmptyPage.shown) \subseteq Anywhere
    BY EmptyIsGood, NothingHolds
  <2> QED
    BY <1>2, <2>1, <2>2, EmptyIsGood
<1>6. CASE Record \/ Restart \/ UNCHANGED vars
  BY <1>1, <1>6 DEF Record, Restart, vars
<1>7. ASSUME NEW k \in Conns, SendSnapshot(k) \/ Forward(k) \/ HandlerEnds(k)
      PROVE  Goal
  BY <1>1, <1>7 DEF SendSnapshot, Forward, HandlerEnds
<1>8. ASSUME NEW b \in Browsers,
             Subscribe(b) \/ SubscribeRefused(b) \/ LoadFails(b)
               \/ Disconnect(b) \/ Leave(b)
      PROVE  Goal
  BY <1>1, <1>8 DEF Subscribe, SubscribeRefused, LoadFails, Disconnect, Leave
<1> QED
  BY <1>3, <1>4, <1>5, <1>6, <1>7, <1>8 DEF Next

(* The handler that a page's connection has.                               *)
LEMMA OpenConn ==
  ASSUME TypeOK, Connected, NEW b \in Browsers
  PROVE  /\ conn[b] \in 0..MaxConns
         /\ client[b] = "open" <=> conn[b] # 0
         /\ conn[b] # 0 => conn[b] \in Conns /\ conn[b] \in Subscribers
                           /\ Attached(conn[b])
  BY FeedAssumption DEF TypeOK, Connected, Conns, Subscribers, Attached

LEMMA DetachType ==
  ASSUME TypeOK, NEW b \in Browsers, Detach(b)
  PROVE  /\ conn' \in [Browsers -> 0..MaxConns]
         /\ wire' \in [Conns -> Seq(Rec)]
         /\ conn'[b] = 0
         /\ \A c \in Browsers : c # b => conn'[c] = conn[c]
         /\ \A k \in Conns : k # conn[b] => wire'[k] = wire[k]
         /\ \A k \in Conns : wire'[k] = wire[k] \/ wire'[k] = <<>>
<1> USE FeedAssumption DEF TypeOK
<1>1. /\ conn' = [conn EXCEPT ![b] = 0]
      /\ wire' = [k \in Conns |-> IF k = conn[b] THEN <<>> ELSE wire[k]]
  BY DEF Detach
<1>2. wire' \in [Conns -> Seq(Rec)]
  BY <1>1, NothingHolds
<1> QED
  BY <1>1, <1>2

LEMMA NextType ==
  ASSUME TypeOK, PagesGood, Connected, [Next]_vars
  PROVE  TypeOK'
<1> USE FeedAssumption
    DEF TypeOK, logVars, serverVars, pageVars, SubStates, ClientStates
<1>0. /\ seen' \in [Browsers -> SUBSET (Nat \ {0})]
      /\ shown' \in [Browsers -> Seq(Rec)]
  BY NextPages
<1>1. CASE Record
  <2> DEFINE rec == Stamped(placed + 1)
  <2>1. rec \in Rec
    BY DEF Stamped, Rec
  <2>2. Append(records, rec) \in Seq(Rec)
    BY <2>1, AppendHolds
  <2>3. Trimmed(Append(records, rec)) \in Seq(Rec)
    BY <2>2, TrimmedHolds
  <2>4. \A k \in Conns : Offered(chan[k], rec) \in Seq(Rec)
    BY <2>1, AppendHolds DEF Offered
  <2> HIDE DEF rec
  <2>5. /\ records' = Trimmed(Append(records, rec))
        /\ chan' = [k \in Conns |->
                      IF k \in Subscribers THEN Offered(chan[k], rec) ELSE chan[k]]
        /\ lost' = [k \in Conns |->
                      lost[k] \/ (k \in Subscribers /\ Len(chan[k]) >= Buffer)]
        /\ placed' = placed + 1 /\ nextSeq' = nextSeq + 1
        /\ UNCHANGED <<sub, wire, opened, conn, client, reloads, boots>>
    BY <1>1 DEF Record, rec
  <2>6. chan' \in [Conns -> Seq(Rec)]
    BY <2>4, <2>5
  <2>7. lost' \in [Conns -> BOOLEAN]
    BY <2>5, Zenon
  <2>8. records' \in Seq(Rec)
    BY <2>3, <2>5 DEF rec
  <2> QED
    BY <1>0, <2>5, <2>6, <2>7, <2>8
<1>2. ASSUME NEW k \in Conns, SendSnapshot(k) PROVE TypeOK'
  BY <1>2, <1>0 DEF SendSnapshot
<1>3. ASSUME NEW k \in Conns, Forward(k) PROVE TypeOK'
  <2>1. chan[k] \in Seq(Rec) /\ wire[k] \in Seq(Rec) /\ chan[k] # <<>>
    BY <1>3 DEF Forward
  <2>2. Tail(chan[k]) \in Seq(Rec) /\ Head(chan[k]) \in Rec
    BY <2>1, TailHolds
  <2>3. Append(wire[k], Head(chan[k])) \in Seq(Rec)
    BY <2>1, <2>2, AppendHolds
  <2>4. /\ wire' = [wire EXCEPT ![k] = Append(wire[k], Head(chan[k]))]
        /\ chan' = [chan EXCEPT ![k] = Tail(chan[k])]
    BY <1>3 DEF Forward
  <2> QED
    BY <1>3, <1>0, <2>2, <2>3, <2>4 DEF Forward
<1>4. ASSUME NEW k \in Conns, HandlerEnds(k) PROVE TypeOK'
  BY <1>4, <1>0, NothingHolds DEF HandlerEnds
<1>5. ASSUME NEW b \in Browsers, Subscribe(b) PROVE TypeOK'
  <2>1. opened + 1 \in Conns
    BY <1>5 DEF Subscribe, Conns
  <2> QED
    BY <1>5, <1>0, <2>1 DEF Subscribe, Conns
<1>6. ASSUME NEW b \in Browsers,
             SubscribeRefused(b) \/ LoadFails(b) \/ LoadSnapshot(b)
      PROVE  TypeOK'
  BY <1>6, <1>0 DEF SubscribeRefused, LoadFails, LoadSnapshot
<1>7. ASSUME NEW b \in Browsers, Receive(b) PROVE TypeOK'
  <2>1. conn[b] \in Conns /\ wire[conn[b]] # <<>>
    BY <1>7, OpenConn DEF Receive
  <2>2. Tail(wire[conn[b]]) \in Seq(Rec)
    BY <2>1, TailHolds
  <2>3. wire' = [wire EXCEPT ![conn[b]] = Tail(wire[conn[b]])]
    BY <1>7 DEF Receive
  <2> QED
    BY <1>7, <1>0, <2>1, <2>2, <2>3 DEF Receive
<1>8. ASSUME NEW b \in Browsers, Disconnect(b) \/ Reload(b) \/ Leave(b)
      PROVE  TypeOK'
  <2>1. conn' \in [Browsers -> 0..MaxConns] /\ wire' \in [Conns -> Seq(Rec)]
    BY <1>8, DetachType DEF Disconnect, Reload, Leave
  <2>2. client' \in [Browsers -> ClientStates]
    BY <1>8 DEF Disconnect, Reload, Leave
  <2>4. reloads' \in Nat
    BY <1>8 DEF Disconnect, Reload, Leave
  <2>3. UNCHANGED <<logVars, serverVars, opened, boots>>
    BY <1>8 DEF Disconnect, Reload, Leave
  <2> QED
    BY <1>0, <2>1, <2>2, <2>3, <2>4
<1>9. CASE Restart
  BY <1>9, <1>0, NothingHolds DEF Restart
<1>10. CASE UNCHANGED vars
  BY <1>10, <1>0 DEF vars
<1> QED
  BY <1>1, <1>2, <1>3, <1>4, <1>5, <1>6, <1>7, <1>8, <1>9, <1>10 DEF Next

LEMMA NextConnected ==
  ASSUME TypeOK, Connected, [Next]_vars
  PROVE  Connected'
<1> USE FeedAssumption DEF TypeOK, Connected, logVars, serverVars, pageVars
<1>1. CASE UNCHANGED <<sub, opened, conn, client>>
  BY <1>1
<1>2. CASE Record \/ UNCHANGED vars
  BY <1>1, <1>2 DEF Record, vars
<1>3. ASSUME NEW k \in Conns, SendSnapshot(k) PROVE Connected'
  BY <1>3 DEF SendSnapshot
<1>4. ASSUME NEW k \in Conns, Forward(k) PROVE Connected'
  BY <1>1, <1>4 DEF Forward
<1>5. ASSUME NEW k \in Conns, HandlerEnds(k) PROVE Connected'
  <2>1. \A b \in Browsers : conn[b] # k
    BY <1>5 DEF HandlerEnds, Attached
  <2> QED
    BY <1>5, <2>1 DEF HandlerEnds
<1>6. ASSUME NEW b \in Browsers, Subscribe(b) PROVE Connected'
  <2>1. /\ opened + 1 \in Conns
        /\ opened' = opened + 1
        /\ conn' = [conn EXCEPT ![b] = opened + 1]
        /\ client' = [client EXCEPT ![b] = "open"]
        /\ sub' = [sub EXCEPT ![opened + 1] = "subscribed"]
    BY <1>6 DEF Subscribe, Conns
  <2>2. \A c \in Browsers : conn[c] \in Nat /\ conn[c] # opened + 1
    OBVIOUS
  <2>3. ASSUME NEW c \in Browsers
        PROVE  /\ conn'[c] <= opened'
               /\ (client'[c] = "open") <=> (conn'[c] # 0)
               /\ conn'[c] # 0 => sub'[conn'[c]] \in {"subscribed", "streaming"}
    <3>1. CASE c = b
      BY <2>1, <3>1
    <3>2. CASE c # b
      <4>1. conn'[c] = conn[c] /\ client'[c] = client[c]
        BY <2>1, <3>2
      <4>2. conn[c] # 0 => conn[c] \in Conns /\ sub'[conn[c]] = sub[conn[c]]
        BY <2>1, <2>2 DEF Conns
      <4> QED
        BY <2>1, <4>1, <4>2
    <3> QED
      BY <3>1, <3>2
  <2>4. ASSUME NEW c \in Browsers, NEW d \in Browsers,
               conn'[c] = conn'[d], conn'[c] # 0
        PROVE  c = d
    BY <2>1, <2>2, <2>4
  <2> QED
    BY <2>3, <2>4
<1>7. ASSUME NEW b \in Browsers,
             SubscribeRefused(b) \/ LoadFails(b) \/ LoadSnapshot(b)
      PROVE  Connected'
  BY <1>7 DEF SubscribeRefused, LoadFails, LoadSnapshot
<1>8. ASSUME NEW b \in Browsers, Receive(b) PROVE Connected'
  BY <1>1, <1>8 DEF Receive
<1>9. ASSUME NEW b \in Browsers, Disconnect(b) \/ Reload(b) \/ Leave(b)
      PROVE  Connected'
  <2>1. /\ conn'[b] = 0 /\ \A c \in Browsers : c # b => conn'[c] = conn[c]
    BY <1>9, DetachType DEF Disconnect, Reload, Leave
  <2>2. /\ client'[b] # "open"
        /\ \A c \in Browsers : c # b => client'[c] = client[c]
        /\ UNCHANGED <<sub, opened>>
    BY <1>9 DEF Disconnect, Reload, Leave
  <2>3. ASSUME NEW c \in Browsers
        PROVE  /\ conn'[c] <= opened'
               /\ (client'[c] = "open") <=> (conn'[c] # 0)
               /\ conn'[c] # 0 => sub'[conn'[c]] \in {"subscribed", "streaming"}
    <3>1. CASE c = b
      BY <2>1, <2>2, <3>1
    <3>2. CASE c # b
      BY <2>1, <2>2, <3>2
    <3> QED
      BY <3>1, <3>2
  <2>4. ASSUME NEW c \in Browsers, NEW d \in Browsers,
               conn'[c] = conn'[d], conn'[c] # 0
        PROVE  c = d
    BY <2>1, <2>4
  <2> QED
    BY <2>3, <2>4
<1>10. CASE Restart
  BY <1>10 DEF Restart
<1> QED
  BY <1>2, <1>3, <1>4, <1>5, <1>6, <1>7, <1>8, <1>9, <1>10 DEF Next

(* The ring after a record: one more, or the same with the oldest gone.    *)
LEMMA NextRing ==
  ASSUME TypeOK, RingIsRecent, [Next]_vars
  PROVE  RingIsRecent'
<1> USE FeedAssumption DEF logVars
<1>1. CASE UNCHANGED <<records, nextSeq>>
  BY <1>1 DEF RingIsRecent
<1>2. CASE Record
  <2> DEFINE rec == Stamped(placed + 1)
             s == Append(records, rec)
             n == Len(records)
  <2>1. /\ records \in Seq(Rec) /\ rec \in Rec /\ rec.seq = nextSeq
        /\ nextSeq \in Nat \ {0}
    BY DEF TypeOK, Stamped, Rec
  <2>2. /\ s \in Seq(Rec) /\ Len(s) = n + 1 /\ s[n + 1] = rec
        /\ \A i \in 1..n : s[i] = records[i]
    BY <2>1, AppendProperties
  <2>3. /\ n \in Nat /\ DOMAIN records = 1..n /\ DOMAIN s = 1..(n + 1)
    BY <2>1, <2>2, LenProperties
  <2>4. /\ n = IF nextSeq - 1 > Capacity THEN Capacity ELSE nextSeq - 1
        /\ \A i \in 1..n : records[i].seq = nextSeq - 1 - n + i
    BY <2>3 DEF RingIsRecent
  <2>5. records' = Trimmed(s) /\ nextSeq' = nextSeq + 1
    BY <1>2 DEF Record
  <2>6. /\ Trimmed(s) \in Seq(Rec)
        /\ Len(Trimmed(s)) = IF Len(s) > Capacity THEN Capacity ELSE Len(s)
        /\ \A i \in DOMAIN Trimmed(s) :
             /\ i + (Len(s) - Len(Trimmed(s))) \in DOMAIN s
             /\ Trimmed(s)[i] = s[i + (Len(s) - Len(Trimmed(s)))]
    BY <2>2, TrimmedHolds
  <2> HIDE DEF s, n, rec
  <2>7. \A i \in 1..(n + 1) : s[i].seq = nextSeq - 1 - n + i
    <3>1. ASSUME NEW i \in 1..(n + 1) PROVE s[i].seq = nextSeq - 1 - n + i
      <4>1. CASE i = n + 1
        BY <2>1, <2>2, <2>3, <4>1
      <4>2. CASE i # n + 1
        <5>1. i \in 1..n /\ s[i] = records[i]
          BY <2>2, <2>3, <4>2
        <5> QED
          BY <2>4, <5>1
      <4> QED
        BY <4>1, <4>2
    <3> QED
      BY <3>1
  <2> DEFINE m == Len(Trimmed(s))
  <2>8. /\ m \in Nat /\ m = IF n + 1 > Capacity THEN Capacity ELSE n + 1
        /\ DOMAIN Trimmed(s) = 1..m
    BY <2>2, <2>3, <2>6, LenProperties
  <2>9. m = IF nextSeq > Capacity THEN Capacity ELSE nextSeq
    BY <2>1, <2>3, <2>4, <2>8
  <2>10. ASSUME NEW i \in 1..m
         PROVE  Trimmed(s)[i].seq = nextSeq - m + i
    <3>1. i + (n + 1 - m) \in 1..(n + 1)
      BY <2>3, <2>8
    <3>2. Trimmed(s)[i] = s[i + (n + 1 - m)]
      <4>1. i \in DOMAIN Trimmed(s) /\ Len(s) = n + 1 /\ Len(Trimmed(s)) = m
        BY <2>2, <2>8
      <4>2. Trimmed(s)[i] = s[i + (Len(s) - Len(Trimmed(s)))]
        BY <2>6, <4>1
      <4>3. i + (Len(s) - Len(Trimmed(s))) = i + (n + 1 - m)
        BY <2>3, <2>8, <4>1
      <4> HIDE DEF m
      <4> QED
        BY <4>2, <4>3, Zenon
    <3>3. s[i + (n + 1 - m)].seq = nextSeq - 1 - n + (i + (n + 1 - m))
      BY <2>7, <3>1
    <3> QED
      BY <2>1, <2>3, <2>8, <3>2, <3>3
  <2>11. nextSeq' - 1 = nextSeq
    BY <2>1, <2>5
  <2> QED
    BY <2>5, <2>8, <2>9, <2>10, <2>11 DEF RingIsRecent
<1>3. CASE Restart
  <2>1. records' = <<>> /\ nextSeq' = 1 /\ Len(<<>>) = 0 /\ DOMAIN <<>> = {}
    BY <1>3 DEF Restart
  <2> QED
    BY <2>1 DEF RingIsRecent
<1>4. ASSUME NEW k \in Conns, SendSnapshot(k) \/ Forward(k) \/ HandlerEnds(k)
      PROVE  RingIsRecent'
  BY <1>1, <1>4 DEF SendSnapshot, Forward, HandlerEnds
<1>5. ASSUME NEW b \in Browsers,
             Subscribe(b) \/ SubscribeRefused(b) \/ LoadSnapshot(b) \/ LoadFails(b)
      PROVE  RingIsRecent'
  BY <1>1, <1>5 DEF Subscribe, SubscribeRefused, LoadSnapshot, LoadFails
<1>6. ASSUME NEW b \in Browsers,
             Receive(b) \/ Disconnect(b) \/ Reload(b) \/ Leave(b)
      PROVE  RingIsRecent'
  BY <1>1, <1>6 DEF Receive, Disconnect, Reload, Leave
<1>7. CASE UNCHANGED vars
  BY <1>1, <1>7 DEF vars
<1> QED
  BY <1>2, <1>3, <1>4, <1>5, <1>6, <1>7 DEF Next

(* A step other than a new record's sends no record that was not there.    *)
LEMMA OthersSend ==
  ASSUME TypeOK, PagesGood, Connected, [Next]_vars, ~Record
  PROVE  OnTheWay' \subseteq OnTheWay /\ placed' = placed
<1> USE DEF TypeOK, logVars, serverVars, pageVars
<1>1. ASSUME Elems(records') \subseteq OnTheWay,
             \A k \in Conns : Elems(chan'[k]) \subseteq OnTheWay,
             \A k \in Conns : Elems(wire'[k]) \subseteq OnTheWay
      PROVE  OnTheWay' \subseteq OnTheWay
  BY <1>1, OnTheWayIs
<1>2. CASE UNCHANGED <<records, chan, wire, placed>>
  BY <1>1, <1>2, OnTheWayHas
<1>3. ASSUME NEW k \in Conns, SendSnapshot(k)
      PROVE  OnTheWay' \subseteq OnTheWay /\ placed' = placed
  <2>1. \A l \in Conns : wire'[l] \in {wire[l], records}
    BY <1>3 DEF SendSnapshot
  <2>2. \A l \in Conns : Elems(wire'[l]) \subseteq OnTheWay
    BY <2>1, OnTheWayHas
  <2> QED
    BY <1>1, <1>3, <2>2, OnTheWayHas DEF SendSnapshot
<1>4. ASSUME NEW k \in Conns, Forward(k)
      PROVE  OnTheWay' \subseteq OnTheWay /\ placed' = placed
  <2>1. /\ chan[k] \in Seq(Rec) /\ wire[k] \in Seq(Rec) /\ chan[k] # <<>>
        /\ wire' = [wire EXCEPT ![k] = Append(wire[k], Head(chan[k]))]
        /\ chan' = [chan EXCEPT ![k] = Tail(chan[k])]
        /\ UNCHANGED logVars
    BY <1>4 DEF Forward
  <2>2. /\ Head(chan[k]) \in Rec
        /\ Elems(chan[k]) = {Head(chan[k])} \cup Elems(Tail(chan[k]))
    BY <2>1, TailHolds
  <2>3. Elems(Append(wire[k], Head(chan[k]))) = Elems(wire[k]) \cup {Head(chan[k])}
    BY <2>1, <2>2, AppendHolds
  <2>4. /\ wire'[k] = Append(wire[k], Head(chan[k])) /\ chan'[k] = Tail(chan[k])
        /\ \A l \in Conns : l # k => wire'[l] = wire[l] /\ chan'[l] = chan[l]
    BY <2>1
  <2>5. \A l \in Conns : Elems(wire'[l]) \subseteq OnTheWay /\ Elems(chan'[l]) \subseteq OnTheWay
    BY <2>2, <2>3, <2>4, OnTheWayHas
  <2> QED
    BY <1>1, <2>1, <2>5, OnTheWayHas
<1>5. ASSUME NEW k \in Conns, HandlerEnds(k)
      PROVE  OnTheWay' \subseteq OnTheWay /\ placed' = placed
  <2>1. \A l \in Conns : chan'[l] \in {chan[l], <<>>}
    BY <1>5 DEF HandlerEnds
  <2>2. \A l \in Conns : Elems(chan'[l]) \subseteq OnTheWay
    BY <2>1, OnTheWayHas, NothingHolds
  <2> QED
    BY <1>1, <1>5, <2>2, OnTheWayHas DEF HandlerEnds
<1>6. ASSUME NEW b \in Browsers,
             Subscribe(b) \/ SubscribeRefused(b) \/ LoadSnapshot(b) \/ LoadFails(b)
      PROVE  OnTheWay' \subseteq OnTheWay /\ placed' = placed
  BY <1>2, <1>6 DEF Subscribe, SubscribeRefused, LoadSnapshot, LoadFails
<1>7. ASSUME NEW b \in Browsers, Receive(b)
      PROVE  OnTheWay' \subseteq OnTheWay /\ placed' = placed
  <2>1. conn[b] \in Conns /\ wire[conn[b]] # <<>>
    BY <1>7, OpenConn DEF Receive
  <2>2. Elems(Tail(wire[conn[b]])) \subseteq Elems(wire[conn[b]])
    BY <2>1, TailHolds
  <2>3. \A l \in Conns : wire'[l] = IF l = conn[b] THEN Tail(wire[l]) ELSE wire[l]
    BY <1>7, <2>1 DEF Receive
  <2>4. \A l \in Conns : Elems(wire'[l]) \subseteq OnTheWay
    BY <2>2, <2>3, OnTheWayHas
  <2> QED
    BY <1>1, <1>7, <2>4, OnTheWayHas DEF Receive
<1>8. ASSUME NEW b \in Browsers, Disconnect(b) \/ Reload(b) \/ Leave(b)
      PROVE  OnTheWay' \subseteq OnTheWay /\ placed' = placed
  <2>1. \A k \in Conns : wire'[k] = wire[k] \/ wire'[k] = <<>>
    BY <1>8, DetachType DEF Disconnect, Reload, Leave
  <2>2. UNCHANGED <<records, chan, placed>>
    BY <1>8 DEF Disconnect, Reload, Leave
  <2>3. \A k \in Conns : Elems(wire'[k]) \subseteq OnTheWay
    BY <2>1, OnTheWayHas, NothingHolds
  <2> QED
    BY <1>1, <2>2, <2>3, OnTheWayHas
<1>9. CASE Restart
  BY <1>1, <1>9, NothingHolds DEF Restart
<1>10. CASE UNCHANGED vars
  BY <1>2, <1>10 DEF vars
<1> QED
  BY <1>3, <1>4, <1>5, <1>6, <1>7, <1>8, <1>9, <1>10 DEF Next

LEMMA OthersMove ==
  ASSUME TypeOK, PagesGood, Connected, [Next]_vars, ~Record
  PROVE  Anywhere' \subseteq Anywhere
<1>1. \A b \in Browsers : Elems(shown'[b]) \subseteq Anywhere
  BY NextPages
<1> QED
  BY <1>1, OthersSend, AnywhereHas, AnywhereIs

(* A new record brings itself.                                             *)
LEMMA RecordAdds ==
  ASSUME TypeOK, PagesGood, Connected, Record
  PROVE  /\ Stamped(placed + 1) \in Rec
         /\ OnTheWay' \subseteq OnTheWay \cup {Stamped(placed + 1)}
         /\ Anywhere' \subseteq Anywhere \cup {Stamped(placed + 1)}
<1> DEFINE rec == Stamped(placed + 1)
<1>1. rec \in Rec
  BY DEF Stamped, Rec, TypeOK
<1>2. Elems(records') \subseteq OnTheWay \cup {rec}
  <2>1. records \in Seq(Rec)
    BY DEF TypeOK
  <2>2. /\ Append(records, rec) \in Seq(Rec)
        /\ Elems(Append(records, rec)) = Elems(records) \cup {rec}
    BY <1>1, <2>1, AppendHolds
  <2>3. Elems(Trimmed(Append(records, rec))) \subseteq Elems(Append(records, rec))
    BY <2>2, TrimmedHolds
  <2> HIDE DEF rec
  <2>4. records' = Trimmed(Append(records, rec))
    BY DEF Record, rec
  <2> QED
    BY <2>2, <2>3, <2>4, OnTheWayHas
<1>3. \A k \in Conns : Elems(chan'[k]) \subseteq OnTheWay \cup {rec}
  <2>1. ASSUME NEW k \in Conns PROVE Elems(Offered(chan[k], rec)) \subseteq OnTheWay \cup {rec}
    <3>1. chan[k] \in Seq(Rec)
      BY DEF TypeOK
    <3>2. Elems(Append(chan[k], rec)) = Elems(chan[k]) \cup {rec}
      BY <1>1, <3>1, AppendHolds
    <3> HIDE DEF rec
    <3> QED
      BY <3>2, OnTheWayHas DEF Offered
  <2> HIDE DEF rec
  <2>2. chan' = [k \in Conns |->
                   IF k \in Subscribers THEN Offered(chan[k], rec) ELSE chan[k]]
    BY DEF Record, rec
  <2> QED
    BY <2>1, <2>2, OnTheWayHas
<1>4. wire' = wire /\ shown' = shown
  BY DEF Record, pageVars
<1> HIDE DEF rec
<1>5. OnTheWay' \subseteq OnTheWay \cup {rec}
  BY <1>2, <1>3, <1>4, OnTheWayHas, OnTheWayIs
<1>6. Anywhere' \subseteq Anywhere \cup {rec}
  BY <1>4, <1>5, AnywhereHas, AnywhereIs
<1> QED
  BY <1>1, <1>5, <1>6 DEF rec

LEMMA AnywhereTyped ==
  ASSUME TypeOK
  PROVE  \A rec \in Anywhere : rec \in Rec /\ rec.order \in Nat /\ rec.seq \in Nat
<1>1. /\ records \in Seq(Rec) /\ \A k \in Conns : chan[k] \in Seq(Rec)
      /\ \A k \in Conns : wire[k] \in Seq(Rec)
      /\ \A b \in Browsers : shown[b] \in Seq(Rec)
  BY DEF TypeOK
<1>2. ASSUME NEW s \in Seq(Rec) PROVE Elems(s) \subseteq Rec
  BY LenProperties, ElementOfSeq DEF Elems
<1>3. Anywhere \subseteq Rec
  BY <1>1, <1>2 DEF Anywhere, OnTheWay
<1> QED
  BY <1>3 DEF Rec

LEMMA NextStampedOnce ==
  ASSUME TypeOK, PagesGood, Connected, StampedOnce, [Next]_vars
  PROVE  StampedOnce'
<1>1. CASE Record
  <2> DEFINE rec == Stamped(placed + 1)
  <2>1. /\ Anywhere' \subseteq Anywhere \cup {rec}
        /\ rec.order = placed + 1 /\ placed' = placed + 1 /\ placed \in Nat
    BY <1>1, RecordAdds DEF Stamped, Record, TypeOK
  <2> HIDE DEF rec
  <2>2. \A r \in Anywhere : r.order <= placed /\ r.order \in Nat
    BY AnywhereTyped DEF StampedOnce
  <2>3. \A r \in Anywhere : r.order # rec.order
    BY <2>1, <2>2
  <2>4. \A r \in Anywhere' : r.order <= placed'
    BY <2>1, <2>2
  <2>5. ASSUME NEW r \in Anywhere', NEW q \in Anywhere', r.order = q.order
        PROVE  r = q
    BY <2>1, <2>3, <2>5 DEF StampedOnce
  <2> QED
    BY <2>4, <2>5 DEF StampedOnce
<1>2. CASE ~Record
  BY <1>2, OthersMove, OthersSend DEF StampedOnce
<1> QED
  BY <1>1, <1>2

(* Only a new record and a new process move the numbers.                   *)
LEMMA OthersCount ==
  ASSUME [Next]_vars, ~Record, ~Restart
  PROVE  nextSeq' = nextSeq /\ boots' = boots
<1> USE DEF logVars
<1>1. ASSUME NEW k \in Conns, SendSnapshot(k) \/ Forward(k) \/ HandlerEnds(k)
      PROVE  nextSeq' = nextSeq /\ boots' = boots
  BY <1>1 DEF SendSnapshot, Forward, HandlerEnds
<1>2. ASSUME NEW b \in Browsers,
             Subscribe(b) \/ SubscribeRefused(b) \/ LoadSnapshot(b)
               \/ LoadFails(b)
      PROVE  nextSeq' = nextSeq /\ boots' = boots
  BY <1>2 DEF Subscribe, SubscribeRefused, LoadSnapshot, LoadFails
<1>3. ASSUME NEW b \in Browsers,
             Receive(b) \/ Disconnect(b) \/ Reload(b) \/ Leave(b)
      PROVE  nextSeq' = nextSeq /\ boots' = boots
  BY <1>3 DEF Receive, Disconnect, Reload, Leave
<1>4. CASE UNCHANGED vars
  BY <1>4 DEF vars
<1> QED
  BY <1>1, <1>2, <1>3, <1>4 DEF Next

(* The numbers count the orders until the process is replaced.             *)
LEMMA NextUnbroken ==
  ASSUME TypeOK, PagesGood, Connected, Unbroken, [Next]_vars
  PROVE  Unbroken'
<1> USE FeedAssumption DEF Unbroken
<1>1. CASE Record
  <2>1. /\ Anywhere' \subseteq Anywhere \cup {Stamped(placed + 1)}
        /\ Stamped(placed + 1).order = placed + 1
        /\ Stamped(placed + 1).seq = nextSeq
        /\ placed' = placed + 1 /\ nextSeq' = nextSeq + 1 /\ boots' = boots
        /\ placed \in Nat /\ nextSeq \in Nat
    BY <1>1, RecordAdds DEF Stamped, Record, TypeOK
  <2> QED
    BY <2>1
<1>2. CASE Restart
  <2>1. boots' # 0 /\ boots' <= MaxBoots
    BY <1>2 DEF Restart, TypeOK
  <2> QED
    BY <2>1
<1>3. CASE ~Record /\ ~Restart
  <2>1. Anywhere' \subseteq Anywhere /\ placed' = placed
    BY <1>3, OthersMove, OthersSend
  <2>2. nextSeq' = nextSeq /\ boots' = boots
    BY <1>3, OthersCount
  <2> QED
    BY <2>1, <2>2
<1> QED
  BY <1>1, <1>2, <1>3

(* Of this process, a record's number and its order stay the same distance *)
(* apart; a new process begins with nothing on its way.                    *)
LEMMA NextNumbered ==
  ASSUME TypeOK, PagesGood, Connected, StampedOnce, Numbered, [Next]_vars
  PROVE  Numbered'
<1>1. CASE Record
  <2> DEFINE rec == Stamped(placed + 1)
  <2>1. /\ Anywhere' \subseteq Anywhere \cup {rec}
        /\ OnTheWay' \subseteq OnTheWay \cup {rec}
        /\ rec.order = placed + 1 /\ rec.seq = nextSeq
        /\ placed' = placed + 1 /\ nextSeq' = nextSeq + 1
        /\ placed \in Nat /\ nextSeq \in Nat
    BY <1>1, RecordAdds DEF Stamped, Record, TypeOK
  <2> HIDE DEF rec
  <2>2. /\ placed' - (nextSeq' - 1) = placed - (nextSeq - 1)
        /\ placed + 1 = placed - (nextSeq - 1) + nextSeq
        /\ nextSeq \in Nat \ {0} => placed + 1 > placed - (nextSeq - 1)
    BY <2>1
  <2>3. Earlier' = Earlier /\ rec.order = Earlier + rec.seq /\ rec.order > Earlier
    BY <2>1, <2>2 DEF Earlier, TypeOK
  <2> QED
    BY <2>1, <2>3 DEF Numbered, OfThisProcess
<1>2. CASE Restart
  <2>1. placed' = placed /\ nextSeq' = 1 /\ placed \in Nat
    BY <1>2 DEF Restart, TypeOK
  <2>2. Earlier' = placed'
    BY <2>1 DEF Earlier
  <2>3. OnTheWay' = {}
    BY <1>2, NothingHolds DEF Restart, OnTheWay
  <2>4. ~Record
    BY <2>1 DEF Record
  <2>5. StampedOnce'
    BY NextStampedOnce
  <2>6. \A rec \in Anywhere' : rec.order <= placed'
    BY <2>5 DEF StampedOnce
  <2>7. \A rec \in Anywhere' : rec.order \in Nat
    BY <2>4, OthersMove, AnywhereTyped
  <2>8. \A rec \in Anywhere' : ~(rec.order > Earlier')
    BY <2>1, <2>2, <2>6, <2>7
  <2> QED
    BY <2>1, <2>2, <2>3, <2>8 DEF Numbered, OfThisProcess
<1>3. CASE ~Record /\ ~Restart
  <2>1. /\ Anywhere' \subseteq Anywhere /\ OnTheWay' \subseteq OnTheWay
        /\ placed' = placed /\ nextSeq' = nextSeq
    BY <1>3, OthersMove, OthersSend, OthersCount
  <2>2. Earlier' = Earlier
    BY <2>1 DEF Earlier
  <2> QED
    BY <2>1, <2>2 DEF Numbered, OfThisProcess
<1> QED
  BY <1>1, <1>2, <1>3

-----------------------------------------------------------------------------
(* What a watcher has of the recent records, and keeps having.             *)

Has(b, k) == seen[b] \cup Seqs(wire[k]) \cup Seqs(chan[k])

LEMMA RingHasRecent ==
  ASSUME TypeOK, RingIsRecent
  PROVE  RecentNumbers \subseteq Seqs(records)
<1> DEFINE n == Len(records)
<1>1. /\ n \in Nat /\ DOMAIN records = 1..n /\ nextSeq \in Nat \ {0}
      /\ Capacity \in Nat
  BY LenProperties, FeedAssumption DEF TypeOK
<1>2. /\ n = IF nextSeq - 1 > Capacity THEN Capacity ELSE nextSeq - 1
      /\ \A i \in 1..n : records[i].seq = nextSeq - 1 - n + i
  BY <1>1 DEF RingIsRecent
<1> HIDE DEF n
<1> SUFFICES ASSUME NEW m \in RecentNumbers PROVE m \in Seqs(records)
  OBVIOUS
<1>3. m \in 1..(nextSeq - 1) /\ m >= nextSeq - Capacity
  BY DEF RecentNumbers
<1> DEFINE i == m - (nextSeq - 1 - n)
<1>4. i \in 1..n /\ nextSeq - 1 - n + i = m
  <2>1. nextSeq - n <= m /\ m <= nextSeq - 1
    <3>1. CASE nextSeq - 1 > Capacity
      BY <1>1, <1>2, <1>3, <3>1
    <3>2. CASE ~(nextSeq - 1 > Capacity)
      BY <1>1, <1>2, <1>3, <3>2
    <3> QED
      BY <3>1, <3>2
  <2>2. m \in Int
    BY <1>1, <1>3
  <2> QED
    BY <1>1, <2>1, <2>2
<1>5. records[i].seq = m
  BY <1>2, <1>4
<1> QED
  BY <1>1, <1>4, <1>5 DEF Seqs

(* No step makes a hole.                                                   *)
LEMMA NextNumbersHere ==
  ASSUME TypeOK, PagesGood, Connected, RingIsRecent, NumbersHere, [Next]_vars
  PROVE  NumbersHere'
<1> SUFFICES ASSUME NEW b \in Browsers, client'[b] = "open",
                    sub'[conn'[b]] # "subscribed", ~lost'[conn'[b]]
             PROVE  RecentNumbers' \subseteq Has(b, conn[b])'
  BY DEF NumbersHere, Has
<1> DEFINE k == conn[b]
<1> USE FeedAssumption DEF TypeOK, logVars, serverVars, pageVars
<1>0. ASSUME NEW c \in Browsers, conn[c] # 0, c # b PROVE conn[c] # k
  BY <1>0 DEF Connected
<1>1. ASSUME k # 0, sub[k] # "subscribed", ~lost[k]
      PROVE  RecentNumbers \subseteq Has(b, k) /\ k \in Conns /\ k \in Subscribers
  BY <1>1, OpenConn DEF NumbersHere, Has
<1>2. CASE UNCHANGED <<nextSeq, seen, wire, chan, sub, lost, conn, client>>
  <2>1. k # 0 /\ sub[k] # "subscribed" /\ ~lost[k]
    BY <1>2, OpenConn
  <2> QED
    BY <1>1, <1>2, <2>1 DEF RecentNumbers, Has
<1>3. CASE Record
  <2> DEFINE rec == Stamped(placed + 1)
  <2>1. /\ rec \in Rec /\ rec.seq = nextSeq
    BY DEF Stamped, Rec
  <2>2. /\ UNCHANGED <<sub, wire, seen, conn, client>> /\ nextSeq' = nextSeq + 1
        /\ chan' = [l \in Conns |->
                      IF l \in Subscribers THEN Offered(chan[l], rec) ELSE chan[l]]
        /\ lost' = [l \in Conns |->
                      lost[l] \/ (l \in Subscribers /\ Len(chan[l]) >= Buffer)]
    BY <1>3 DEF Record
  <2> HIDE DEF rec
  <2>3. k # 0 /\ k \in Conns /\ k \in Subscribers
    BY <2>2, OpenConn
  <2>4. ~lost[k] /\ ~(Len(chan[k]) >= Buffer)
    <3>1. lost'[k] = (lost[k] \/ (k \in Subscribers /\ Len(chan[k]) >= Buffer))
      BY <2>2, <2>3
    <3>2. ~lost'[k]
      BY <2>2
    <3> QED
      BY <2>3, <3>1, <3>2, Zenon
  <2>5. chan[k] \in Seq(Rec) /\ Len(chan[k]) \in Nat
    BY <2>3, LenProperties
  <2>6. chan'[k] = Append(chan[k], rec)
    BY <2>2, <2>3, <2>4, <2>5 DEF Offered
  <2>7. Seqs(chan'[k]) = Seqs(chan[k]) \cup {nextSeq}
    BY <2>1, <2>5, <2>6, AppendHolds
  <2>8. RecentNumbers \subseteq Has(b, k)
    BY <1>1, <2>2, <2>3, <2>4
  <2>9. RecentNumbers' \subseteq RecentNumbers \cup {nextSeq}
    BY <2>2 DEF RecentNumbers
  <2> QED
    BY <2>2, <2>7, <2>8, <2>9 DEF Has
<1>4. ASSUME NEW l \in Conns, SendSnapshot(l)
      PROVE  RecentNumbers' \subseteq Has(b, conn[b])'
  <2>1. /\ sub' = [sub EXCEPT ![l] = "streaming"]
        /\ wire' = IF Attached(l) THEN [wire EXCEPT ![l] = records] ELSE wire
        /\ UNCHANGED <<nextSeq, chan, lost, seen, conn, client>>
    BY <1>4 DEF SendSnapshot
  <2>2. k # 0 /\ k \in Conns /\ Attached(k)
    BY <2>1, OpenConn
  <2>3. RecentNumbers' = RecentNumbers
    BY <2>1 DEF RecentNumbers
  <2>4. CASE l = k
    <3>1. wire'[k] = records
      BY <2>1, <2>2, <2>4
    <3> QED
      BY <2>1, <2>3, <3>1, RingHasRecent DEF Has
  <2>5. CASE l # k
    <3>1. sub'[k] = sub[k] /\ wire'[k] = wire[k]
      BY <2>1, <2>2, <2>5
    <3> QED
      BY <1>1, <2>1, <2>2, <2>3, <3>1 DEF Has
  <2> QED
    BY <2>4, <2>5
<1>5. ASSUME NEW l \in Conns, Forward(l)
      PROVE  RecentNumbers' \subseteq Has(b, conn[b])'
  <2>1. /\ chan[l] \in Seq(Rec) /\ wire[l] \in Seq(Rec) /\ chan[l] # <<>>
        /\ wire' = [wire EXCEPT ![l] = Append(wire[l], Head(chan[l]))]
        /\ chan' = [chan EXCEPT ![l] = Tail(chan[l])]
        /\ UNCHANGED <<nextSeq, sub, lost, seen, conn, client>>
    BY <1>5 DEF Forward
  <2>2. k # 0 /\ k \in Conns
    BY <2>1, OpenConn
  <2>3. RecentNumbers' = RecentNumbers /\ RecentNumbers \subseteq Has(b, k)
    BY <1>1, <2>1, <2>2 DEF RecentNumbers
  <2>4. CASE l = k
    <3>1. /\ Head(chan[k]) \in Rec
          /\ Seqs(chan[k]) = {Head(chan[k]).seq} \cup Seqs(Tail(chan[k]))
      BY <2>1, <2>4, TailHolds
    <3>2. Seqs(Append(wire[k], Head(chan[k]))) = Seqs(wire[k]) \cup {Head(chan[k]).seq}
      BY <2>1, <2>4, <3>1, AppendHolds
    <3>3. chan'[k] = Tail(chan[k]) /\ wire'[k] = Append(wire[k], Head(chan[k]))
      BY <2>1, <2>2, <2>4
    <3> QED
      BY <2>1, <2>3, <3>1, <3>2, <3>3 DEF Has
  <2>5. CASE l # k
    <3>1. chan'[k] = chan[k] /\ wire'[k] = wire[k]
      BY <2>1, <2>2, <2>5
    <3> QED
      BY <2>1, <2>3, <3>1 DEF Has
  <2> QED
    BY <2>4, <2>5
<1>6. ASSUME NEW l \in Conns, HandlerEnds(l)
      PROVE  RecentNumbers' \subseteq Has(b, conn[b])'
  <2>1. /\ ~Attached(l)
        /\ sub' = [sub EXCEPT ![l] = "gone"]
        /\ chan' = [chan EXCEPT ![l] = <<>>]
        /\ UNCHANGED <<nextSeq, lost, seen, wire, conn, client>>
    BY <1>6 DEF HandlerEnds
  <2>2. k # 0 /\ k \in Conns /\ l # k
    BY <2>1, OpenConn
  <2>3. sub'[k] = sub[k] /\ chan'[k] = chan[k]
    BY <2>1, <2>2
  <2> QED
    BY <1>1, <2>1, <2>2, <2>3 DEF RecentNumbers, Has
<1>7. ASSUME NEW c \in Browsers, Subscribe(c)
      PROVE  RecentNumbers' \subseteq Has(b, conn[b])'
  <2>1. /\ opened + 1 \in Conns
        /\ conn' = [conn EXCEPT ![c] = opened + 1]
        /\ client' = [client EXCEPT ![c] = "open"]
        /\ sub' = [sub EXCEPT ![opened + 1] = "subscribed"]
        /\ UNCHANGED <<nextSeq, chan, lost, seen, wire>>
    BY <1>7 DEF Subscribe, Conns
  <2>2. c # b
    BY <2>1
  <2>3. conn'[b] = k /\ client[b] = "open"
    BY <2>1, <2>2
  <2>4. k # 0 /\ k \in Conns /\ k # opened + 1
    BY <2>3, OpenConn DEF Connected
  <2>5. sub'[k] = sub[k]
    BY <2>1, <2>4
  <2> QED
    BY <1>1, <2>1, <2>3, <2>4, <2>5 DEF RecentNumbers, Has
<1>8. ASSUME NEW c \in Browsers,
             SubscribeRefused(c) \/ LoadFails(c)
      PROVE  RecentNumbers' \subseteq Has(b, conn[b])'
  <2>1. /\ client'[b] = client[b]
        /\ UNCHANGED <<nextSeq, seen, wire, chan, sub, lost, conn>>
    BY <1>8 DEF SubscribeRefused, LoadFails
  <2>2. k # 0 /\ k \in Conns
    BY <2>1, OpenConn
  <2> QED
    BY <1>1, <2>1, <2>2 DEF RecentNumbers, Has
<1>9. ASSUME NEW c \in Browsers, NEW page, GoodPage(page), Turn(c, page),
             UNCHANGED <<nextSeq, wire, chan, sub, lost, conn>>,
             c # b, client[b] = "open"
      PROVE  RecentNumbers' \subseteq Has(b, conn[b])'
  <2>1. seen'[b] = seen[b]
    BY <1>9, TurnKeeps
  <2>2. k # 0 /\ k \in Conns
    BY <1>9, OpenConn
  <2> QED
    BY <1>1, <1>9, <2>1, <2>2 DEF RecentNumbers, Has
<1>10. ASSUME NEW c \in Browsers, LoadSnapshot(c)
       PROVE  RecentNumbers' \subseteq Has(b, conn[b])'
  <2>1. c # b /\ client[b] = "open"
    BY <1>10 DEF LoadSnapshot
  <2> QED
    BY <1>9, <1>10, <2>1, LoadedPage DEF LoadSnapshot
<1>11. ASSUME NEW c \in Browsers, Receive(c)
       PROVE  RecentNumbers' \subseteq Has(b, conn[b])'
  <2> DEFINE l == conn[c]
             page == Accept(PageOf(c), Head(wire[l]))
  <2>1. /\ wire[l] # <<>> /\ Turn(c, page) /\ client[c] = "open"
        /\ wire' = [wire EXCEPT ![l] = Tail(wire[l])]
        /\ UNCHANGED <<nextSeq, chan, sub, lost, conn, client>>
    BY <1>11 DEF Receive
  <2>2. l # 0 /\ l \in Conns /\ k # 0 /\ k \in Conns
    BY <2>1, OpenConn
  <2>3. GoodPage(page) /\ page.seen = seen[c] \cup {Head(wire[l]).seq}
    BY <2>1, <2>2, ReceivedPage
  <2> HIDE DEF page
  <2>4. /\ seen'[c] = page.seen
        /\ \A d \in Browsers : d # c => seen'[d] = seen[d]
    BY <2>1, <2>3, TurnKeeps
  <2>5. RecentNumbers' = RecentNumbers /\ RecentNumbers \subseteq Has(b, k)
    BY <1>1, <2>1, <2>2 DEF RecentNumbers
  <2>6. CASE c = b
    <3>1. wire'[k] = Tail(wire[k]) /\ wire[k] \in Seq(Rec) /\ wire[k] # <<>>
      BY <2>1, <2>2, <2>6
    <3>2. Seqs(wire[k]) = {Head(wire[k]).seq} \cup Seqs(Tail(wire[k]))
      BY <3>1, TailHolds
    <3>3. seen'[b] = seen[b] \cup {Head(wire[k]).seq}
      BY <2>3, <2>4, <2>6
    <3>4. Has(b, k) \subseteq Has(b, conn[b])'
      BY <2>1, <3>1, <3>2, <3>3 DEF Has
    <3> QED
      BY <2>5, <3>4
  <2>7. CASE c # b
    <3>1. l # k
      BY <1>0, <2>2, <2>7
    <3>2. wire'[k] = wire[k] /\ seen'[b] = seen[b]
      BY <2>1, <2>2, <2>4, <2>7, <3>1
    <3>3. Has(b, conn[b])' = Has(b, k)
      BY <2>1, <3>2 DEF Has
    <3> QED
      BY <2>5, <3>3
  <2> QED
    BY <2>6, <2>7
<1>12. ASSUME NEW c \in Browsers, Disconnect(c) \/ Reload(c) \/ Leave(c)
       PROVE  RecentNumbers' \subseteq Has(b, conn[b])'
  <2>1. /\ Detach(c) /\ UNCHANGED <<nextSeq, chan, sub, lost>>
        /\ client'[c] # "open"
        /\ \A d \in Browsers : d # c => client'[d] = client[d] /\ seen'[d] = seen[d]
    BY <1>12 DEF Disconnect, Reload, Leave
  <2>2. c # b /\ client[b] = "open" /\ seen'[b] = seen[b]
    BY <2>1
  <2>3. k # 0 /\ k \in Conns
    BY <2>2, OpenConn
  <2>4. conn[c] # k
    BY <2>2, <2>3 DEF Connected
  <2>5. conn'[b] = k /\ wire'[k] = wire[k]
    BY <2>1, <2>2, <2>3, <2>4, DetachType
  <2>6. sub[k] # "subscribed" /\ ~lost[k]
    BY <2>1, <2>5
  <2>7. RecentNumbers' = RecentNumbers /\ RecentNumbers \subseteq Has(b, k)
    BY <1>1, <2>1, <2>3, <2>6 DEF RecentNumbers
  <2>8. Has(b, conn[b])' = Has(b, k)
    BY <2>1, <2>2, <2>5 DEF Has
  <2> QED
    BY <2>7, <2>8
<1>13. CASE Restart
  <2>1. client'[b] # "open"
    BY <1>13 DEF Restart
  <2> QED
    BY <2>1
<1>14. CASE UNCHANGED vars
  BY <1>2, <1>14 DEF vars
<1> QED
  BY <1>3, <1>4, <1>5, <1>6, <1>7, <1>8, <1>10, <1>11, <1>12, <1>13, <1>14
  DEF Next

-----------------------------------------------------------------------------
(* The invariant, and what follows from it.                                *)

LEMMA InitInv == Init => Inv
<1> SUFFICES ASSUME Init PROVE Inv
  OBVIOUS
<1> USE FeedAssumption, NothingHolds DEF Init
<1>1. TypeOK
  BY DEF TypeOK, SubStates, ClientStates, Conns
<1>2. Anywhere = {}
  BY DEF Anywhere, OnTheWay
<1>3. StampedOnce
  BY <1>2 DEF StampedOnce
<1>4. PagesGood
  BY DEF PagesGood, GoodPage, PageOf
<1>5. RingIsRecent
  BY DEF RingIsRecent
<1>6. Connected /\ NumbersHere
  BY DEF Connected, NumbersHere
<1>7. Unbroken
  BY <1>2 DEF Unbroken
<1>8. Numbered
  BY <1>2, AnywhereHas DEF Numbered, Earlier
<1> QED
  BY <1>1, <1>3, <1>4, <1>5, <1>6, <1>7, <1>8 DEF Inv

LEMMA NextInv == Inv /\ [Next]_vars => Inv'
<1> SUFFICES ASSUME Inv, [Next]_vars PROVE Inv'
  OBVIOUS
<1>1. TypeOK /\ PagesGood /\ Connected /\ StampedOnce /\ RingIsRecent
  BY DEF Inv
<1>2. NumbersHere /\ Numbered /\ Unbroken
  BY DEF Inv
<1>3. TypeOK'
  BY <1>1, NextType
<1>4. PagesGood'
  BY <1>1, NextPages
<1>5. Connected'
  BY <1>1, NextConnected
<1>6. RingIsRecent'
  BY <1>1, NextRing
<1>7. StampedOnce'
  BY <1>1, NextStampedOnce
<1>8. NumbersHere'
  BY <1>1, <1>2, NextNumbersHere
<1>9. Unbroken'
  BY <1>1, <1>2, NextUnbroken
<1>10. Numbered'
  BY <1>1, <1>2, NextNumbered
<1> QED
  BY <1>3, <1>4, <1>5, <1>6, <1>7, <1>8, <1>9, <1>10 DEF Inv

LEMMA Invariance == Spec => []Inv
BY InitInv, NextInv, PTL DEF Spec

(* The log, the streams and the screens keep their types, whatever number  *)
(* of screens, of places and of records there is.                          *)
THEOREM FeedTypeCorrect == Spec => []TypeOK
<1>1. Inv => TypeOK
  BY DEF Inv
<1> QED
  BY <1>1, Invariance, PTL

(* A watcher whose channel never overflowed misses none of the last        *)
(* records of this process, however many processes were before: the        *)
(* handler subscribes before it copies, the ring keeps its last records    *)
(* when it is trimmed, and a page that shows only records of this process  *)
(* drops none of them as seen before.                                      *)
THEOREM NothingIsMissed == Spec => []NoHole
<1>1. ASSUME Inv PROVE NoHole
  <2> SUFFICES ASSUME NEW b \in Browsers, client[b] = "open",
                      sub[conn[b]] # "subscribed", ~lost[conn[b]],
                      \A rec \in Elems(shown[b]) : OfThisProcess(rec),
                      NEW rec \in Recent
               PROVE  rec \in Elems(shown[b]) \cup Elems(wire[conn[b]])
                               \cup Elems(chan[conn[b]])
    BY DEF NoHole
  <2> DEFINE k == conn[b]
             here == Elems(shown[b]) \cup Elems(wire[k]) \cup Elems(chan[k])
  <2>1. TypeOK /\ PagesGood /\ Connected /\ NumbersHere /\ Numbered
    BY <1>1 DEF Inv
  <2>2. k \in Conns
    BY <2>1, OpenConn
  <2>3. PICK n \in RecentNumbers : rec = [seq |-> n, order |-> Earlier + n]
    BY DEF Recent, RecentNumbers
  <2>4. n \in seen[b] \cup Seqs(wire[k]) \cup Seqs(chan[k])
    BY <2>1 DEF NumbersHere
  <2>5. seen[b] = Seqs(shown[b])
    BY <2>1 DEF PagesGood, GoodPage, PageOf
  <2>6. PICK found \in here : found.seq = n
    BY <2>4, <2>5, SeqsOf
  <2>7. found \in Anywhere
    BY <2>2, AnywhereHas, OnTheWayHas
  <2>8. OfThisProcess(found)
    BY <2>1, <2>2, OnTheWayHas DEF Numbered
  <2>9. found.order = Earlier + n /\ found \in Rec
    BY <2>1, <2>6, <2>7, <2>8, AnywhereTyped DEF Numbered
  <2>10. found = rec
    BY <2>3, <2>6, <2>9 DEF Rec
  <2> QED
    BY <2>10
<1> QED
  BY <1>1, Invariance, PTL

(* No order is on a screen twice: the copy and the channel may overlap, a  *)
(* reconnection replays the ring, and a new process counts from one again. *)
THEOREM NothingIsShownTwice == Spec => []NoDuplicate
<1>1. ASSUME Inv PROVE NoDuplicate
  <2> SUFFICES ASSUME NEW b \in Browsers,
                      NEW i \in DOMAIN shown[b], NEW j \in DOMAIN shown[b],
                      shown[b][i].order = shown[b][j].order
               PROVE  i = j
    BY DEF NoDuplicate
  <2>1. shown[b][i] \in Anywhere /\ shown[b][j] \in Anywhere
    BY AnywhereHas DEF Elems
  <2>2. shown[b][i] = shown[b][j]
    BY <1>1, <2>1 DEF Inv, StampedOnce
  <2>3. GoodPage(PageOf(b)) /\ PageOf(b).shown = shown[b]
    BY <1>1 DEF Inv, PagesGood, PageOf
  <2> QED
    BY <2>2, <2>3 DEF GoodPage
<1> QED
  BY <1>1, Invariance, PTL

(* As long as the process that numbered the records lives (MaxBoots = 0),  *)
(* a record that arrives and is of an order the screen does not have goes  *)
(* onto the screen: a number the page has seen is an order it shows.  With *)
(* a restart it is not so, and the run feed_replay shows it.               *)
THEOREM UnbrokenFeedShowsAll ==
  ASSUME MaxBoots = 0
  PROVE  Spec => NewRecordIsShown
<1> DEFINE Shows == \A b \in Browsers :
             Receive(b) => Head(wire[conn[b]]).order \in Orders(shown'[b])
<1>1. ASSUME Inv, Inv', [Next]_vars PROVE [Shows]_vars
  <2> SUFFICES ASSUME NEW b \in Browsers, Receive(b)
               PROVE  Head(wire[conn[b]]).order \in Orders(shown'[b])
    OBVIOUS
  <2> DEFINE k == conn[b]
             rec == Head(wire[k])
             page == Accept(PageOf(b), rec)
  <2>1. client[b] = "open" /\ wire[k] # <<>> /\ Turn(b, page)
    BY DEF Receive
  <2>2. TypeOK /\ PagesGood /\ Connected /\ Unbroken /\ PagesGood' /\ Unbroken'
    BY <1>1 DEF Inv
  <2>3. k \in Conns /\ wire[k] \in Seq(Rec)
    BY <2>1, <2>2, OpenConn DEF TypeOK
  <2>4. rec \in Rec /\ rec \in Elems(wire[k])
    BY <2>1, <2>3, TailHolds
  <2>5. GoodPage(page) /\ page.seen = seen[b] \cup {rec.seq}
    BY <2>1, <2>2, <2>3, ReceivedPage
  <2>6. shown'[b] = page.shown
    <3> HIDE DEF page
    <3> QED
      BY <2>1, <2>2, <2>5, TurnKeeps
  <2> HIDE DEF page
  <2>7. rec.seq \in Seqs(shown'[b])
    BY <2>5, <2>6 DEF GoodPage
  <2>8. PICK i \in DOMAIN shown'[b] : shown'[b][i].seq = rec.seq
    BY <2>7 DEF Seqs
  <2>9. boots = 0 /\ boots' = 0
    BY <2>2, <1>1, FeedAssumption DEF Unbroken, Inv, TypeOK
  <2>10. rec.seq = rec.order
    <3>1. rec \in Anywhere
      BY <2>3, <2>4, AnywhereHas, OnTheWayHas
    <3> HIDE DEF rec
    <3> QED
      BY <2>2, <2>9, <3>1 DEF Unbroken
  <2>11. shown'[b][i] \in Anywhere'
    BY <2>8 DEF Anywhere, Elems
  <2>12. shown'[b][i].seq = shown'[b][i].order
    BY <2>2, <2>9, <2>11 DEF Unbroken
  <2> QED
    BY <2>8, <2>10, <2>12 DEF Orders
<1> HIDE DEF Shows
<1>2. Spec => [][Shows]_vars
  BY <1>1, Invariance, PTL DEF Spec
<1> QED
  BY <1>2 DEF NewRecordIsShown, Shows

=============================================================================
