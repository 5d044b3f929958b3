------------------------------ MODULE OrderFeed ------------------------------
(***************************************************************************)
(* The order feed: orderLog (voter/coffee_orders.go), the stream handler   *)
(* that serves it (participant_orders.go) and the screens that watch it    *)
(* (frontend/src/api/liveOrders.ts).                                       *)
(*                                                                         *)
(* The log is a ring in the process's memory.  A stream subscribes first   *)
(* and copies the ring second, so the two may overlap; the screen tells    *)
(* them apart by the sequence number.  A watcher that falls behind loses   *)
(* records; a broken connection is retried by the browser itself; a        *)
(* restart empties the ring and begins the numbers again.                  *)
(*                                                                         *)
(* An order is a number that is never used twice, which the code does not  *)
(* have: it is how the properties tell two records apart.                  *)
(***************************************************************************)
EXTENDS Integers, Sequences, FiniteSets

CONSTANTS
  Browsers,    \* the screens that watch the feed
  Capacity,    \* orderLogCapacity
  MaxSubs,     \* orderLogMaxSubscribers
  Buffer,      \* the channel of one subscriber
  MaxOrders,   \* bound: orders recorded
  MaxConns,    \* bound: connections made, over all browsers
  MaxReloads,  \* bound: reloads of a page
  MaxBoots     \* bound: restarts of the process

ASSUME FeedAssumption ==
  /\ Capacity \in Nat \ {0} /\ MaxSubs \in Nat \ {0} /\ Buffer \in Nat \ {0}
  /\ MaxOrders \in Nat /\ MaxConns \in Nat
  /\ MaxReloads \in Nat /\ MaxBoots \in Nat

VARIABLES
  records,  \* orderLog.records, oldest first
  nextSeq,  \* orderLog.nextSeq
  sub,      \* where the handler of each connection is
  chan,     \* the channel of each subscription
  wire,     \* what was written to each connection and not read yet
  lost,     \* history: a record did not fit this subscription's channel
  opened,   \* connections made so far: orderLog.nextSubID over all boots
  conn,     \* the connection each browser's EventSource has, 0 for none
  client,   \* where each page's useLiveOrders is
  seen,     \* the sequence numbers each page has accepted
  shown,    \* the records each page has on screen, in order of acceptance
  placed,   \* orders recorded so far
  reloads, boots

logVars == <<records, nextSeq, placed>>
serverVars == <<sub, chan, lost>>
pageVars == <<seen, shown>>
vars == <<logVars, serverVars, pageVars, wire, opened, conn, client, reloads,
          boots>>

Conns == 1..MaxConns
SubStates == {"none", "subscribed", "streaming", "gone"}
ClientStates == {"loading", "connecting", "open", "retrying", "refused", "closed"}
Rec == [seq : Nat \ {0}, order : Nat \ {0}]

Subscribers == {k \in Conns : sub[k] \in {"subscribed", "streaming"}}

(* The browser at the other end of connection k is still there.            *)
Attached(k) == \E b \in Browsers : conn[b] = k

Init ==
  /\ records = <<>>
  /\ nextSeq = 1
  /\ sub = [k \in Conns |-> "none"]
  /\ chan = [k \in Conns |-> <<>>]
  /\ wire = [k \in Conns |-> <<>>]
  /\ lost = [k \in Conns |-> FALSE]
  /\ opened = 0
  /\ conn = [b \in Browsers |-> 0]
  /\ client = [b \in Browsers |-> "loading"]
  /\ seen = [b \in Browsers |-> {}]
  /\ shown = [b \in Browsers |-> <<>>]
  /\ placed = 0
  /\ reloads = 0
  /\ boots = 0

-----------------------------------------------------------------------------
(* The log.                                                                *)

Last(s, n) == SubSeq(s, Len(s) - n + 1, Len(s))

(* Mutant: the ring forgets one record too many.                           *)
TrimmedShort(s) == IF Len(s) >= Capacity THEN Last(s, Capacity - 1) ELSE s

Trimmed(s) == IF Len(s) > Capacity THEN Last(s, Capacity) ELSE s

(* The send that does not block: a full channel loses the record.          *)
Offered(ch, rec) == IF Len(ch) < Buffer THEN Append(ch, rec) ELSE ch

(* Mutant: the first record is number zero.                                *)
StampedFromZero(order) == [seq |-> nextSeq - 1, order |-> order]

Stamped(order) == [seq |-> nextSeq, order |-> order]

(* record: stamped, appended, trimmed and offered to every subscriber      *)
(* under one lock.                                                         *)
Record ==
  LET rec == Stamped(placed + 1) IN
  /\ placed < MaxOrders
  /\ placed' = placed + 1
  /\ nextSeq' = nextSeq + 1
  /\ records' = Trimmed(Append(records, rec))
  /\ chan' = [k \in Conns |->
                IF k \in Subscribers THEN Offered(chan[k], rec) ELSE chan[k]]
  /\ lost' = [k \in Conns |->
                lost[k] \/ (k \in Subscribers /\ Len(chan[k]) >= Buffer)]
  /\ UNCHANGED <<sub, pageVars, wire, opened, conn, client, reloads, boots>>

-----------------------------------------------------------------------------
(* The stream handler of connection k.                                     *)

(* A new connection: the handler subscribes before anything else.          *)
Subscribe(b) ==
  LET k == opened + 1 IN
  /\ client[b] \in {"connecting", "retrying"}
  /\ opened < MaxConns
  /\ Cardinality(Subscribers) < MaxSubs
  /\ opened' = k
  /\ conn' = [conn EXCEPT ![b] = k]
  /\ client' = [client EXCEPT ![b] = "open"]
  /\ sub' = [sub EXCEPT ![k] = "subscribed"]
  /\ UNCHANGED <<logVars, chan, lost, pageVars, wire, reloads, boots>>

(* The cap is reached: 503, and an EventSource does not retry an answer.   *)
SubscribeRefused(b) ==
  /\ client[b] \in {"connecting", "retrying"}
  /\ Cardinality(Subscribers) >= MaxSubs
  /\ client' = [client EXCEPT ![b] = "refused"]
  /\ UNCHANGED <<logVars, serverVars, pageVars, wire, opened, conn, reloads,
                 boots>>

(* Mutant: the replay starts after the last number the page has, the way   *)
(* an event stream resumed by its Last-Event-ID would.                     *)
SendSnapshotAfter(k) ==
  LET known == UNION {seen[b] : b \in {x \in Browsers : conn[x] = k}} IN
  /\ sub[k] = "subscribed"
  /\ sub' = [sub EXCEPT ![k] = "streaming"]
  /\ wire' = IF Attached(k)
             THEN [wire EXCEPT ![k] =
                     SelectSeq(records, LAMBDA rec : \A n \in known : rec.seq > n)]
             ELSE wire
  /\ UNCHANGED <<logVars, chan, lost, pageVars, opened, conn, client, reloads,
                 boots>>

(* The copy is taken under the lock and written after; nothing is read     *)
(* from the channel until it is.                                           *)
SendSnapshot(k) ==
  /\ sub[k] = "subscribed"
  /\ sub' = [sub EXCEPT ![k] = "streaming"]
  /\ wire' = IF Attached(k) THEN [wire EXCEPT ![k] = records] ELSE wire
  /\ UNCHANGED <<logVars, chan, lost, pageVars, opened, conn, client, reloads,
                 boots>>

Forward(k) ==
  /\ sub[k] = "streaming"
  /\ Attached(k)
  /\ chan[k] # <<>>
  /\ wire' = [wire EXCEPT ![k] = Append(@, Head(chan[k]))]
  /\ chan' = [chan EXCEPT ![k] = Tail(@)]
  /\ UNCHANGED <<logVars, sub, lost, pageVars, opened, conn, client, reloads,
                 boots>>

(* Mutant: a stream whose browser left waits for the next order.           *)
HandlerEndsOnOrder(k) ==
  /\ k \in Subscribers
  /\ ~Attached(k)
  /\ chan[k] # <<>>
  /\ sub' = [sub EXCEPT ![k] = "gone"]
  /\ chan' = [chan EXCEPT ![k] = <<>>]
  /\ UNCHANGED <<logVars, lost, pageVars, wire, opened, conn, client, reloads,
                 boots>>

(* The request's context is done, or a write (a heartbeat at the latest)   *)
(* fails: the deferred unsubscribe frees the place.                        *)
HandlerEnds(k) ==
  /\ k \in Subscribers
  /\ ~Attached(k)
  /\ sub' = [sub EXCEPT ![k] = "gone"]
  /\ chan' = [chan EXCEPT ![k] = <<>>]
  /\ UNCHANGED <<logVars, lost, pageVars, wire, opened, conn, client, reloads,
                 boots>>

-----------------------------------------------------------------------------
(* The page of browser b.                                                  *)

(* What a page has accepted, and what is on its screen.                    *)
PageOf(b) == [seen |-> seen[b], shown |-> shown[b]]

Added(page, rec) ==
  [seen |-> page.seen \cup {rec.seq}, shown |-> Append(page.shown, rec)]

(* Mutant: every record is taken, whatever was seen.                       *)
AcceptAll(page, rec) == Added(page, rec)

(* Mutant: only a number above every one before is new.                    *)
AcceptNewer(page, rec) ==
  IF \E n \in page.seen : n >= rec.seq THEN page ELSE Added(page, rec)

(* accept: a number already seen is dropped without a word.                *)
Accept(page, rec) == IF rec.seq \in page.seen THEN page ELSE Added(page, rec)

(* The pages after each record of a list, and after the last.              *)
Accepted(page, recs) ==
  LET after[n \in 0..Len(recs)] ==
        IF n = 0 THEN page ELSE Accept(after[n - 1], recs[n])
  IN  after

AcceptEach(page, recs) == Accepted(page, recs)[Len(recs)]

Turn(b, page) ==
  /\ seen' = [seen EXCEPT ![b] = page.seen]
  /\ shown' = [shown EXCEPT ![b] = page.shown]

Seqs(recs) == {recs[i].seq : i \in DOMAIN recs}
Orders(recs) == {recs[i].order : i \in DOMAIN recs}

(* The first paint, GET /public/orders; connect() follows.                 *)
LoadSnapshot(b) ==
  /\ client[b] = "loading"
  /\ client' = [client EXCEPT ![b] = "connecting"]
  /\ Turn(b, AcceptEach(PageOf(b), records))
  /\ UNCHANGED <<logVars, serverVars, wire, opened, conn, reloads, boots>>

(* It fails, and connect() follows all the same.                           *)
LoadFails(b) ==
  /\ client[b] = "loading"
  /\ client' = [client EXCEPT ![b] = "connecting"]
  /\ UNCHANGED <<logVars, serverVars, pageVars, wire, opened, conn, reloads,
                 boots>>

Receive(b) ==
  LET k == conn[b] IN
  /\ client[b] = "open"
  /\ wire[k] # <<>>
  /\ Turn(b, Accept(PageOf(b), Head(wire[k])))
  /\ wire' = [wire EXCEPT ![k] = Tail(@)]
  /\ UNCHANGED <<logVars, serverVars, opened, conn, client, reloads, boots>>

(* The page lets go of its connection; what was on it is not read.         *)
Detach(b) ==
  /\ conn' = [conn EXCEPT ![b] = 0]
  /\ wire' = [k \in Conns |-> IF k = conn[b] THEN <<>> ELSE wire[k]]

(* The wire drops: EventSource reconnects by itself.                       *)
Disconnect(b) ==
  /\ client[b] = "open"
  /\ client' = [client EXCEPT ![b] = "retrying"]
  /\ Detach(b)
  /\ UNCHANGED <<logVars, serverVars, pageVars, opened, reloads, boots>>

(* A new page: nothing seen, nothing shown.                                *)
Reload(b) ==
  /\ client[b] \notin {"loading", "closed"}
  /\ reloads < MaxReloads
  /\ reloads' = reloads + 1
  /\ client' = [client EXCEPT ![b] = "loading"]
  /\ seen' = [seen EXCEPT ![b] = {}]
  /\ shown' = [shown EXCEPT ![b] = <<>>]
  /\ Detach(b)
  /\ UNCHANGED <<logVars, serverVars, opened, boots>>

(* stop, when the screen is left.                                          *)
Leave(b) ==
  /\ client[b] # "closed"
  /\ client' = [client EXCEPT ![b] = "closed"]
  /\ Detach(b)
  /\ UNCHANGED <<logVars, serverVars, pageVars, opened, reloads, boots>>

-----------------------------------------------------------------------------
(* A new process: an empty log that counts from one; the pages stay.       *)
Restart ==
  /\ boots < MaxBoots
  /\ boots' = boots + 1
  /\ records' = <<>>
  /\ nextSeq' = 1
  /\ sub' = [k \in Conns |-> IF sub[k] = "none" THEN "none" ELSE "gone"]
  /\ chan' = [k \in Conns |-> <<>>]
  /\ wire' = [k \in Conns |-> <<>>]
  /\ conn' = [b \in Browsers |-> 0]
  /\ client' = [b \in Browsers |->
                  IF client[b] = "open" THEN "retrying" ELSE client[b]]
  /\ UNCHANGED <<placed, lost, pageVars, opened, reloads>>

Next ==
  \/ Record
  \/ \E k \in Conns : SendSnapshot(k) \/ Forward(k) \/ HandlerEnds(k)
  \/ \E b \in Browsers :
       \/ Subscribe(b) \/ SubscribeRefused(b)
       \/ LoadSnapshot(b) \/ LoadFails(b) \/ Receive(b)
       \/ Disconnect(b) \/ Reload(b) \/ Leave(b)
  \/ Restart

Spec == Init /\ [][Next]_vars

(* A handler's goroutine runs until it ends, a write to a dead connection  *)
(* fails within a heartbeat, and a page reads what it is sent.  Nothing    *)
(* makes an order happen or a broken wire heal.                            *)
FairSpec ==
  /\ Spec
  /\ \A k \in Conns : WF_vars(SendSnapshot(k)) /\ WF_vars(Forward(k))
                                               /\ WF_vars(HandlerEnds(k))
  /\ \A b \in Browsers : WF_vars(Receive(b))

-----------------------------------------------------------------------------
TypeOK ==
  /\ records \in Seq(Rec) /\ nextSeq \in Nat \ {0}
  /\ sub \in [Conns -> SubStates]
  /\ chan \in [Conns -> Seq(Rec)] /\ wire \in [Conns -> Seq(Rec)]
  /\ lost \in [Conns -> BOOLEAN] /\ opened \in 0..MaxConns
  /\ conn \in [Browsers -> 0..MaxConns]
  /\ client \in [Browsers -> ClientStates]
  /\ seen \in [Browsers -> SUBSET (Nat \ {0})]
  /\ shown \in [Browsers -> Seq(Rec)]
  /\ placed \in Nat /\ reloads \in Nat /\ boots \in Nat

(* The orders of the processes before this one: the first Earlier of all.  *)
Earlier == placed - (nextSeq - 1)
OfThisProcess(rec) == rec.order > Earlier

(* What the ring is for: the last records of this process.                 *)
Recent ==
  {[seq |-> n, order |-> Earlier + n] :
     n \in {m \in 1..(nextSeq - 1) : m >= nextSeq - Capacity}}

Elems(recs) == {recs[i] : i \in DOMAIN recs}

(* No hole between the copy and the channel (participant_orders.go:        *)
(* "Subscribe BEFORE writing the snapshot"), and none at the old end of    *)
(* the ring (coffee_orders.go, record).  A watcher whose channel never     *)
(* overflowed has on its screen, on its wire or in its channel the last    *)
(* records themselves, as many as the ring holds.  It is asked of a page   *)
(* that shows no record of a process before this one: one that does takes  *)
(* new records for old ones, which the run feed_replay shows.              *)
NoHole ==
  \A b \in Browsers :
    LET k == conn[b] IN
    /\ client[b] = "open" /\ sub[k] # "subscribed" /\ ~lost[k]
    /\ \A rec \in Elems(shown[b]) : OfThisProcess(rec)
    => Recent \subseteq Elems(shown[b]) \cup Elems(wire[k]) \cup Elems(chan[k])

(* The overlap is safe and so is the replay of every reconnection: no      *)
(* order is on a screen twice.                                             *)
NoDuplicate ==
  \A b \in Browsers : \A i, j \in DOMAIN shown[b] :
    shown[b][i].order = shown[b][j].order => i = j

(* "A reconnecting browser can tell a replayed record from a new one"      *)
(* (coffee_orders.go, Seq): a record that arrives and is of an order not   *)
(* on the screen goes onto the screen.                                     *)
NewRecordIsShown ==
  [][\A b \in Browsers :
       Receive(b) => Head(wire[conn[b]]).order \in Orders(shown'[b])]_vars

(* "A reload repairs the gap" (coffee_orders.go, record): a page on a      *)
(* stream that has been sent its copy comes to show every order the ring   *)
(* holds, however many reconnections and replays came before, unless its   *)
(* channel overflows or the connection breaks first.                       *)
CatchesUp ==
  \A b \in Browsers, n \in 1..MaxOrders :
    /\ client[b] = "open" /\ sub[conn[b]] = "streaming"
    /\ n \in Orders(records)
    ~> \/ n \in Orders(shown[b])
       \/ client[b] # "open"
       \/ lost[conn[b]]

(* The place of a watcher that left is given back, so the cap counts       *)
(* watchers and not the history of them.                                   *)
PlacesFreed == \A k \in Conns : k \in Subscribers /\ ~Attached(k) ~> k \notin Subscribers

=============================================================================
