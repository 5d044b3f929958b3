# Voter, in TLA+

Specifications of Voter (`src/` in this tree): a coffee shop and a voting room
on top of the Kubernetes API. A Go process (`voter/`) takes orders, keeps a feed
of them and runs the controllers that publish results as status; a Vue page
(`frontend/`) reads and edits Kubernetes objects directly. The modules here
model the parts in which several things happen at once, TLC checks them on small
instances, and TLAPS proves the safety properties for any instance.

    tlc -workers 2 -config TillContested.cfg MCVoucherTill
    tlapm VoucherTillProofs.tla
    tlapm CoffeeStatusProofs.tla
    tlapm QuizTallyProofs.tla      # and so on: every *Proofs module

Definitions keep the names of the source where TLA+ allows it, and
`PROJECT.json` maps each to the lines it models. A definition marked *Mutant* is
a plausible bug of the code; it is used by no specification, and stands beside
the definition it would replace to show that a property notices.

## 1. The system

| Part | State it keeps | Operations | Talks to |
| --- | --- | --- | --- |
| Till (`participant_storefront.go`, `coffee_logic.go`, `coffee_vouchers.go`) | redemption count per voucher, in memory | read the menu, decide, redeem, release, name the order | menu object or settings folder; order feed; coffee status |
| Order feed (`coffee_orders.go`, `participant_orders.go`, `liveOrders.ts`) | ring of the last orders, sequence number, subscribers with a bounded channel; each page: numbers seen, orders shown | record, snapshot, subscribe, stream, unsubscribe; first paint, reconnect, accept | till (records), pages (GET and event stream) |
| Coffee status (`coffee_status_reconciler.go`) | earliest order not published, whether the old one was cleared, wake-up channel | reconcile on menu, key or order; resync | ledger (depleted?), menu status, two Secrets |
| Quiz tally (`quiz_reconciler.go`, `quiz_tally.go`, `quiz_rules.go`) | two informer caches, delayed work queue | follow watches, coalesce, count, patch status, retry, resync | rounds and ballots in the API |
| Ballot admission (`config/admission/quizsubmission-policy.yaml`) | none | admit a ballot to a live round whose pins match | rounds, in particular their status |
| Seat controller (`seat_reconciler.go`) | two caches, work queue | find the newest commit of the owner, patch the seat | seats, CommitRequests |
| Settings (`settings.go`, `settings_keys.go`) | the menu of the folder; the state of each key file | load strictly, open keys with backoff | till, status page |
| Process (`main.go`) | all of the above | start, serve, drain, exit | Deployment |
| Live editor (`liveEditableResource.ts`, `kube.ts`, `AdminScreen.vue`, `DatabaseEditScreen.vue`, krm-stream) | base, draft and server version of one object; keys that were typed; the press under way | edit, follow the stream, read again, save with retry, write keys | API server |
| List of changes (`fieldChanges.ts`) | none: a function of draft and server | pair rows, list the differences, revert one | live editor |
| Commit trail (`commitStatus.ts`, `kube.ts`) | per target, the request followed and what is known of it | request before the write, follow, stop | CommitRequests |
| Grants (`roomGrants.ts`, `BallotSwitches.vue`, `SeatSwitches.vue`, `PickSomeone.vue`, `RoomScreen.vue`) | role bindings; what a switch shows; the marker on the rounds | read, list, delete, create, announce | API server, the phones' pages |
| Permissions (`authz.ts`, `useAuthorization.ts`, `grantChanges.ts`) | the rows of the last answer; one shared watch | ask, flatten, look up, watch or poll | API server |
| Seats (`router.ts`, `seatOnboarding.ts`, `liveSeats.ts`, `SeatClaimScreen.vue`, `SeatMineScreen.vue`) | what the guard remembers; the map; the choice; the pickers | guard a navigation, claim, change, follow the map | API server, other participants |
| Storefront page (`OrderScreen.vue`, `menuRevision.ts`, `stores/cart.ts`) | the menu shown, the cart, the poll's last answer and how often it came | refresh, follow, poll, fill the cart, order (the last two not modelled) | the shop's pods |
| Ballot page (`AnswerScreen.vue`, `stores/draftSubmission.ts`, `quiz.ts`, `ballot.ts`) | the round as it was loaded, one draft for the tab, drafts in the browser | load, answer, submit | rounds, ballots |
| Lists (`HomeScreen.vue`, `DatabasesScreen.vue`, `DatabaseNewScreen.vue`, `liveResources.ts`) | what was read once, what is streamed; the new request | refresh, follow, fill in, file | API server |

What is hard in it: orders race on a counter while its limit is edited; a feed
whose snapshot and channel overlap, whose watchers fall behind and reconnect,
and whose numbers start again with the process; controllers that compute from
caches that are behind and patch by name objects that may have been replaced;
status written and read back by the same controller; a browser that saves while
others save; and the two-step changes (request then write, revoke then create)
that can stop half way. Everything the process keeps is in memory, so a restart
is a forgetting, not a recovery. The Kubernetes API, its watches and admission,
krm-foyer, Git and Flux are outside this code and appear only as what they may
do to it.

What makes each part correct:

* till: the count is exactly the uses held; never more than a limit that was
  published; never refused as depleted without cause; answered after recorded;
* feed: no hole, not at the old end of the ring either, no duplicate, and new orders
  do appear; places of watchers are freed;
* tally: the status becomes right after the last change, from any lag; it never
  claims questions it did not count against; closed rounds go quiet, live ones
  never do; the published times and pins mean what their documentation says;
* status: the first order is never lost and never moved; a wake-up is never lost;
  the status becomes what the till, the menu and the key say, and is left alone;
* editor: a save writes what the person changed and nothing that was not shown to
  them; what they typed stays; a page that says it is live is; a press ends;
* list of changes: reverting everything, in any order, leads back to the server;
* trail: an outcome on the page is the outcome of the press it stands under;
* grants and permissions: switches, marker and table agree with the bindings in
  the end, whoever changed them and whichever answer came last;
* seats pages: what is about to be claimed is shown free; pickers move by hand or
  with the seat they show;
* storefront page: it comes to the menu of the pods and stays there;
* ballot page: a draft is of the round it was answered on;
* lists: what is shown while synced is what is there;
* seat controller: the why on a seat becomes its owner's newest of this claim.

## 2. Modules

| Module | Models | Kind |
| --- | --- | --- |
| `CoffeeMenu` | a menu, an order, and the decision that is a function of the two | pure operators |
| `VoucherTill` | the order handlers of one process, the ledger, edits of the menu, stop, crash, restart | state machine |
| `VoucherAllowance` | what the ledger promises: claim, sell, give back, show a limit, reopen | abstract specification |
| `VoucherTillProofs` | theorems about `VoucherTill` | proofs |
| `OrderFeed` | the ring, the stream handlers, the pages | state machine |
| `OrderFeedProofs` | theorems about `OrderFeed` | proofs |
| `Orders` | the till or the feed of one process | composition |
| `CoffeeStatus` | the menu with its status, its watches, the controller's one goroutine, the orders it hears of | state machine |
| `CoffeeStatusProofs` | theorems about `CoffeeStatus` | proofs |
| `QuizTally` | rounds, ballots, watches, caches, queue, worker, patch | state machine |
| `QuizTallyProofs` | theorems about `QuizTally` | proofs |
| `SeatCommit` | one seat, its CommitRequests, watches, caches, queue, worker, patch | state machine |
| `Controllers` | the tally or the seat controller | composition |
| `LiveEdit` | one page editing one object while others write it | state machine |
| `LiveEditProofs` | theorems about `LiveEdit` | proofs |
| `FieldChanges` | the differences of two keyed lists, and their Revert buttons | functions, and a state machine over them |
| `CommitTrail` | the commit requests of presses, and the lines that follow them | state machine |
| `CommitTrailProofs` | the theorem about `CommitTrail` | proofs |
| `RoomGrants` | one switch of the room, its requests, the marker | state machine |
| `Authorization` | the table of permissions, the shared watch, questions in flight | functions, and a state machine over them |
| `Seats` | the router's guard, the two seat pages and their map | state machine |
| `Storefront` | the coffee bar on a phone while the menu rolls out | state machine |
| `Ballot` | one phone, several rounds, drafts and submissions | state machine |
| `Collections` | a list with two sources, and the form of a new request | state machine |
| `Pages` | a tab on any one of the frontend's parts (all of the above but `Ballot`) | composition |
| `PagesProofs` | theorems about `Pages`: what holds of a part holds of the tab, and `Seats` and `Collections` | proofs |
| `InductionLemmas` | induction over the natural numbers, stated about sets | proofs |
| `MCVoucherTill`, `MCOrderFeed`, `MCOrders`, `MCQuizTally`, `MCCoffeeStatus`, `MCControllers`, `MCPages` | values of the constants | model checking |

### VoucherTill

One action per stretch of the handler between two points where it waits or takes
a lock: `Submit` (body read), `ReadMenu`/`ReadFails` (`readCoffeeConfig`),
`Refuse`, `TakeFullPrice`, `Redeem`, `RedeemRefused` (`placeCoffeeOrder` up to
the ledger), `NameOrder`/`NameFails` (`randomToken`, `release`), `Record`
(`orderLog.record`), `TellStatus` (`orderPlaced`), `Answer`. `editions` is every
menu the operator published, so that a property can say which menu a handler may
have read; `taken` and `asked` are history too. `Stop`, `Restart` and `Crash`
are `serve`, the end of the drain and a kill; a new process has an empty ledger
and feed. `MenuFromFolder` is `SETTINGS_DIR`: the menu of the start of the
process is the one in force. Money, names, wording and the size of the feed are
left out (the feed's own module has the size). A request whose body is not an
order is answered before any of this, and is not modelled.

`VoucherAllowance` has no counter and no handlers. `Promise` in `VoucherTill`
maps a handler that holds a use and has no name yet to a claim, a placed order
to a sale, and the limits of the editions a handler of this process could have
read to the limits shown; `KeepsPromise` is its specification.

### OrderFeed

`records`, `nextSeq`, `sub` and `chan` are `orderLog` and the stream handlers;
`wire` is what a handler wrote and the page has not read; `client`, `seen` and
`shown` are `useLiveOrders`. An order is a number that is never used again, which
the code does not have: properties compare orders, the code compares `seq`. The
copy of the ring is taken in one step (it is, under the lock) and put on the
wire at once; the channel is not read until then, as in the handler. A
connection is lost at any time, a page reloads or leaves, and `Restart` empties
the log and breaks every connection. The gap between two processes, in which a
proxy may answer with an error and end the `EventSource` for good, is left out:
pages in it go on as `refused`, which the cap on watchers shows.

`NoHole` is about records, each of a process and with its number there: those in
the ring are on the screen, on the wire or in the channel. It is asked of a page
that shows one process's records. Of a page that has seen two it is not true, and
`FeedReplay` is the run that says so.

`Orders` puts the till and the feed beside each other, each with its own view of
the log (the till appends and waits for no screen), so that one run asks what must
come of every order and of every watcher.

### CoffeeStatus

One action per step of `Run` and `reconcile` between which another goroutine or
the API server can act: the wait (`Tick`, `Wake`), the window (`Coalesced`), the
`GET` (`Read`), the first lock (`TakePending`), the judgement (`Compute`), the
patch (`PatchLands`, `PatchFails`, with or without having been applied,
`PatchNotFound`) and the second lock (`Close`). `changed` is the channel of one
slot, `firstOrder` and `cleared` the memory of the process; what a pass holds is
gone when it returns. Each order is its own pointer, as the comparison in
`reconcile` has it. `Count`, `GiveBack` and `Tell` are the till as the
controller sees it, with a use counted against the limit of any menu, because a
handler may have read an old one. An event of the menu carries nothing here (it
only pokes), so those on their way are one bit; those of the Secret carry theirs
in order. `Merged` is the merge patch as the API server applies it, null
included, and every write comes back as an event.

One voucher and one key stand for the lists of them, and whether a voucher
applies to anything on sale is a field of the menu. Left out: wording,
`lastTransitionTime`, the conditions of somebody else, and the clock: the first
order is the first that was told, while the code reads the time just before it
takes the lock. What the model shows of a menu that is deleted and made again
after its first order was written: the new one says no order yet, or a later
one, since nothing is pending any more. `FirstOrderKept` excepts that by name.

### QuizTally

Each write in the API server appends to the watch of its kind; `DeliverRound`
and `DeliverBallot` move one event into the informer's store and start the
coalescing window if the handler would. `RelistRounds` and `RelistBallots` are a
watch that broke: the store jumps to the present, and a round deleted and made
again appears as one update. `waiting` is `AddAfter` (window and backoff),
`queue` the ready keys, `patch` the write in flight: the worker reads both
caches (`Reconcile`) and the patch lands later (`Patched`, `PatchNotFound`,
`PatchFails`, the last with or without having been applied). `Quiet` is the
skip for an unchanged round that is not live. `Vote` has the live and pin rules
of the admission policy, evaluated on the round as it is; `Apply` is any other
writer. The set of questions stands for its own digest, the answers of a ballot
for one value that fits some questions, and the per-question numbers for the
number of ballots counted per answer. Left out: `lastTallyTime` (so a live
round's repeated patch that changes nothing else makes no event), the bounded
sample of texts, several ballots of one tally in order of time. The handler runs
right after its store is updated in the model, and some time after in the code;
the difference is one more pass over the same caches, which `Resync` provides.

### SeatCommit and Controllers

`SeatCommit` has the shape of `QuizTally`: writes append to a watch (`seatWire`,
`requestWire`), deliveries move into the caches and queue the seat, the worker
reads both caches (`Reconcile`) and its patch lands later (`Written`, `WriteFails`,
with or without having been applied). Every event of a request queues its seat, and
of a seat only its add does. `File` is a phone's request ahead of its write, by
anybody and before or after a claim; `Commit` is gitops-reverser reporting it, and
`Expire` deletes it, minutes later, when all this is at rest. Time is whole seconds,
as the API's is, so a commit may be of the second in which the seat was made. Two
variables are history: `stray` says that what the seat shows was written for an
earlier seat of the name, `missed` that a new seat came as an update. Left out: the
message, and updates of a seat's looks, which set nothing off here. `WhyArrives` is
what the documents say of a seat, and `SeatStray` shows it violated; `WhySettles`
is what holds when neither `stray` nor `missed` does.

`Controllers` puts the two beside each other (`part` says which one a behaviour is
of), because they share neither objects nor memory: one run asks of both what they
come to in the end.

### LiveEdit

`object`, `secrets` and `wire` are the API server and the stream; `server`,
`mine` and `base` are the three-way store of krm-stream as this code uses it, an
external module described from its use; the rest is `liveEditableResource.ts` and
the `save` of the two editors. `at` is where a press of Save is: `settings` and
`ask` (a commit is being requested, first for the keys' repository), `write` (the
patch, with the version and the uid it is meant for), `stale` (409) and `reread`,
`refresh` (a read that was due, which is all such a press does), `key` and
`keyset` (the Secrets, one after another). What a press writes is settled when
`captureSave` runs and again after each reread; what the person types meanwhile
goes into the store and not into the patch. A read is `fresh` until an event
arrives, which is the generation counter of `refreshFromServer`. One uid is
followed by at most one other (`Uids`), and versions are bounded (`MaxRev`).
A keyed list is written whole, so `NoLostUpdate` is about fields that go out
without having been edited as well.

### FieldChanges

`Partner` is `pairElements`, `Changes` what `walk` finds in a list of products,
`Revert` what `revertTarget` and `applyServerValue` do for one of them. The
property is about the functions together, for any order of clicks: each button
puts back the thing it is beside, so they lead home.

### CommitTrail

A press asks for up to two commits, is granted some, writes, and follows what it
was granted. `EndCommit` is ConfigButler ending a request in its own time, in any
of the ways the conditions allow. `streams` is a set, so that a stream that was
not stopped could still speak: the mutant does that.

### RoomGrants and Authorization

`RoomGrants` has one switch in a behaviour (`control`), with the requests of each
kind in their order: list, delete one by one, create, look again. Others make and
take bindings between any two of them. The four kinds share nothing but the list
of bindings. `Authorization` has the rules a person holds, the flattened table,
and the shared watch of `grantChanges.ts` with its fallback to polling. Two
questions may be in flight; the answer that comes last is shown. `Truth` is the
reference definition: what the API server would say of each verb and key.

### Seats

`nav` is the navigation whose guard runs and `late` one that was superseded, whose
answers still set `seated` and `offered`. `waits` are the requests of pages,
including pages that were left, which may still move the tab. `Redraw` is the
watches of the two pages on the map: it is part of every step of the map, not an
action. The answer to a change runs the same watch (`Follow`), because it may be
what the page takes its seat from. The why with its CommitRequest is in `SeatCommit`.

### Storefront and Ballot

`Storefront` has both sources of a menu. With a folder, `pods` follow the menu one
by one and each poll and refetch is answered by any of them. The cart and the order
the phone sends decide nothing about the menu and are left out. `Ballot` has rounds
that are opened, closed, edited and made again, loads and presses that outlive
their page, and the admission rules on the pins. It is the module of a finding.

### Collections

`once` is the last REST read, `follow` the stream; `Source` chooses. The new
request is checked at the press and sent after the commit was requested, with the
form as it is by then.

### Pages

`part` says which part the tab is on; it does not change, so a behaviour of
`Pages` is a behaviour of one module with the others standing still, and one run
checks them all under the same bounds and the same rules about requests. What one
page leaves behind for the next (a guard, a claim, a request being filed, a draft)
is inside the modules, where it interacts. Coupling the modules to each other
would multiply their states and add no interaction: they share no variable in the
code but the session.

## 3. Runs

| Run | Question | Bounds |
| --- | --- | --- |
| `TillContested` | is the ledger exact and its limits kept, under races, edits, failures and restarts; is the abstract allowance implemented | 3 orders on one voucher, and one at full price after them (`AfterTheRace`); menus with limit 1, 2 and none, and with the voucher for one coffee; 1 edit; 1 restart or kill |
| `Orders` | is every accepted order answered, and does a stop end; does a page catch up, are new records shown, are places freed | till: 3 orders of different kinds, 2 menus that refuse some, 1 restart or kill; feed: 2 pages, room for 1 watcher, ring of 2, channels of 1, 3 orders, 3 connections, 1 reload |
| `FeedSafe` | hole, old end of the ring, duplicates | 2 pages, ring of 2, channels of 1, 3 orders, 3 connections, 1 reload, 1 restart |
| `FeedReplay` | *finding*: can a page tell a replayed record from a new one | 1 page, 1 restart |
| `StatusFollows` | is the first order kept, is a wake-up ever lost, does the status become right, does the controller fall silent | 2 orders, one with the voucher; 3 menus; 1 edit of menu or key; 1 failure, deletion or restart; a status left by an earlier process, or none |
| `QuizEdited` | does the watch alone make a live round right, and is `observedGeneration` honest | 1 round, 1 ballot, 2 sets of questions, 1 edit, 1 filing, 2 troubles (failed patches, broken watches, restarts), 2 times |
| `Controllers` | does everything converge, and is a closed round left alone while a live one is not; does a seat come to say its owner's newest why, but for `stray` and `missed` | 2 rounds of one name, 1 filing, 1 failed patch, broken watch or restart; 2 people, a seat claimed twice, 2 requests, 2 seconds, 1 broken watch, failed write or restart |
| `QuizEcho` | *finding*: is `openedAt` kept | 1 round, 2 times |
| `SeatStray` | *finding*: does a seat say its own owner's why | 2 people, a seat claimed twice, 1 request, nothing that fails |
| `QuizRecreated` | *finding*: does a ballot pinned to a deleted round count for its successor | 2 rounds of one name, 1 ballot, 1 edit (draft to live) |
| `Pages` | for each part of the frontend: is nothing overwritten or lost, does a press end, does what is shown become and stay true | one object of 4 fields, 3 versions, 2 attempts, 3 turns of the person or the network; 2 groups or people, 2 changes; 2 places, 3 looks, 3 moves; 2 menus, 2 pods, 2 rollouts, `AGREE` 3, 1 other link, failure or phone put away; 2 presses, 1 failed stream; 3 SKUs, 3 products, 3 edits; 3 rules, 2 changes; 1 name, 5 acts |
| `Drafts` | *finding*: is what is stored for a round answered on that round | 2 rounds, 5 taps |

Why the bounds are enough: the limit of 1 with three orders gives a winner, a
loser and one that arrives after a use was given back, and 2 and none give a
limit raised, lowered and lifted under a handler that holds another. The order at
full price is put after the race (a constraint of the run): it reads and writes
neither limit nor count; in `Orders` it comes at any time. A ring of 2
with channels of 1 overflows both with three orders; three connections are one
lost and one made again while another page watches. The status needs a
second order to displace the first, one event in the middle of a pass, and one
thing that goes wrong; what an earlier process left is in the initial states, so
that a restart is not needed to meet it. A tally needs one ballot to
be wrong by one, one edit between cache and patch, and one round made again. A
seat needs two claims and two whys to hold a wrong one, and two seconds for one to
be older than the seat.
Of the pages, an editor needs one other writer between a read and
a write, and a second one between the reread and the next attempt; the last
attempt is the second. Three turns are an edit, a press, and one thing that goes
wrong or is typed meanwhile; others' writes and removals are bounded by `MaxRev`
alone, and keys that Flux seeds count as turns. A switch needs one press and one change from elsewhere, with two reads in
flight, in either order. A claim needs a choice, one taker and one break. A poll
needs both menus among the pods and a third answer, which `AGREE` asks for; a
second rollout takes the menu back. Two products of one SKU beside a third are the smallest list that
`pairElements` lines up by row. Two questions in flight and two changes are the
smallest overtaking that could leave an old answer.
`MaxEdits`, `MaxBoots`, `MaxConns`, `MaxFilings`, `MaxTroubles` and the like bound counters that
have no bound in the code; when they are reached nothing more of that kind
happens, which is why deadlock is not checked: a shop with no more orders stops.
Symmetry is used in the two safety runs whose orders or pages are
interchangeable, never with liveness.

### Fairness

* Till: every step of a handler is weakly fair (the menu read has a timeout of
  15 s, the locks guard sections without input or output), and a stopping
  process is replaced by its Deployment. Nothing makes an operator edit.
* Feed: a handler's steps and a page's reading are fair; a write to a dead
  connection fails within a heartbeat. No order has to happen, no broken
  connection has to heal.
* Status: a pass ends (30 s), the ticker ticks or a poke wakes, watches deliver,
  and a handler that counted a use places its order or gives it back. No order,
  edit, failure or restart has to happen. `NoWakeUpLost` needs no fairness: it
  says of a sleeping controller that it has nothing left to do.
* Tally: watches deliver, timers fire, a patch ends within its 30 s, the resync
  runs every minute. A queued round is strongly fair because the queue is first
  in, first out and the one worker is free again and again. Failures, broken
  watches and restarts are bounded and not fair.
* Seats' whys: watches deliver, the worker works, a write ends within its 30 s.
  Troubles are bounded and not fair.
* Editor: requests end, with an answer or without (`WF(Answers)`); events,
  typing and the stream are not fair, so `PressEnds` holds on a page whose stream
  never delivers.
* Room: reads are answered, the timer and the event's debounce run. The steps of a
  press are strongly fair because the two slots for reads, a bound of the model,
  may be full when the ballot switch wants to start its own.
* Storefront: pods follow the menu, the timer runs, requests are answered, and a
  phone that was put away is looked at again.
* Permissions: the timer runs and questions are answered; the watch is not needed.
* List of changes: a person who wants everything back goes on clicking.

### What the findings show

* `FeedReplay`: `coffee_orders.go:43-45` says `seq` lets a reconnecting browser
  tell a replayed record from a new one. The number begins at 1 in every
  process; a page that stays open across a restart takes new orders for replays
  until the numbers pass those it has seen.
* `QuizEcho`: `quiz_tally.go:197` says `openedAt` is set the first time a round
  is seen live and then kept. It is carried from the cache; a second pass before
  the first write is back sets it again.
* `QuizRecreated`: `quiz_tally.go:86` says "Each pin that IS present has to match,
  so a ballot for a deleted round never counts for its same-named successor". The
  patch is by name, without the UID it was computed from. A round goes live, a phone
  votes with its UID as the pin, a pass counts it, and while its patch is on the way
  the round is deleted and made again: the successor's result counts a ballot pinned
  to its predecessor, until the next pass. `Controllers` shows that it is put right.
  A ballot without a pin counts for any round of its name, as the comment says, and
  `OwnBallotsOnly` asks nothing of it.
* `SeatStray`: `docs/authorization.md:281` says the message is copied onto the seat
  only when the request's author is the seat's `spec.claimedBy.username`, and
  `config/crd/seats.yaml:210` calls it the last change "that reached Git with its
  owner's why". The author is compared with the owner of the seat in the cache, and
  the patch names the seat and not its uid (`seat_reconciler.go:176`). When the seat
  changes hands in between, the former owner's why is on the new owner's seat. It
  stays there while the new owner has no why of their own, because nothing found
  clears nothing, and also when theirs was committed earlier (`:167`). Nothing has to
  fail for it.
* `Drafts`: `docs/voting-demo.md:121` says drafts survive reloads, per round. A
  load that is answered loads its draft into the one store of the tab without a
  look at the round now in the link (`AnswerScreen.vue:129`); with two loads
  answered in the other order, the next answer is stored as the other round's.

### Seen while modelling

Behaviours of the code that the models keep and that no document contradicts; a
reader of the code may want to know of them.

* A key typed again while the press that writes it is in flight is dropped after
  the write, and one reverted meanwhile is written empty
  (`AdminScreen.vue:312-315`). `keyErrors` is cleared for the page even when a key
  was refused and the press says it saved (`:326-333`).
* `live.save` may return without an error and without having saved, and the keys
  of that press are then not written (`liveEditableResource.ts:248-251`).
* The database editor keeps the outcome of an earlier press on its line when a
  later CommitRequest is refused; `TrailIsLatest` therefore speaks of every press
  only in the menu editor.
* `pick` of one person that fails after its revoke leaves the old holder shown
  until the next read, and the coffee switch does not look at `busy` before it
  shows a read. Both are why `RoomSettles` says what holds in the end and not at
  every moment.
* One person on two phones may come to hold two seats: nothing but the
  page keeps a person to one.
* With a stream, a late GET may overwrite the streamed menu on the order page.
  `MenuArrives` is therefore stated for menus from a folder. (Read in the code and not
  modelled: an order that is answered empties the cart of what was added meanwhile.)
* A choice on the page of one's seat that is moved back to the look the seat has counts
  as untouched. Made while a change is in flight, it goes with the answer: the pickers
  move on to the look that was sent (`SeatMineScreen.vue:61-74` and `:90`).
* A ballot that is changed to name another round queues the round it names now and
  not the one it named before (`quiz_reconciler.go:126-131`), whose count stays as
  it was until the resync, at most a minute later. TLC finds it with two rounds and
  no resync. Who votes in the room may only create a ballot, and the admission
  policy names it after its round; the operator and Flux are not held to that.
* A seat deleted and made again while its watch is broken arrives as an update,
  which is not queued (`:96`): its why waits for a request's next event (`missed`).
* Lists show the last REST read while their stream reconnects.
* A ballot submitted from a page that was left clears the draft that is loaded by
  then, and moves the tab.

## 4. Proofs

Every invariant and every action property that a passing run checks is also a
theorem, for all values of the constants but where the table says otherwise. The
assumptions are those the modules name: the types of the constants, that a "no
value" constant is none of the values, that there is some look for a seat, and in
`QuizTally` that the "no object" constant is no object (`AbsentAssumption`, which
TLC evaluates on every run). Sets of orders, ballots and requests may be infinite;
where a proof counts, that what is counted is finite is part of its invariant.

| Module | Theorem | States |
| --- | --- | --- |
| `VoucherTillProofs` | `TypeCorrect` | `TypeOK` |
| | `LedgerIsExact` | `CountIsHeld` |
| | `NoVoucherOversold` | `NeverOversold` |
| | `DepletionIsReal` | `DepletedOnlyWhenSpent` |
| | `AnswerComesLast` | `AnsweredIsOnFeed` |
| | `TillKeepsPromise` | `KeepsPromise`, the refinement of `VoucherAllowance` |
| `OrderFeedProofs` | `FeedTypeCorrect` | `TypeOK` |
| | `NothingIsMissed` | `NoHole` |
| | `NothingIsShownTwice` | `NoDuplicate` |
| | `UnbrokenFeedShowsAll` | `NewRecordIsShown`, for a process that is not replaced |
| `CoffeeStatusProofs` | `StatusTypeCorrect` | `TypeOK` |
| | `FirstOrderIsKept` | `FirstOrderKept` |
| | `FirstOrderIsFinal` | `FirstOrderStays` |
| | `ObservedMeansJudged` | `ObservedIsJudged` |
| | `SleepsOnlyWhenRight` | `NoWakeUpLost` |
| `QuizTallyProofs` | `TallyTypeCorrect` | `TypeOK` |
| | `ObservedIsCurrent` | `ObservedMeansCurrent`, while names are fresh |
| | `ObservedIsCurrentOnce` | the same for one round object, nothing assumed |
| | `OwnBallotsCounted` | `OwnBallotsOnly` (ballots with a pin), while names are fresh |
| | `WatchAloneSuffices` | `WatchSuffices`, while names are fresh and ballots keep their round |
| | `WatchAloneSufficesOnce` | the same for one round, nothing assumed |
| `LiveEditProofs` | `EditTypeCorrect` | `TypeOK` |
| | `LiveIsCurrent` | `LiveMeansCurrent` |
| | `NothingOverwritten` | `NoLostUpdate` |
| | `EditsAreKept` | `EditsSurvive` |
| `CommitTrailProofs` | `OutcomeIsOfTheLatest` | `TrailIsLatest` |
| `PagesProofs` | `PartsAreKept` | the tab implements each of its parts |
| | `TabKeepsEdits`, `TabKeepsTheTrail` | the theorems of `LiveEdit` and `CommitTrail`, of the tab |
| | `ListFollowsTruth` | `ListIsTruth` |
| | `ChosenStaysFree` | `ChosenIsFree` |
| | `PickersFollowTheSeat` | `PickersFollow` |

Each proof finds an inductive invariant, which was model-checked first, shows that
the initial states have it and that every action keeps it, and reads the property
off it. What the invariants add to the properties, and why:

**The till.** `IInv` adds that only a request this process accepted is between its
first and last step (`HandlersOwn`), that it was accepted under an edition at or
after the start of the process (`AskedSinceStart`), that a handler that has a menu
has one that was in force since it asked (`SeenInForce`), and that the uses held are
finitely many (`HoldersFinite`). `CountIsHeld` is needed for `NeverOversold`:
`Redeem` compares the count and the property speaks of the holders. `SeenInForce`
turns "the limit of the menu it read" into "a limit that was published". The
refinement uses the same invariant: each action maps to one action of
`VoucherAllowance` or to a stutter, with `Restart` and `Crash` as `Reopen`.
`Recorded`, for the answer, says which requests the feed and the status have heard
of by the step each handler is at.

**The feed.** `NoHole` is about records of this process, on a page that has no other
process's, and rests on the pages' own arithmetic of numbers: a page shows the records of the numbers it has seen, each once
(`PagesGood`), the ring holds the last numbers of this process in their order
(`RingIsRecent`), and an open page has a connection of its own whose handler has not
ended (`Connected`). That no order is shown twice needs more than numbers, because
numbers start again with a process and orders do not: a record of an order, wherever
it still is, was stamped once (`StampedOnce`). With no restart the number of a
record is that of its order (`Unbroken`), which is what `UnbrokenFeedShowsAll` needs
and `FeedReplay` shows to be false otherwise. A page accepts a list record by record
in a recursive function; `AcceptEachKeeps` is proved by induction, from the least
number at which it would fail (`InductionLemmas`).

**The status.** `FirstOrderKept` is not inductive: whether it survives the end of a
pass depends on what the pass took and read before. `Inv` follows the first order
through a pass: no order is named anywhere before it is placed (`PlacedOnly`); what
was read is still there, or the menu is another one (`ReadIsThere`); once published,
it is published by a process that will not clear it (`Published`), and a pass that
took a later order began after that (`TookLater`); a write says the first order if it
took it or came after it (`SaysFirst`), and says only orders of this process
(`OwnOnly`). `SaysAgain` covers the write whose answer was lost: until a pass
succeeds the order is still pending, and the next write says the same. `Inv2` is for
the other two. A generation of a menu is one version of it (`Versions`), a write is a
judgement of the version it names (`WritesJudged`), and no status speaks of a version
to come (`Observed`). `Unpoked` is the argument for lost wake-ups: as long as the
slot of `changed` is empty and no event of the menu is on its way, what a pass read
is still so at each step of the pass, and when it waits again the status is right.
A use that is counted or given back with nobody told is excepted while it is in
hand, and pokes afterwards.

**The tally.** A wire applied to its cache gives the truth (`Followed`), and a
generation of a round is one version of it, of all the copies anybody has
(`Versioned`); a result, on its way or on the round, is of the version it says or of
one before (`ResultsCurrent`). That is all `ObservedMeansCurrent` needs. `Owned` says
the same of uids, for the ballots of a deleted round. For the watches, `Computed` says
that the last result of a live round agrees with the caches unless the round is queued
or waiting; with nothing on the wires the caches are the truth. `NamesAreFresh` is the
hypothesis on names: a round is made only under a name of which no object, event,
cache entry or patch is left. It is what the code does not look at, since it patches by
name: `QuizRecreated` is what happens without it. It holds in every behaviour with one
round object, which the theorems ending in `Once` prove (`NoneYet`), so that they
state what `QuizEdited` checks with nothing assumed. `BallotsNamed` is the admission policy's
naming rule, for any function from names of ballots to rounds.

**The editor.** `EditInv` says that every version the page holds, in its store, on
the wire, in a read or in a patch, is one that was (`History`), that a write is for
the object the page shows (`Aimed`), that the wire's last version is the object as it
is, or with nothing on it the page and every read no event overtook are (`Caught`),
and that what is kept to be copied is what was typed (`Kept`). `History` is what makes
the API server's comparison of version numbers a comparison of contents, on which
`NothingOverwritten` rests; the part of `Caught` about reads is what `LiveIsCurrent`
needs when a read is accepted. The types include that no press makes more than
`SaveAttempts` attempts.

**The trail.** A line that went idle because its stream failed may come back with it,
so `TrailIsLatest` is not inductive. `StreamIsLatest` and `GrantedIsNew` say of every
open stream, and of what was granted and is not followed yet, whose press they are;
`LineIsTrue` that an outcome is that of its request, which is final since a request
ends once.

**The pages.** `PartsAreKept` shows that each step of the tab is a step of one part or
leaves that part's variables alone, so that what is proved of a part by itself holds of
the tab. A list: while its stream is synced, the last event on the way is what there is,
or with none the items are (`Followed`). A chosen place: the choice is kept only while
the map shown has it free (`ChosenKept`), which each step of the map restores by
`Redraw`, and a page that looks for its seat has none yet and looks once (`FoundOnce`),
without which a late answer would move the pickers.

Only model-checked: liveness (`EveryOrderAnswered`, `CatchesUp`, `PlacesFreed`,
`Converges`, `GoesQuiet`, `Heartbeat`, `WhySettles`, `PressEnds`, `RoomSettles`,
`MenuArrives`, `RevertsLeadHome`, `TableSettles`), because fairness and `ENABLED` are
beyond the prover. The functions of `FieldChanges` and `Authorization` are checked
against what they are for over bounded inputs, and the findings by their runs.

## 5. Not modelled

* The sentence on the phone when a why was refused (`whyLost`), and the optional
  fields of forms: display.
* The keys of the settings folder: one loop with one actor and no shared state; it
  would be a model of a backoff.
* Prices and discounts (`coffee_logic.go`, `CoffeeMenu` has the decision without
  them), the individual kinds of questions (`quiz_rules.go`, a constant relation
  in `QuizTally`) and the pages of results: functions of one input, to be stated
  against a reference rather than run.
* The other admission policies: predicates on one request, evaluated by the API
  server. They are guards of the writes they protect.
* Sessions, static files, formatting and configuration hold no state that
  interleaves.
* A second replica is documented as unsupported, and a model of it would show only
  that limits double. How long a drain takes is outside models without a clock: in
  the code a connected stream makes it last its whole timeout.

## 6. Plan

What is left, in this order:

1. Pure modules against reference definitions: `CoffeePricing` (till and page agree
   on every price), `QuizRules` (page and controller agree on every answer).
2. A composition of till, feed and status: an order answered is on every
   connected page, and in the status, in the end.
3. `SettingsKeys`.
4. Proofs: that `Revert` moves a list one difference closer to the server's, for any
   list (`FieldChanges`); that the table of permissions is what the API server would say
   of each verb and key (`Authorization`).
