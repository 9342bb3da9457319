# Splitwise-QUIC: specification, model checking and proofs

This directory specifies the core of the expense tracker in TLA+: how an
expense is divided into shares, how the ledger is stored, how a settle-up plan
is computed, how changes are broadcast, and what an open page shows. TLC checks
each module on small instances; TLAPS proves the most important properties for
every instance. Line numbers refer to the sources in `src/`.

## The system

A Go server over HTTP/2 and HTTP/3 with one SQLite database. A browser posts
forms; the handler writes through the store, appends to the activity feed and
publishes an event to an in-memory hub; open pages listen on an SSE stream and
on WebTransport sessions and fetch their live regions again.

| Component | State | Operations | Interacts with |
|---|---|---|---|
| `splits.Compute` (`internal/splits/compute.go`) | none | divide a total in four modes | called by the store before every create and edit |
| `splits.Simplify` (`internal/splits/simplify.go`) | two heaps for one call | net balances to transfers | called by the store for the balances page |
| store: expenses, settlements (`internal/store/expenses.go`) | tables `expenses`, `expense_shares`, `settlements` | create, edit, delete, settle, list | SQLite transactions, foreign keys |
| store: balances (`internal/store/balances.go`) | none | several queries, then arithmetic | reads what the store writes, with no transaction |
| `realtime.Hub` (`internal/realtime/hub.go`) | map of topics to channels, RWMutex | Subscribe, unsubscribe, Publish | handlers publish; stream goroutines subscribe |
| stream handlers (`internal/handlers/realtime.go`) | one goroutine per connection | forward events until the client leaves | hub, browser |
| mutating handlers (`internal/handlers/actions.go`, `expense_edit.go`, `comments.go`) | one goroutine per request | check, store call, activity entry, publish, redirect | store, hub |
| live page (`group.html`, `app.js`, `handlers/partials.go`) | what the regions show, requests under way | fetch on load and on events | streams, partial handlers |
| edit form (`expense_edit.go`, `expense_form.html`, `buildInputs`) | what the fields show | fill in from the stored shares, submit | `splits.Compute` |
| receipts (`handlers/receipts.go`) | files, `receipt_path` | save, serve | create, edit and delete handlers |
| start and shutdown (`main.go`, `internal/server/server.go`) | two goroutines, two listeners, the channel of signals | serve, shut down | everything |
| schema migration (`internal/db/db.go`) | the tables, one added column | run at every start | start, store |
| accounts, sessions (`handlers/auth.go`, `store/store.go`) | tables `users`, `sessions`, the cookie | sign up, log in, log out | browser |
| groups, members, comments | rows | single statements (CreateGroup: a transaction) | handlers, feed, hub |
| export, rendering, TLS certificate, `h3check` | none | pure I/O | |

What is hard here, and what has to be right:

* **Compute**: integers of 64 bits and whole cents. The shares must add up to
  the total, rounding must be fair, overflow must be noticed.
* **Simplify**: partly paid accounts re-enter the heaps. The plan must be short,
  must never overshoot, and the loop must end on unbalanced input too.
* **Store**: several statements per request, concurrent writers, foreign keys
  that fail in the middle, lock waits that time out, crashes. A request must
  take effect whole or not at all.
* **Balances**: several queries without a snapshot beside those writers.
* **Hub**: subscribers come and go while publishers range over the map; a
  channel must not be written to after it is closed, and a slow client must
  stop nobody.
* **Live page**: dropped events, lost connections, requests that cross changes.
  A page must not stay behind unless it has really missed something.
* **Settle-up page and edit form**: what they submit was computed earlier. Plans
  are paid in any order, twice, or after others have changed the balances; an
  edit form shows amounts that may be read back as percentages or weights.
* **Receipts**: a file is overwritten in place and its path is stored
  afterwards, by concurrent requests that may fail or die in between.
* **Process**: a migration interrupted anywhere, signals at any moment, two
  goroutines that end the process independently, accounts and sessions that are
  written and handed to the browser in several steps.

`PROJECT.json` lists the hazards one by one with the properties that cover them.

## Modules

| Module | Models | Role |
|---|---|---|
| `Splits` | `compute.go` | the loops, one action per iteration, with the width of the integers |
| `DebtPlan` | | abstract: transfers that never exceed what both sides have outstanding |
| `Simplify` | `simplify.go` | the greedy loop; refines `DebtPlan` |
| `AtomicLedger` | | abstract: a request takes effect once, in one instant |
| `Ledger` | `expenses.go`, `balances.go`, `db.go`, handlers | statements, the write lock, crashes, a reader; refines `AtomicLedger` |
| `PubSub` | | abstract: recipients fixed in one instant, each served or full |
| `Hub` | `hub.go`, `handlers/realtime.go` | locks, map, channels; refines `PubSub` |
| `LiveView` | handlers, partials, `group.html`, `app.js` | the page against the database |
| `SettleUp` | `actions.go:143-176`, `balances.go` | extends `Simplify`: the payments made from a plan |
| `EditForm` | `expense_edit.go`, `expense_form.html`, `buildInputs` | extends `Splits`: what a stored expense's own form submits |
| `Receipts` | `receipts.go`, `actions.go:89-103`, `expense_edit.go:112-141` | files and path of one expense |
| `Server` | `main.go`, `server.go`, `db.go`, `auth.go`, `store.go` | the process, its shutdown and restarts, the schema, the logins |
| `Sums` | | the sum of a function over a finite set |
| `MC*` | | the instances TLC checks |
| `*Proofs` | | the theorems and their proofs |

The modules lean on each other by assumption: `Ledger` takes bills whose shares
sum to the amount (`BillsAssumption`, `SharesSumAssumption`), which
`SplitsProofs!SharesMakeABill` proves of every call whose sum does not wrap;
`Simplify` takes any net balances, whether or not they are what `Ledger`'s
reader computes; `LiveView` publishes in one step, which `Hub` shows to be
sound by implementing `PubSub`; `Receipts` changes the row in one step, which
`Ledger` shows to be sound by implementing `AtomicLedger`. `SettleUp` and
`EditForm` are compositions in one module: the state and the actions of the
algorithm, and the requests that come after it.

### Splits

`call` holds the arguments; `pc` names the loop. `Enter` is every guard of
`Compute` up to the switch; `EqualShare`, `AddValue`, `Allot`, `GivePenny` are
one iteration of the loops of `equal`, of the three summing loops, of the
quotient loop and of the penny loop of `proportional`; the `...End` actions are
the code after each loop. `Wrap`, `Quotient` and `Remainder` are Go's operators
on `-MaxInt-1..MaxInt`; `Overflows` is the guard at line 180. `prefix` and
`given` are history variables: the unwrapped sum of the values and what has
been handed out. Participants come in the order of the form, which is that of
the members' names (`store/groups.go:102`); values are parsed exactly below 2^53,
beyond which a float64 would round. The leftover cents of an equal split go to
the first participants (`EqualShare`), so it does depend on their order, and the
comment at `compute.go:91` ("independent of participant ordering") holds only
because the form's order is always the same.

### Simplify

`cred` and `deb` give each person's amount in the two heaps (0: not there).
`container/heap` is external and appears as "some largest element"
(`Largest`), so every order of ties is covered. `Pair` is one iteration,
`Return` the exit; an account is pushed back exactly when something remains.

### Ledger

`db` is the committed database, `work` what the holder of the write lock
(`tx`) sees, `pc` and `todo` where each request is. `Arrive` is the handler up
to the store call, with the existence check of an edit; then come
`BeginCreate` or `BeginUpdate`, `DeleteShares`, one `InsertShare` per
participant, and `Commit`. `ForeignKeyFails` is the rollback when a payer, a
participant or a party to a settlement is not registered (the handlers take
these ids from the form as they are, `actions.go:67, 81, 154-155`) or when the
expense is gone; for a participant it may come after other shares.
`StorageFails` is an I/O error of any statement or of the commit, and `Busy` the
lock wait that ends in an error. `Delete` and `Settle` are single statements. A
participant whom the form names twice never gets here: `Compute` refuses it
(`compute.go:66-72`). `ListExpenses`, one `ReadShares` per expense,
`ReadSettlements` and `Respond` are the queries of one `Balances` call. `Crash`
discards the transaction and every request under way. SQLite is external, as the
code relies on it: one writer from its first write statement, readers see the
last commit.
Bills leave out receipts and comments.

### Hub

A subscriber goes through `Subscribe`, `LockToJoin`, `Register`, `Receive`...,
`Unsubscribe`, `LockToLeave`, `Unregister`, `Close`; a publisher through
`Publish` (RLock), `StartRange`, one `Send` per channel, `EndPublish`. A
publisher is a client that waits for each answer: its requests, and the calls
they make before they are answered, come one after the other.
`sync.RWMutex` is external: a waiting writer holds new readers back, and Unlock
lets them in. Map iteration order is a nondeterministic choice. Sending on a
closed channel sets `panicked`.

### LiveView

`db` counts the writes of the ledger and of the activity feed; a region shows
the versions its handler read, query by query (`Read`, then `Swap`), so the
balances region, whose handler reads the ledger twice
(`partials.go:38-43`), can be torn. Handlers go through `Commit`,
`AttachReceipt`, `LogActivity`, `Publish`. `Connect`, `Forward`, `Disconnect`
are the SSE handler, `Receive` and `ReceiveDatagram` the page's triggers. A
datagram may arrive at any time: it is an event, or the greeting of the user's
session, which is reopened every three seconds (`app.js:239-261`). htmx and
EventSource are external; what is used of them is stated at the head of the
module. `Fault` bounds failures of every kind.

### SettleUp

`Settle(k)` posts the form of the `k`-th transfer of a page that shows the plan;
`due` are the balances the database amounts to, `posted` the forms already sent.
A form may be posted again, and `OtherCommit` is any commit by somebody else;
both set `outdated`. The handler checks nothing against the plan, so
`PlanStaysGood` says exactly how far the code's promise reaches: until then the
forms not yet posted are right, in whatever order they are paid.

### EditForm

`Resubmit(st)` opens the form of an expense that `Compute` has just divided and
submits it with nothing changed except, perhaps, the split method: `Prefilled`
is what the field shows (the share's amount with two decimals,
`expense_edit.go:46-56`) and how `buildInputs` reads it back under `st`: cents,
basis points or whole weights. `Compute` then runs a second time. An equal or
exact expense keeps its shares. Under percentages the amounts add up to 100 %
only when the total is 100.00, where they mean the same; otherwise the edit is
refused. Under shares the amounts are rounded to whole weights and the expense
is divided anew, even one that was divided by weights before: the shares 0.67
and 0.34 become the weights 1 and 0, and then 1.01 and nothing. The comment "a
sane default otherwise" (`expense_edit.go:46`) is too kind here. Whole units are
kept; of other shares only the order of who owes more is left, to a cent
(`WeightsFormKeepsOrder`).

### Receipts

One expense, its `row` (absent, without a path, or with one), the upload
directory `disk`, and any number of create, edit and delete requests.
`OpenFile` truncates (os.Create), `CopyPart` writes the next part at the
request's own offset, `CopyEnds` returns the file name; `OpenFails` and
`CopyFails` are the error paths, after which create and edit go on without a
picture. `StoreCreated` is SetReceipt, whose error is ignored; `StoreUpdated` is
UpdateExpense, which may refuse the edit after its picture has replaced the old
file. Either ends in `Attach` (the row is written) or `LeaveRow`. `LookUp` and
`ServeFile` are the two steps of a download. `Crash` ends every request.
`completed`, `attached` and `spoiled` are histories: the names whose copy was
once complete, the request whose picture the path was last set for, and the
names whose last upload overlapped another, failed, died, was refused after its
copy or could not set its path. An error of the file's deferred Close is ignored
by the code and left out here.

### Server

`main` is the main goroutine from the migration (`CreateTable` ...,
`AddColumn`, with the "duplicate column" error it ignores) through `SpawnServe`,
`Notify`, `WaitForSignal` and `ReceiveSignal` to the three parts of Shutdown
(`CloseQuic`, `StopTcp`, `DrainEnds`) and `Exit`. `serve` is the goroutine of
ListenAndServe; `ServeFatal` is the log.Fatalf that follows any error it gets,
also the one a shutdown causes. `Signal` kills the process before Notify and
fills a channel of one afterwards. `End` is the end of the process however it
comes about; the database and the browsers' cookies stay. `Start` is the
container's restart. Requests go through `Arrive`, the statements of their
handler one by one, and `Answer`, which is when the browser gets or loses its
cookie; `AnswerLost` is an answer that does not arrive. Password hashing,
cookie attributes and the listeners' protocols are external or data.

## What TLC checks

| Run | Instance | Distinct states |
|---|---|---|
| `simplify` | four people, every net balance in -4..4, balanced or not, then payments from the plan | 611 062 |
| `splits` | up to three participants, totals 0..6 and 31, values -1..5 and 31, all modes, 6-bit integers, 100 % = 5, then the edit form | 126 520 |
| `ledger` | two people and a stranger, two expenses, two currencies, three concurrent requests of any kind, a reader, one crash anywhere | 177 424 |
| `hub` | two publishers (three calls and one), two connections, two topics, channels of one event | 186 592 |
| `live_view` | two mutating requests (one with a receipt), two regions, channel and wire of one event, one fault | 751 222 |
| `receipts` | three requests of any kind on one expense, two picture types, pictures of one or two parts, a download, one crash | 278 402 |
| `server` | three requests of two browsers on one account, over either lane, a schema of two tables, two faults | 558 436 |

* `simplify`: no pair twice (`NoPairTwice`), at most n+m-1 transfers
  (`TransferBound`), payments from the largest to the smallest (`LargestFirst`),
  the smaller side is always cleared (`ClearsDebt`), every transfer is covered
  by what both sides have outstanding (`ImplementsPlan`), the loop ends
  (`Terminates`), and the page can be paid off form by form (`PlanStaysGood`).
* `splits`: no cent is lost or invented (`SharesSumToTotal`), the penny loop
  never runs out of takers (`EveryPennyHasATaker`), the result is the
  largest-remainder allocation (`LargestRemainder`) and fair (`FairRounding`);
  an edit form saved unchanged keeps the shares, or is refused, as long as its
  values are not read as weights (`UnweightedFormKeepsShares`); read as weights
  it keeps whole units of money, and of other shares their order to a cent, but
  not the shares (`WeightsFormKeepsOrder`).
* `ledger`: an expense is always one request's whole work (`WholeExpenses`), the
  stored ledger nets to zero (`LedgerNetsToZero`), an expense deleted between an
  edit's check and its update stays deleted (`NoResurrection`), a reader is
  unbalanced only by an edit or deletion (`ReadUnbalancedOnlyByEdits`),
  `ImplementsAtomicLedger`.
* `hub`: `NoSendOnClosed`, `NoWriteDuringRange`, `RegistryExact` (no leak, no
  silent subscriber), `PublisherOrder`, `ImplementsPubSub` (also: only one's own
  full buffer costs one an event), `CallsReturn` (no call blocks although no
  client reads).
* `live_view`: a region that is behind has its refresh coming, or has missed an
  event or an answer (`StaleOnlyIfMissed`): events dropped by a full channel,
  merged triggers, torn reads and crashes included. Regions never go back
  (`NeverBackwards`) and keep catching up (`CatchesUp`).
* `receipts`: a path, on the page or in a download under way, always leads to a
  file that was once completely received (`AttachedAfterUpload`), and it is the
  whole picture of the request that set the path, unless the last upload under
  that name was disturbed (`PictureIsTheAttachedOne`). The code does
  disturb it: an edit that is refused has already replaced the old picture
  (`expense_edit.go:126-131`), and two uploads that overlap are both reported as
  stored while the file is a mixture. The model has both, and the next
  undisturbed upload repairs the file; nothing is claimed of it before.
* `server`: no request meets an incomplete schema (`SchemaCompleteWhenServing`),
  a browser's cookie names a stored session of a registered user until a logout
  with it arrives (`LoginSurvives`), the server comes up again once faults are
  over (`ComesUp`), and a process told to stop ends (`StopsWhenAsked`).

Five runs end in a counterexample, each a statement of the repository that the
code does not keep:

* `simplify_minimal`: the plan is not always "a minimal set of transfers"
  (`simplify.go:34`); n+m-1 is an upper bound.
* `ledger_torn_read`: the page's nets may fail to sum to zero while the stored
  ones do, so a non-zero sum is not proof of "a data integrity violation
  upstream" (`simplify.go:64-66`).
* `splits_wrap`: the values' sums are not guarded against overflow
  (`compute.go:118, 135, 151`), so shares need not sum to the total
  (`compute.go:53`).
* `live_view_settled`: a change between a region's first fetch and the opening
  of the stream is never made up for ("instant UI refresh", `README.md:163`).
* `server_graceful`: closing the listeners makes ListenAndServe return, and
  log.Fatalf (`main.go:73`) ends the process with status 1 while tcp.Shutdown
  still waits for its requests; database.Close is skipped. The comments speak of
  a graceful shutdown (`main.go:77`, `server.go:140`).

Further, `BYDEV.md:201` says that the script ignores SSE when WebTransport is
available; the page keeps the stream (`group.html:2`) and both trigger
refreshes, which is how `LiveView` has it.

### Bounds, and why they are enough

* `MaxInt = 31` with totals and values of at most 6, and 31 itself: products
  fall on both sides of the guard `Overflows`, and 31 meets its boundary and
  that of `Wrap`; the proofs cover every width. `splits_wrap` needs 4 bits only.
  Three participants are the fewest with a remainder of two cents and a tie.
  `FullBps = 5` and `MinorUnits = 2` (10000 and 100 in the code) are small enough
  for totals below, at and above 100 %.
* Four people are the fewest whose plan can be longer than necessary and
  whose accounts are pushed back on both sides. After the page is outdated one
  commit of one cent stands for all others, since `PlanStaysGood` claims nothing
  from there on.
* `BufCap = 1` (16 in the code): a second event already overflows it. A channel of
  zero would be a different protocol.
* Three requests on two expenses: create, edit and delete of one expense can
  overlap in every order. One crash: a second one finds the state of a first.
  One stranger: a bill has it beside a registered participant, as the payer, and
  a settlement as a party, so every foreign key to users fails somewhere.
  Requests and expenses are interchangeable, as are requests and picture types
  in `receipts`, and the properties of these runs name none of them: symmetry is
  sound, there is no liveness in them.
* Two handlers and one fault in `LiveView`: one change can hide behind the
  other's event, and every kind of fault meets every state. Two regions: one
  read twice, one from the feed; the expenses region is the first with one query.
* `Parts = 2`: a copy can be overtaken in its middle, and a shorter picture can
  follow a longer one. Three requests: two uploads and a deletion, or a creation
  beside two edits. Two types: an upload can leave the other's file behind.
* `Tables = 2` (nine tables): a migration can die before, between and after its
  statements. Two faults: a restart can be interrupted in its turn. A signup, a
  second signup or login, and a logout or stream are the overlaps of one
  account; further accounts meet only in the table.

### Fairness

`Simplify` is a sequential loop: weak fairness of `Next`; payments are claimed
to be safe, never to happen. `Hub`: weak fairness of every step of a goroutine
inside Publish, Subscribe or unsubscribe and of the mutex towards its waiter;
none for `Receive`, joining or leaving, which depend on clients. `LiveView`: weak
fairness of handlers that have begun, of `Forward` and `Receive` (a stream that
is up delivers) and of requests under way; none for datagrams, reconnecting or
faults. `Server`: weak fairness of the two goroutines and of the container's
restart (`docker-compose.yml`, `deploy/k8s.yaml`); none for requests, signals or
faults, which are bounded. `Ledger`, `Splits` and `Receipts` claim no liveness: a lock wait may
end in an error, a copy may never end.

## What is proved

For every value of the constants, under the named assumptions of each module.

| Module | Theorems | Inductive invariant |
|---|---|---|
| `SimplifyProofs` | `TypeCorrect`, `PlanIsClean`, `BoundHolds`, `PlanFalls`, `PlanRefined`, `PlanClearsDebt`, `SettlingKeepsThePlan`, `FormsStayGood` | each transfer exhausts one side (`OneExhausted`), people stay on the side they began on (`SidesKept`), and the transfers made plus the accounts left stay within n+m (`TransferBudget`). For the order: no two accounts still open could settle more than any transfer so far (`Falling`). For the debt: what creditors and debtors have left differs by the sum of the balances (`Balance`). For the payments: see below (`SettleInv`) |
| `SplitsProofs` | `TypeCorrect`, `GuardedProductFits`, `PenniesAreTaken`, `RoundingIsLargestRemainder`, `RoundingIsFair`, `ReturnedSharesSum`, `SharesFitInt64`, `EveryCallIsSound`, `SharesMakeABill`, `FormsKeepShares`, `WeightsKeepOrder` | one clause per loop: the unwrapped running sum, `total*P(i) - (denom-1)*i <= denom*assigned <= total*P(i)` in the quotient loop, and as many participants consumed as pennies given. For the rounding (`Fairness`): each division loses less than a cent and nothing when it comes out even, so the leftover is at most the number of participants with a fraction, and those already served come before all others (`RoundInv`). For the slice: its amounts add up to what has been handed out (`OutSum`), and each is an int64 (`Fits`). For the edit form: see below (`EditInv`) |
| `HubProofs` | `TypeCorrect`, `NeverSendOnClosed`, `RegistryAlwaysExact`, `RangeIsUndisturbed`, `OnePublishersEventsInOrder`, `HubImplementsPubSub` | the mutex (`LockInv`), a range visits registered channels only (`RangeInv`), closed channels are out of the map (`ClosedInv`). For the order: whatever a subscriber has of a publisher is older than the call that may still reach it (`BehindInv`) |
| `LedgerProofs` | `TypeCorrect`, `ExpensesStayWhole`, `DeletionIsFinal`, `LedgerImplementsAtomicLedger`, `StoredLedgerNetsToZero`, `OnlyEditsUnbalanceAPage` | the transaction's copy differs from the database in its own expense only, by exactly the statements done so far (`TxInv`), and nothing of it is left after an error (`LockInv`); ids of creations are distinct and unused until their commit (`FreshInv`). For a page: without an edit or deletion meanwhile, what a reader has listed and read is still what is stored (`ReadInv`) |
| `LiveViewProofs` | `TypeCorrect`, `StaleMeansMissed`, `PageMovesForward` | `StaleOnlyIfMissed` itself, with: a region without a request has read nothing (`IdleInv`), and a request never reads what is older than what is shown (`OrderInv`), without which an answer could replace current data |
| `ReceiptsProofs` | `TypeCorrect`, `PathsLeadToPictures`, `PictureIsWhatWasAttached` | what a request has at each point (`Stages`); a completed file stays, and a path names a completed one (`Received`); a file that is not spoiled has one upload under way and exactly the parts it has copied, or none and, if the row names it, the picture of the request that set the path (`Sound`) |
| `ServerProofs` | `TypeCorrect`, `SchemaIsComplete`, `LoginsSurvive` | a stage of the migration ends only when its part is there (`SchemaInv`); a request that knows its user or has its session, and a browser with a cookie, have them stored or are being logged out (`SessionInv`, `CookieInv`) |

The refinements map initial states to initial states and each step to a step
or a stutter; each rests on the invariant of its module.

**Sums.** Half of the properties add something up: shares, balances, payments.
`Sums!SumOver` is a fold of the community modules, whose recursion is a CHOOSE
of a function; `SumProofs` shows that this function exists and that the sum does
not depend on the order in which elements are taken out (`SumRemove`), and from
there what the other modules cite: sums are additive (`SumPlus`, `SumSplit`),
monotone (`SumAtMost`, `SumPart`), strictly so (`SumTight`), change by one term
(`SumUpdate`), a sum over places is one over the people in them
(`SumRenamed`), and a table whose rows cancel has columns that cancel
(`ColumnsCancel`). The induction runs over the subsets of a finite set as "among
the sets not yet covered there is a least one", a fact about a well-founded
relation, since the library's induction theorems take an operator and no
installed prover can instantiate them.

**Why the ledger nets to zero.** An expense credits its payer with its amount and
debits its participants with shares that sum to it; a settlement moves an
amount from one to the other. Each row of the table "expense by person" cancels,
hence so do the sums of its columns, which are the balances (`WholeNetsToZero`).
This applies wherever every expense is whole: to the database by
`WholeExpenses`, to a page by `ReadInv`.

**Why a plan can be paid in any order.** `SettleInv` says that the positions
`Simplify` had in mind are what the transfers lead to from the original balances
(`Positions`) and that `due` is the original balance with the posted forms
counted in (`Followed`). All of one person's transfers go the same way
(`SidesKept`), so a form's amount is one term among others of the same sign of
what is still to be paid, and at most what its sender owes.

**Why an unchanged form keeps the shares.** `EditInv` carries everything proved of
one call over to the next: the fields are what `Prefilled` makes of the stored
amounts (`FormOf`), these are natural numbers that sum to the total, and so the
running sum of the second call is bounded by the first total and never wraps
(`NeverWraps`, for shares that did not wrap themselves). Exact amounts add up, hence are accepted (`Accepted`). Under
percentages an accepted form has a total of exactly 100.00; every quotient is at
least the old share, and two lists of the same sum with one below the other are
equal (`SumTight`). Under weights nothing like it holds in general: the
rounding to whole units is monotone, so that with `FairRounding` the order
remains, to a cent; and where all amounts are whole units, the total is the sum
of the weights in these units (`SumScale`), every division comes out even and
the shares remain (`WeightsKeepOrder`). The theorems cover what the run cannot reach: any number
of participants and amounts up to the width of the integers.

The assumptions: constants have the shape the code gives them; capacities are
positive; `NoOne`, `NoRow` and the like are not ordinary values; people and
expense ids are finitely many (`FiniteAssumption`); payments are positive
(`PaymentsAssumption`, the guard of `settle`); in `Ledger` the shares of a bill
sum to its amount, which `SharesMakeABill` shows of `Compute`.

Only model-checked, not proved: every liveness property (`Terminates`,
`CallsReturn`, `CatchesUp`, `ComesUp`, `StopsWhenAsked`), since fairness and
ENABLED are outside the prover. Every safety invariant and action property that a
passing run checks is a theorem.

## Not modelled

* Form parsing (`parseMoney` and the like): the models take the values it can
  produce. Text, templates, layout: no state.
* Exports (`export.go`): CSV and PDF layout of what `Ledger`'s reader reads; they
  inherit its torn reads and add no state of their own.
* The rows of groups and members: single statements, and CreateGroup's
  transaction has the form of `Ledger`'s; their feed entries and events are
  `LiveView`'s.
* TLS certificates, QUIC tuning, `h3check`: cryptography, configuration and a
  diagnostic client.
* The WebTransport handshake: a session that does not open is one that never
  subscribes.
* A picture is parts and a type; its type comes from the extension the handler
  chooses. The browser's cache of receipts is outside the program.
