# backbone-selling: specification and proofs

TLA+ models of the selling module (quotations, sales orders, their fulfilment
and invoicing seams), the TLC configurations that check them on small
instances, and proofs checked by TLAPS. Paths starting with `src/` are those
of the repository, seen from the directory above it (`src/src/...` is Rust
code, `src/migrations/...` the schema). In the tables below
`service/` stands for `src/src/application/service/` and `persistence/` for
`src/src/infrastructure/persistence/`.

## 1. The system

One crate, one PostgreSQL schema, one service object (`SellingWriteService`)
over hand-written repositories. It runs at READ COMMITTED; there is no
optimistic version column, so concurrency is controlled by three devices only:
guarded `UPDATE ... WHERE status IN (...)`, `SELECT ... FOR UPDATE` in the
allocation loops, and triggers that reject undeclared status moves. Everything
outside (stock, costs, projects, billing) is reached through ports or through
events.

| component | state | operations | what is hard |
|---|---|---|---|
| Watermark seams (`service/selling_delivery_seam.rs`, `selling_invoice_seam.rs`, `selling_write_service.rs`) | `sales_orders.status`; per line `quantity`, `delivered_qty`, `billed_qty` | `mark_delivered`, `mark_invoiced`, `sync_delivered_from_moves`, `recompute_order_status` | row locks taken item by item, rollback of a half-done event, deadlocks, a status computed from a stale rollup, absolute figures from the stock engine overwriting increments |
| Invoicing policy and view (`selling_invoice_policy.rs`) | none | `policy_base`, remainders, line/order invoice status | a basis that can fall below what was billed |
| Confirm and cancel engine (`selling_order.rs`, four port files) | order status, cost snapshot, project back-references; the ports keep moves, minted work, activities | `confirm_sales_order`, `cancel_sales_order`, `retry_decrease_activities`, `update_order_line` | three reads and three remote calls before one transaction; two confirms, a cancel or an edit in between; crashes and retries |
| Quotation machine and conversion (`selling_quotation.rs`, `selling_order.rs`) | quotation status and reason, orders naming it | send, accept, reject, cancel, redraft, convert | the conversion is a read, a transaction and an unguarded update |
| Order creation, cart pricing and line edit (`selling_order.rs`, `selling_cart_pricing.rs`, `selling_write_service.rs`) | header figures, line figures | `create_quotation`, `create_sales_order`, `create_sales_order_priced`, `update_order_line` | two roundings of one header, prices finer than the columns, concurrent edits of one order, the confirm's freeze |
| Margin view (`selling_margin.rs`) | none | `order_margin_view` | three reads without a transaction, lines without a cost, two orders of rounding |
| Delivery request and outbox (`selling_delivery_seam.rs`) | `outbox_events` | `build_delivery_request` | two separate reads; stage, commit, publish, with a death between; a relay that repeats |
| Expense re-invoice links (`selling_reinvoice.rs`) | link state | attach, list, mark; generic delete and restore | pre-read against the unique index; the host's pull, post, mark loop |
| Delivery carriers (`selling_carrier.rs`) | carrier records, `delivery_carrier_id` of an order | create, update, `set_order_delivery` | duplicate-name pre-read, a second connection wanted inside a transaction |
| Quotation templates (`selling_quotation.rs`) | template records | create | as carriers |
| Event sink (`selling_events.rs`) | none | `publish` | fire and forget after the commit |
| HTTP routes (`src/src/presentation/http/guarded_routes.rs`) | none | one handler per verb: decode, call, encode | refusals explained by a read made afterwards, answers lost after the commit |
| Generated CRUD, DTOs, entities, sales teams | nine entities, field by field | `POST`, `PUT`, `PATCH`, trash, restore, purge, unguarded | whole rows stored over what was read; rules that see changed fields only |
| Reference consumer (`service/consumer_credit_rule_custom.rs`) | breaches | hears `SalesOrderConfirmed` | told after the commit |
| Seeders, exports | | fixtures, re-exported types | none |
| Schema (`src/migrations`) | CHECKs, unique indexes, transition triggers | | which outcome a race has |

Interactions: an inbound composition forwards `StockDelivered` to
`mark_delivered` and `SalesInvoicePosted` to `mark_invoiced`; the sync pulls
net delivered figures from the stock port; the confirm pulls costs, pushes
stock demand and project work; the cancel pushes a decrease-quantity log; the
conversion calls order creation in the same service; billing adapters pull the
expense links; the inventory side drains the outbox; the generic CRUD surface,
where a deployment mounts it, writes the rows of all of them. They meet in the
order's rows.

What makes it correct: no line delivered or billed past its bounds, however
calls interleave; a status that is earned and moves only along declared
transitions; stamps, launched moves and minted work that agree with the order
that was confirmed; events at most once and never before their flip; an ordered
quotation backed by an order; requests that reach the inventory side once and
cover the order; links acknowledged once; figures that can be recomputed from
their lines and freeze with the confirm; answers that were true and stay true;
every started call returning.

## 2. The modules

    OrderLines          pure rules: bases, capacities, fill in order, rollup, invoice view
      ^         ^
    OrderLedger OrderSeams  (OrderSeams INSTANCEs OrderLedger: refinement)
                  ^      ^
          MCOrderSeams  OrderSeamsProofs

    OrderConfirm  <- MCOrderConfirm   \  MCDocuments <- OrderConfirmProofs
    Quotation     <- MCQuotation      /   (which INSTANCEs the quotation's proofs)
       ^ QuotationProofs

    DeliveryRequests  what a request promises
      ^ INSTANCE, refinement
    DeliveryOutbox  <- DeliveryOutboxProofs   \
    ReinvoiceLinks                             >  MCOrderDesk <- OrderDeskProofs
    CarrierRegistry <- CarrierRegistryProofs  /   (which INSTANCEs the other two proofs)

    Pricing <- DocumentTotals <- MCDocumentTotals, DocumentTotalsProofs

    Entities <- GenericRows  \  MCFrontDesk <- FrontDeskProofs
                Surface      /

Definitions whose comment starts "Wrong on purpose" are faults a programmer
could plausibly introduce. No specification uses them; they exist to show that
each property can fail: with the definition next to them replaced by the fault,
the property listed beside it in `PROJECT.json` is violated.

### OrderSeams (the core)

One order. Committed rows are `status`, `item`, `quantity`, `delivered`,
`billed`; each caller has a program counter and what its call keeps in memory.

| action | code |
|---|---|
| `BeginMark`, `AllocateItem`, `RefuseItem`, `CommitMark` | `mark_delivered` / `mark_invoiced` and their allocation loops; `held` are the rows locked FOR UPDATE, `added` the uncommitted increments, which other calls do not see |
| `Rollup`, `Advance` | `recompute_order_status`: a rollup read and a status write guarded by "still in flight", two statements after the commit |
| `SyncRead`, `SyncWrite`, `SyncNothing` | `sync_delivered_from_moves`: unlocked read, remote call, one UPDATE over the lines the engine reported |
| `EditLine`, `Confirm`, `Cancel` | `update_order_line` on a draft, the confirm's guarded flip, the one-statement cancel with `NOT EXISTS (billed)` |
| `Fail`, `DeadlockVictim` | a call dying between two statements, PostgreSQL aborting one of a waiting cycle |

No seam reads the order's status: a draft is delivered, billed and synced like a
confirmed order, for instance when a confirm has launched its moves and failed
before its flip. So a draft edit may change
the rows a call is about to lock (`item`), the quantity a sync clamps at, and what a
rollup was computed from. Two history variables, which no step reads, record it:
`undercut` has the lines that were edited below one of their watermarks, or below
what a sync under way had read; `outgrown` says whether a line was raised between a
rollup that found the order settled and its status write. `WithinOrdered` and
`RequestedIsBillable` say nothing of undercut lines, `StatusEarned` nothing once
`outgrown`; what the repository says without these exceptions is
`DeliveredWithinOrdered`, which the code does not keep (section 5).

Abstractions. The rows of one item are locked in one step: the statement locks
them in id order, so two calls for the same item cannot deadlock inside it, and
across items the waiting order is kept. The sync's UPDATE is one step and waits
for every row it touches. A line is its id. Monetary columns
are absent; quantities are naturals where the code has NUMERIC. Requested
quantities of zero or less reach the same branches as in the code and are
admitted by the types. The status values `closed` and `expired`, which no verb
writes, are left out, and with them the trigger's move from `to_bill` to `closed`.

### OrderLedger

The promise: every delivery, bill, restatement and recompute in one step.
`ImplementsLedger` is `OrderLedger!Spec` with the committed rows of
`OrderSeams`, and what edits did under them, as its variables. `Settle` is as
permissive as the code allows: where figures only rise and no line is outgrown a
status must be earned, where a sync may lower them the recompute can act on figures
that have since been lowered. `Restate` keeps every line but the undercut ones within
what is ordered.

### OrderConfirm

One order around its ports. `ReadLines`, `ResolveCosts`, `ReadDemand`,
`Launch`, `ReadService`, `Mint`, `CommitConfirm`/`RefuseConfirm`,
`PublishConfirmed` are the steps of `confirm_sales_order` in order, a separate
action wherever another request can run in between; `Cancel`,
`PublishCancelled`, `LogDecrease` those of `cancel_sales_order`; `RetryDecrease`
re-enters the log. The stamps and the guarded flip are one transaction. The
ports' records (`move`, `minted`, `told`) are external, modelled from the port
contracts: a launch and a mint are all-or-nothing and idempotent per line, and
a mint reports earlier outcomes. `Fail` covers a refused port, a lost answer
and a crash, at any step, before or after the port did its work. A cost is
identified by the item it was resolved for; an item without a cost is not
told apart. Downpayment lines, which no port sees, are absent. Whether a billed line
refuses the cancel is OrderSeams' subject; here every open order can be cancelled.
`disturbed` is a history variable: was a line edited while a confirm was
running, or after one had launched or minted something?

### Quotation

One quotation. `Send` ... `Redraft` are the guarded updates, `Publish` the
event after each, `BeginConvert`, `CreateOrder`/`RefuseNumber`,
`MarkOrdered`/`MarkRefused` the three steps of the conversion. Lines of a
quotation cannot be changed through the mounted routes, so the copied figures
are left to DocumentTotals; its creation is the initial state. The reason of a
rejection or a cancel may be given or not. `MayFail` says whether calls may die.

### DeliveryOutbox and DeliveryRequests

| action | code |
|---|---|
| `ReadHeader`, `ReadRemainders` | `build_delivery_request`'s two statements: the header, refused in draft only, and the remainders |
| `Stage`, `Publish` | the outbox transaction and the in-process publish after its commit |
| `Fail` | a death between any two |
| `HandOver`, `MarkDispatched` | the relay: it hands a record over as often as it takes and marks it afterwards; the consumer keeps the ids it has handled (`inbox::once`). External, after `src/src/domain/event/declared.rs:11` and `:124` |
| `EditLine`, `Confirm`, `Cancel`, `Deliver` | what the order's other verbs change of the two reads |

`DeliveryRequests` is the promise: a request is staged in one step, covers what
is left of every line and nothing that was not ordered, and is handled at most
once. `ImplementsRequests` is its specification with `outbox` for `requests`.
Drafts are delivered, too, and a line may then be edited below what was delivered:
only what is positive is read (`Remainder`). Deliveries only rise here: the stock
engine's restatements are OrderSeams' subject, and what one of them reopens is asked
for by a later request.

### ReinvoiceLinks

`BeginAttach`, `ReadDuplicate`, `Insert`/`InsertRefused` are the three statements
of `attach_expense_reinvoice`; only the last is backed by an index. `SoftDelete`
and `Restore` are the entity's generic service. `Pull`, `Post`, `Mark`/`MarkRefused`
and `FailAdapter` are a billing adapter after the contract in the header of
`service/selling_reinvoice.rs`: external but for the mark, which is
`mark_expense_reinvoice_invoiced`. `billed`, `acked`, `refused` count posts and answers per link;
`mishaps` records what has gone wrong so far (an overlap, a death, a deletion), since what
the code can promise depends on it.

### CarrierRegistry

Carriers and templates are rows of two kinds: they share the pre-read
(`BeginCreate`) and the insert. `Rename` is `update_delivery_carrier`, which reads
no name first. `decorated` says whether the tenancy decorator is composed: it
brings the unique index on names and binds one connection to a request.
`BeginSetDelivery`, `BeginTransaction`, `WriteDelivery`, `WriteRefused`, `Classify`
are `set_order_delivery`. `Held` counts the connections: one for each open
transaction, and where the decorator is composed one more for each running request.
A decorated request wants a second connection for its transaction, an undecorated
one wants a second to classify a refusal while its transaction is open. Whoever waits
gets a connection or gives up (`AcquireTimeout`). The pool has at least two
connections, since a decorated request cannot open a transaction in a smaller one.
`raced` is history: have two creations overlapped, or was a name taken
over by a rename or a restore?

### Pricing and DocumentTotals

`Pricing` has the money rules: `PricedRow` and `Totals` are `price_document`,
`CartOffer` the way from the pricer's net back to a price and a discount,
`ShownByLines` and `ShownByRollup` the two margins. What a caller asks is in mills (a tenth of a
cent), what the columns hold in cents, so a price can be finer than its column.
Quantities are whole, the rate a whole percent, the midpoint rounds away from
zero as in the code.

| action | code |
|---|---|
| `CreateQuotation`, `CreateOrder`, `CreateFromCart` | creation: header and lines in one transaction |
| `Convert` | the conversion's pricing of the stored figures |
| `EditLine`, `SumUp`, `CommitEdit`, `RollBack` | `update_order_line`: locking read and line update, header sum in SQL, commit |
| `Confirm`, `PublishConfirmed` | the flip with its costs and the total it returns; the event to the credit rule |
| `Cancel` | the cancel's statement |
| `ViewHeader`, `ViewLines`, `ViewRollup` | the three reads of `order_margin_view` |

### Surface

A client at a time takes a verb through its commit, its classifying read and its
answer; `reply` is the code, `HttpStatus` the line it is sent with. One quotation
and the orders under a few numbers stand for all. `FlipQuotation` with
`ClassifyQuotation` are the five quotation verbs, `ConvertQuotation`,
`ConvertCreate`, `ConvertMark` the conversion, `ConfirmOrder`, `PortRefuses`,
`FlipOrder` the confirm, `CancelOrder`, `ClassifyCancel`, `LogDecrease`, `LogFails`,
`RetryDecrease` the cancel. `Complete` is the seams' recompute finishing an order,
`Bill` an invoice posted for it. `EditLine`, `Sync`, the views and `Elsewhere` stand for
the verbs whose rows other modules model: what they may answer, and whether they have
committed anything when they do. A patch that asks nothing is answered 200 before
anything is looked up, whatever it names (`"nothing"`), and a sync that finds no line
or gets no figure answers 200, too, having written nothing. `Fail` is a statement that
fails (a 500), `Vanish` a process that dies or an answer that is lost. `promised`,
`owed` and `lost` record what clients were told. Of the order's states, those in
flight are one, and `closed`, which no verb writes, is left out; of its lines, it
matters whether one is billed.

### Entities and GenericRows

`Entities` lists, for the nine generated entities, which fields they are built
from, which a rule guards, which a `POST`, `PUT`, `PATCH` reads and which a read
shows. `GenericRows` takes one row and one field of it through that surface and
beside the verbs: `Read` then `Put`/`Patch` then the store of the whole row, with
`RefusedAtUpdate` looking at what changed and `TriggerAllows` and the CHECK at what
is stored. Rules are per field, so one field at a time loses nothing. Which of the
framework's statements write the state column is not in this repository: `writesState` is
either.

### The desks

`MCOrderDesk` puts the outbox, the links and the carriers side by side, `MCFrontDesk`
the verbs and the rows, `MCDocuments` a quotation up to its order and an order
around its ports, which share no row. Inside a desk the parts share at most the order's status, and
a step of one that leaves it alone is a stuttering step of the others; `open`
says which part moves in a behaviour, the others stay at their start. For the order's
desks this is a theorem (`SideBySide`, section 4): each sees the others as its own
`Confirm` and `Cancel`, or not at all, so what is shown of one desk holds of the three.
Section 4 carries the quotation's theorems over to `MCDocuments` in the same way.

## 3. The runs

| run | instance | shows |
|---|---|---|
| SeamsNoSync | 3 lines (a downpayment, one billed on delivery, one on order), 2 items, quantities 1 and 2, requests naming both items in either order, 2 callers, failures; 2,896,228 states | with deliveries only rising, on drafts and confirmed orders: the status is earned and a completed order shows nothing left to invoice, unless outgrown; a request asks to bill exactly what the writer has room for, unless undercut |
| SeamsSync | 2 lines, quantities 0 and 2, the same requests, a stock engine answering anything in 0..3, failures; 617,985 states | no line that was not undercut is delivered or billed past what is ordered, each bill is within the basis of its moment, the calls implement the ledger |
| SeamsLive | 2 lines, quantity 2, a stock engine, no failures, fairness; 69,536 states | opposite lock orders never hang a call; an order that stays delivered and billed ends completed or cancelled |
| Documents | order: 1 line, 2 quantities, stocked and service items, 2 callers; quotation: 2 clients, 2 order numbers, fairness; failures in both; 763,672 states | stamps appear with the flip only and never change; each event at most once; the decrease log follows a cancel; without an edit under the confirm the moves, ids and costs are those of the line. An ordered quotation is backed by an order; a reason belongs to its state; while nobody has withdrawn or died, the conversion looks atomic at rest, ends ordered, and its acceptance was announced |
| OrderDesk | requests: 2 callers, 1 line, 2 quantities, 2 records; links: 2 attaching clients, 2 adapters, 1 expense, 2 links, 3 billing runs; registry: 2 callers, 2 names, 2 rows, a pool of 2; deaths; 245,288 states | staged requests reach the consumer, and the outbox implements requests handled once; a link is acknowledged once, surplus posts meet refusals, one clean adapter posts an expense once; names stay unique as far as the code can see to it; requests that wait for each other's connections return |
| Totals | 2 lines, 2 editors, 1 viewer, patches of each figure, prices with three decimals, a rate of 11%; 2,936,781 states | the header is what the lines come to; figures freeze with the confirm; a conversion comes to what was quoted, a cart to its net; views begun after the confirm agree; the credit rule flags the right orders |
| FrontDesk | verbs: 2 clients, 1 number, failing statements, deaths, lost answers; rows: one field of each sort, 2 updates in flight; 758,358 states | an ok was earned, or nothing was asked; a refusal committed nothing, and what it names still holds when it is read; what was answered ok is not taken back; a cancel whose log failed is told in the end; a late store adds no break and moves no finished document |
| Claim... | as above | statements of the docs that the code does not keep: section 5 |

Why the bounds are enough. Every race here is between two calls, or between a call
and a single-statement verb, which needs no caller: two callers give all
pairs, with any number of verbs around them. Two items are what a lock cycle
needs, and three lines what differing policies on one item need. Quantity 2
separates "some" from "all"; with 1 beside it an edit can go below a watermark, or
raise a line; 0 is accepted by the schema and checked because
`bool_and` and the capacities treat it specially. `MaxQty` bounds what is
ordered; deliveries and bills are bounded by the capacities themselves, so nothing is
cut off; the engine's answer goes one past `MaxQty` so that the clamp acts. In
`OrderConfirm` one line suffices for the runs: the ports answer per line and
no statement relates two lines. `Quotation` needs two order numbers, since two
conversions collide on one number and do not on two. An order has one outbox
record per call, so two records are two requests in flight or one after the other;
no property relates two lines of a request. Two links of one expense are a link and the one that
replaces it after a deletion; three billing runs let a dead one be retried
beside another. Two connections and two refused calls are a pool held against
itself. In `Totals` a second line is what an edit can miss in its sum, one price and one discount
finer than a cent what a column can lose. In `FrontDesk` one number is enough: the
verbs of two orders share nothing, and two conversions under two numbers are
`Quotation`'s subject. Clients name ids that exist, or one that does not; calls that
neither disturb nor are disturbed (`Alone`) run while no other does. `Sort` lists
all that `GenericRows` knows of a field (its machine, whether it is guarded,
optional, written unvalidated by a verb), so one field of each sort stands for the
rest. `MaxRequests`, `MaxLinks`, `MaxBills` and `MaxRows` guard the starting step of a
call, never a later one: no call is cut off half-way.

Symmetry is used in the two runs of the seams without liveness only: over callers, and
over items, which their requests name alike. Deadlock is checked
everywhere except where a system at its end has nothing to do: an ordered
quotation (Documents), a cancelled order without room for more (OrderDesk), a
cancelled order that has been viewed (Totals).

Fairness. A call that was started runs on, since tokio polls a ready future
and the database answers: weak fairness on each step of a call. Steps that
wait for row locks get strong fairness: PostgreSQL queues waiters and grants
in order, so a call whose lock is released again and again is eventually
served. Deadlock victims are chosen fairly (the detector runs). No client is
ever obliged to start a call. SeamsLive excludes failures because a
call that dies mid-way is not resumed by anything: the code has no retry of its
own; `Quotation` instead speaks of behaviours in which nobody has died. The
relay polls for as long as there is a record (weak fairness per record, with
deaths of the calls that staged them). In the registry a call that waits for a connection gets one or times out (weak
fairness of the call: one of the two is always possible).
On the surface a running call goes on (weak), and a client that was answered
`decrease_activity_failed` retries until a log gets through: the comment at
`src/src/presentation/http/guarded_routes.rs:386` makes that the caller's duty, and
strong fairness of the retry and of a log that succeeds is what "until" means.

## 4. What is proved

`OrderSeamsProofs` proves, for every set of lines, items, callers, requests
and quantities, assuming only `LinesAssumption` and `CallsAssumption` (lines
are a finite set of naturals, the flags are Booleans, ordered quantities lie
in `0..MaxQty`):

| theorem | statement |
|---|---|
| TypeCorrect | `Spec => []TypeOK` |
| Invariance | `Spec => []IInv` |
| WatermarksBounded | `[]WithinOrdered`, sync, draft edits and crashes included |
| StatusIsEarned | without sync, `[]StatusEarned` (a completed order shows nothing left to invoice included) |
| BillsStayWithinBasis | `BillsWithinBasis`, an action property |
| OnlyDeclaredMovesHappen | `OnlyDeclaredMoves`, an action property |
| ImplementsTheLedger | `Spec => ImplementsLedger` |
| RequestsAreBillable | without sync, `[]RequestedIsBillable` |

"Without sync" is `~MovesSynced`, the port the module ships (`NoStockFulfillmentPort`
answers no sync): where a stock engine takes deliveries back, both statements fail of
the code (section 5).

The bounds are not inductive: that a commit stays within the ordered quantity
depends on what the allocation read several steps earlier. `IInv` adds what
carries that knowledge:

- `LockInv`: two transactions never hold the same row, and an uncommitted
  increment sits on a row its transaction holds;
- `AddedFits`: such an increment still fits the row's room, because whoever
  could use up the room needs the lock (a sync can lower `delivered`, which only
  enlarges the room of a delivery; the basis of a bill cannot be lowered under the lock);
- `CallInv`: what a call has in memory matches its program counter;
- `BoundInv`: watermarks stay in `0..MaxQty`;
- `WatermarkInv`: on a line that is not undercut, what a sync under way clamps at is
  within what is ordered now, so its write keeps the bound;
- `RisingInv`: where nothing lowers a watermark, a status computed by a
  stale rollup is still true when it is written, unless an edit has raised a line in
  between (`outgrown`), so it is true afterwards;
- `BasisInv`: in the same setting a line is billed within its policy's basis, since the
  basis a bill was measured against shrinks by an undercutting edit only. Then no other
  line has a negative capacity,
  and the request's sum over remainders is, row by row, the writer's sum over capacities.

One lemma per conjunct shows that every step preserves it; `LedgerStep`
maps each step to a ledger step or a stutter (`CommitMark` to `Deliver` or
`Bill`, `SyncWrite` to `Restate`, an effective `Advance` to `Settle`, statements
that only read or lock to stuttering).

`OrderConfirmProofs`, for every set of lines, items and callers, with port
refusals and crashes. Its leaves use `ConfirmAssumption` (stocked and service
items are items, quantities are naturals, NULL is not an item).

| theorem | statement |
|---|---|
| ConfirmTypeCorrect | `Spec => []TypeOK` |
| DraftsAreUnstamped | `Spec => []DraftUnstamped` |
| DecreaseFollowsCancel | `Spec => []DecreasedOnlyWhenCancelled` |
| StampsAreFrozen | `Spec => StampsFrozen`, an action property |
| ConfirmedAsOrdered | `[]KeepsTheOrder`: launched, minted and stamped as ordered |
| EventsComeOnce | `[]AnnouncedOnce` |
| DocumentTypesHold | `DocumentsSpec => []DocumentsTypeOK` |
| QuotationsHold | of `DocumentsSpec`: what `QuotationProofs` shows of a quotation |

What a confirmed order looks like was decided steps earlier, by calls that may
have died since, so `ConfirmedAsOrdered` needs an invariant about calls and ports.
Once a line is edited under a confirm its parts promise nothing; until then:

- `CommittedInv`: a draft has no stamp, and a call that has flipped an order to
  cancelled finds it cancelled, because no step leads back;
- `IdleClean`, `ReadInv`: a call between two runs remembers nothing, and what a
  running one has read is what the lines still order;
- `PortInv`: moves and minted work are those of some line as it is ordered,
  whichever call, alive or dead, caused them;
- `PassedInv`: a call past its launch has a move for every stocked line, one
  past its mint has every service line reported;
- `ConfirmedInv`: the three statements themselves, so that a commit, which
  finds `PassedInv` true of its call, establishes them.

`EventsComeOnce` counts instead: `AnnounceInv` says that an event is neither heard
nor due before its flip, and after it is due of one call at most and of none once heard.

The last two theorems are about `MCDocuments`. A step of the composition is a step of the
quotation or leaves its variables alone, and likewise for the order, so its behaviours
are behaviours of both, and the theorems of either hold of it.

`QuotationProofs`, for every set of callers and order numbers, without assumptions:

| theorem | statement |
|---|---|
| QuotationTypeCorrect | `Spec => []TypeOK` |
| OrderedIsBacked | `Spec => []OrderedHasOrder` |
| OrderedIsFinal | `Spec => OneWayDoor`, an action property |
| ReasonsFit | `Spec => []ReasonFitsState` |
| ConversionsLookAtomic | `Spec => []ConvertedTogether` |
| AcceptancesAreAnnounced | `Spec => []AcceptanceAnnounced` |

The mark looks at the status only. `MarksFollowOrders` (a call standing before
its mark has created its order, and no order is ever taken away) carries
`OrderedHasOrder` over it. The last two speak of behaviours in which nobody has
withdrawn the quotation and no call has died; `Undisturbed` says what holds as long
as that is so, and nothing once it is not: a conversion under way stands on an
accepted quotation, an order is followed by an ordered quotation or by a call
that is about to mark it.

`DeliveryOutboxProofs`, under `OutboxAssumption`:

| theorem | statement |
|---|---|
| OutboxTypeCorrect | `[]TypeOK` |
| AnnouncedIsStaged | `[]HeardIsStaged` |
| RequestsCoverTheOrder | `[]RequestsCover` |
| OutboxImplementsRequests | `Spec => ImplementsRequests` |

A request is two reads and a later statement. That it still covers the order
when it is staged rests on the draft check: `NoDraftCall` (no call is under way
on a draft, so quantities are frozen from the first read on) gives `AskedCovers`
(what a call has read covers the order at any later moment), and the step lemma of
the refinement maps `Stage` to `Request`, `HandOver` to `Handle` and the reads to
stuttering. `RecordStaged` carries `HeardIsStaged` over the publish.

`CarrierRegistryProofs`, under `RegistryAssumption`:

| theorem | statement |
|---|---|
| NamesStayUnique | `[]NamesUnique` |
| CarriersAreCarriers | `[]CarrierIsCarrier` |

`Lone` (with no index, and as long as calls do not overlap, at most one creation
is past its pre-read and its name is unused) is what makes the pre-read enough;
`AskedIsCarrier` carries what was read of the carrier over the transaction.

`OrderDeskProofs`, for the three desks at work on one order, under `DeskAssumption`
(the assumptions of the three modules):

| theorem | statement |
|---|---|
| OneLinkEach | `Spec => []OneLiveLink` (the links alone) |
| AcknowledgedOnce | `Spec => []MarkedOnce` |
| SurplusIsRefused | `Spec => []SurplusSurfaces` |
| NoDoubleBill | `Spec => []BilledOnce` |
| SideBySide | `DeskSpec => Requests!Spec /\ Spec /\ Carriers!Spec` |
| DeskTypesHold | `DeskSpec => []DeskTypeOK` |
| DeskNamesUnique | `DeskSpec => []NamesUnique` |
| DeskLinksSound | `DeskSpec => [](MarkedOnce /\ SurplusSurfaces /\ BilledOnce)` |
| DeskImplementsRequests | `DeskSpec => ImplementsRequests` |

Posts and marks of a link are steps of different moments, so the invariant of the links
keeps accounts: `Counted` (while no adapter has died, the posts of a link are its
acknowledgements, its refusals and the adapters about to mark it) and `Clean` (while
nothing has gone wrong there is one adapter, and what it holds is live and pending), over
`Unique` (the index) and `Unseen` (nothing is counted for a link that is not there).

`SideBySide` says that the composition loses nothing: whatever a desk does to the status is
one of `Moves` (nothing, the confirm, a cancel), and each of the other desks allows that
move as an action of its own. The order's verbs want a connection of the carriers' pool;
`AtRest` says that they find one in a pool of two or more, because no carrier call is
under way where another desk is at work. With it the theorems of `DeliveryOutboxProofs` and `CarrierRegistryProofs`,
instantiated as the desks instantiate the modules, are theorems of the composition.

`FrontDeskProofs`, under `FrontDeskAssumption` (the assumptions of both halves), for any
clients, order numbers, generic callers and fields:

| theorem | statement |
|---|---|
| RowTypeCorrect | `Spec => []TypeOK` (the generic rows) |
| NoNewBreaks | `Spec => []BreaksAreOld` |
| FinishedForever | `Spec => FinishedStays`, an action property |
| DeskTypeCorrect | `DeskSpec => []DeskTypeOK` |
| AnswersAreTrue | `DeskSpec => []AnswersTellTheTruth` |
| RefusalsOutliveTheRead | `DeskSpec => []RefusalsStand` |
| PromisesAreKept | `DeskSpec => []PromisesStand` |

The generic rules compare with a read that may be old, so the invariant of the rows speaks
of the reads, too: `ReadsAreOld` (a break that a running update has read is an old one) and
`ReadsHaveRow`.

A refusal of a verb is worded by a second read, in another statement than the one that
refused, and an answer travels while other clients go on. Two facts carry it. `VerbInv`
says of every call, at each of its steps, what it has established (`ClientSound`: a call at
its log names a cancelled order, one at its mark has created its order, one classifying has
committed nothing) and of every answer what it rests on (`AnswerSound`, with `OkSound`
what an ok means verb by verb: what a convert, confirm, cancel or retry announces is in
the rows, a patch that asked nothing has committed nothing, a sync may have or not).
`Grows` says how rows move whoever acts: an ordered quotation is final, a completed or
cancelled order stays what it is, an order is not forgotten and does not become a draft
again, bills and logs are not undone. All
that `ClientSound` rests on is closed under `Grows` (`ClientStands`), so a step disturbs no call but its
own, and there is one lemma per action for that one. The properties follow from `VerbInv` in any state.

`DocumentTotalsProofs`, for every finite set of lines, every number of edits and views,
every offer, patch and tax rate, under `TotalsAssumption`:

| theorem | statement |
|---|---|
| FiguresSound | `[]TotalsInv`, the inductive invariant |
| FiguresAlwaysAgree | `[]FiguresAgree` |
| CreditIsWatched | `[]CreditWatched` |
| FiguresFrozen | `Spec => FrozenOnceConfirmed`, an action property |
| QuotedIsOrdered | `Spec => ConvertedAsQuoted`, an action property |
| TotalsTypeCorrect | `[]TypeOK`: no subtotal, tax, amount or margin leaves its type |
| ViewsAgree | `[]ViewAgrees` |
| CartsReproduced | `Spec => CartReproduced`, an action property |

The lemmas about `Money` (whole mills stay whole, a column read back rounds to
itself) give `PricedIsRow` and `PricedAgain`: what is priced rederives, and a row that
rederives, priced again, is the row it was. `OneEdit` says that an edit under way is
the only one and its order a draft; with it `EditSound` knows at the sum what the commit
will make of the order. Where a step changes
no amount (an edit of the item alone, the confirm's costs) `SameAmounts` says the totals are the same.

The last three theorems look into the sums. A sum over a set of lines is computed by a
recursive function, so what it comes to needs induction over finite sets. The
library's induction theorem takes the induction hypothesis as an operator, which the
provers cannot instantiate; it is replaced by a smallest counterexample: the subset
relation on a finite set is well founded, so a set of subsets that is not empty has a
smallest member (`SmallestSet`, from `WFMin`), and a sum that fails does not fail first there.
This gives that sums exist and are unique (`SumsExist`, `SumsAgree`), that a sum over fewer
lines is a restriction of the larger one (`SumsRestrict`), that they keep the types of
their summands (`SumTypes`) and that sums of numbers that lie close lie close
(`SumsWithin`). The last is the margin's claim: each line is rounded by half a cent at most, so the
sums differ by half a cent a costed line, and the rollup's own rounding. `FullInv` is
`TotalsInv`, `TypeOK` and, for every viewer, `ViewSound`: what a view begun on a confirmed
order has read so far is what the rows still hold, by the freeze.

Only model-checked is the liveness, since fairness and ENABLED are beyond the prover:
`CallsReturn`, `DoneOrdersComplete`, `ConvertedIsOrdered`, `AnnouncedIsHandled`,
`CancelledIsTold`. Every other property of the passing runs is stated by a theorem above. Nothing is
claimed by proof about how many elements `FillInOrder` of OrderLines has, nor about what its
`Total` comes to: the proofs use what the definition states directly (the amount taken
from each row is at most its capacity), and that two totals of equal rows are equal.

## 5. Where the code and what is said of it differ

These have a run that reaches the state; `PROJECT.json` quotes the lines.

- **More can be delivered than is ordered** (ClaimWatermarkBound).
  `service/selling_delivery_seam.rs:219-220` has `delivered_qty <= quantity` as an
  invariant; the seams do not read the status and the draft edit does not read the
  watermarks, so a delivered draft can be edited below what was delivered.
- **A cancelled order can be billed** (ClaimCancelUnbilled). The cancel looks
  at committed `billed_qty` without locking the lines and `mark_invoiced` does
  not look at the status: a bill that arrives later is committed (the trace of the
  run), and so is one in flight at the cancel.
- **The status can contradict its watermarks** (ClaimStatusFollows). Two
  recomputes read in one order and write in the other; nothing runs again.
- **A line can be stamped with another item's cost** (ClaimNeverWrongCost).
- **A confirmed order can lose its quotation** (ClaimOrphan). A cancel between
  the conversion's read and its mark makes the trigger refuse the mark; the order is
  there and is confirmed. No call dies in this run.

Seen while modelling, without a run of their own:

- A sync that lowers a delivery between another call's rollup and its status
  write lets the order rest in `completed` undelivered, and `completed`
  is not in flight, so nothing corrects it (`src/docs/adr/ADR-003-order-status-model.md:41`).
- An order that was delivered and billed as a draft and is then confirmed shows
  `to_deliver_and_bill` until some later call recomputes it; with everything done
  there may be none. `DoneOrdersComplete` speaks of orders that were not done as drafts.
- A recompute that found a draft settled and writes after an edit has raised a line and
  the order was confirmed claims more than is earned (what `outgrown` exempts).
- A cancel may commit, with its decrease log, between a running confirm's reads of the
  draft and its launch: the moves are launched afterwards, the flip is refused, and
  nothing takes the moves back. `DecreasedOnlyWhenCancelled` does not look at moves.
- A delivery-policy line refunded after its bill has been billed past what is
  delivered (`service/selling_invoice_policy.rs:17-18` reads as a standing bound;
  it holds at the moment of billing).
- A downpayment line of the same item absorbs a delivery: the fill does not
  skip it (`persistence/sales_order_item_repository.rs:252-253` says it is never delivered).
- An order with downpayment lines only never leaves `to_deliver_and_bill`:
  `bool_and` over no row is NULL and read as false.
- A line edited to a stocked item after the confirm has read its demand is
  confirmed without a move (`service/selling_stock_fulfillment.rs:181-182`).
- Two conversions of one quotation with different order numbers create two
  orders; a conversion whose quotation leaves `accepted` after the read still
  creates its order (`src/docs/BRD.md:44`).
- `build_delivery_request` refuses `draft` only; its comment says "not
  draft/cancelled" (`service/selling_delivery_seam.rs:74`). `ConfirmedOnly` in DeliveryOutbox states it.
- After a refund, or a draft edit below what was billed, a line can have a negative
  capacity, which the writer nets against another line of the item and the request does not: a
  requested bill is then refused.
- A price finer than a cent is charged at its own precision and stored in two
  decimals: the line does not re-derive from its row, and a conversion prices it
  anew. `EveryAmountRederives` in DocumentTotals states what fails.
- A cart whose nets are finer than a cent, or above the gross, is not reproduced by the
  order's own pricing (`service/selling_order.rs:124-125` says exactly): `EveryCartReproduced`.
- A `tax_rate` with more than four decimals is applied in full at creation and as
  `NUMERIC(9,4)` after an edit: an edit that changes no figure can move the header.
- A classifying read that fails is answered like a quotation that is not there
  (`service/selling_quotation.rs:211-228`): a 404 about a quotation that exists.
- A cancel that commits and whose answer is lost, or is a 500 at the log, leaves a caller
  whose repeated cancel is refused as an invalid transition; the stock side hears of it
  only if somebody thinks of the retry verb.
- A conversion that dies between its order and its mark cannot be finished: its
  number is refused for ever, and another number makes a second order.
- A break of a generated rule is documented to answer 422
  (`service/sales_order_service.rs:36-38`); the error type beside the handler
  (`src/src/presentation/http/sales_order_handler.rs:36-79`) maps it to 400, and nothing uses that type.
- A 200 may stand for nothing at all: an all-`None` line patch is `Ok` even for a line
  that does not exist (`service/selling_order.rs:659-661`), an empty carrier patch for any
  carrier (`service/selling_carrier.rs:71-73`), and a sync without lines or figures for any
  order (`service/selling_delivery_seam.rs:237-239`, `:267-269`). The doc comment says so
  of the line patch.
- On an undecorated deployment nothing but a pre-read keeps carrier and template
  names apart: `src/migrations/20260911130000_strip_tenancy.up.sql:107` and `:113` drop
  the indexes.
- On the generic surface a late whole-row store puts back the other fields as they
  were read, and a `PATCH` value that does not parse is left out without a word.
  If the framework's UPDATE writes the state column, a store between two open states can
  undo a verb's move where a way back is declared.

## 6. What is not modelled, and the plan

Not modelled: tenancy (the scope is relayed on every transaction and decided
outside this module); event contents beyond what a consumer of the module reads; the
percentages of the margin view; the exports (re-exported types); the domain repository
traits and the builders and patch types that no route uses; the seeders; and code
without a caller (`advance_billed_from_invoice` and `list_for_invoice` in
`persistence/sales_order_item_repository.rs`, `find_invoice_source` in
`persistence/sales_order_repository.rs`). List, filter and pagination handlers only read.
The framework's own statements under the generic surface are external and appear
as what the code in `src/` relies on.

Done: every module of section 2 has its runs, and every property of a passing run that
is not a liveness property has its proof. Next, by how much depends on each:

1. That `FillInOrder` has exactly one element when the rows can hold what is asked and none
   when they cannot, as the loop of the two allocations computes it, by a smallest
   counterexample like the sums of DocumentTotals.
2. An abstract specification of Surface (a verb that is one step and its answer) with the
   statement-by-statement one as its refinement.
3. The same for the conversion: where nobody withdraws and no call dies it is one step.
