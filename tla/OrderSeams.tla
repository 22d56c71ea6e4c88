----------------------------- MODULE OrderSeams -----------------------------
(***************************************************************************)
(* One sales order and the concurrent calls that move its two watermarks:  *)
(* mark_delivered and mark_invoiced (the inbound handlers of StockDelivered*)
(* and SalesInvoicePosted), sync_delivered_from_moves, the draft line edit,*)
(* the confirm flip and the cancel.                                        *)
(*                                                                         *)
(* The database runs READ COMMITTED.  A call is a sequence of statements;  *)
(* between any two of them other calls may run.  An allocating transaction *)
(* locks an item's rows FOR UPDATE, keeps its increments to itself until it*)
(* commits, and then recomputes the order's status in two further          *)
(* statements: the rollup read and the guarded status write.  A call may   *)
(* fail between any two statements (the process dies, the connection drops,*)
(* the database aborts a deadlock victim): what was committed stays, the   *)
(* rest is rolled back.                                                    *)
(***************************************************************************)
EXTENDS OrderLines, Sequences

CONSTANTS
    Callers,      \* requests in flight at once
    Requests,     \* what one mark call may carry: sequences of [item, qty]
    Quantities,   \* ordered quantities a draft line may be given
    MovesSynced,  \* does a stock engine answer the sync (NoStockFulfillmentPort does not)
    MayFail       \* may a call die between two statements?

ASSUME CallsAssumption ==
    /\ Requests \subseteq Seq([item : Items, qty : Int])
    /\ Quantities \subseteq Qty
    /\ MovesSynced \in BOOLEAN
    /\ MayFail \in BOOLEAN

VARIABLES
    \* committed rows
    status,     \* sales_orders.status
    item,       \* per line, sales_order_items.item_id
    quantity,
    delivered,
    billed,
    \* per caller
    pc,         \* where the call stands
    mark,       \* which watermark its open transaction advances
    todo,       \* the (item, qty) pairs still to allocate
    added,      \* uncommitted increments of its transaction
    held,       \* rows its transaction has locked
    ordered,    \* the quantities a sync read before asking the stock engine
    next,       \* the status its rollup computed
    \* history that no step reads: what edits did under the seams
    undercut,   \* lines edited below a watermark, or below what a sync may still write
    outgrown    \* was a line raised between a rollup that found it settled and its write?

rows == <<status, item, quantity, delivered, billed>>
calls == <<pc, mark, todo, added, held, ordered, next>>
edits == <<undercut, outgrown>>
vars == <<rows, calls, edits>>

Steps == {"idle", "allocate", "sync", "rollup", "advance"}
Watermarks == {"delivered", "billed"}

TypeOK ==
    /\ status \in Statuses
    /\ item \in [Lines -> Items]
    /\ quantity \in [Lines -> Qty]
    /\ delivered \in [Lines -> Nat]
    /\ billed \in [Lines -> Nat]
    /\ pc \in [Callers -> Steps]
    /\ mark \in [Callers -> Watermarks]
    /\ todo \in [Callers -> Seq([item : Items, qty : Int])]
    /\ added \in [Callers -> [Lines -> Nat]]
    /\ held \in [Callers -> SUBSET Lines]
    /\ ordered \in [Callers -> [Lines -> Qty]]
    /\ next \in [Callers -> Statuses]
    /\ undercut \in SUBSET Lines
    /\ outgrown \in BOOLEAN

Init ==
    /\ status = "draft"
    /\ item \in [Lines -> Items]
    /\ quantity \in [Lines -> Quantities]
    /\ delivered = NoQty
    /\ billed = NoQty
    /\ pc = [c \in Callers |-> "idle"]
    /\ mark = [c \in Callers |-> "delivered"]
    /\ todo = [c \in Callers |-> <<>>]
    /\ added = [c \in Callers |-> NoQty]
    /\ held = [c \in Callers |-> {}]
    /\ ordered = [c \in Callers |-> NoQty]
    /\ next = [c \in Callers |-> "draft"]
    /\ undercut = {}
    /\ outgrown = FALSE

-----------------------------------------------------------------------------
(* Single-statement and single-transaction verbs.                          *)

\* Wrong on purpose: a single-row write does not wait for the row's lock.
UnlockedAlways(l) == TRUE

Unlocked(l) == \A c \in Callers : l \notin held[c]

\* Would q of line l be less than a watermark, or than what a sync under way
\* clamps its answer at?
Undercuts(l, q) ==
    \/ delivered[l] > q \/ billed[l] > q
    \/ \E c \in Callers : pc[c] = "sync" /\ ordered[c][l] > q

\* Would q of line l be more than a status write under way was computed for?
Outgrows(l, q) ==
    /\ q > quantity[l]
    /\ \E c \in Callers : pc[c] = "advance" /\ next[c] \in {"to_bill", "completed"}

\* update_order_line on a draft: the line and its header are locked together,
\* so the edit waits for the line and sees the status it is checked against.
\* It looks at neither watermark.
EditLine(l) ==
    /\ status = "draft"
    /\ Unlocked(l)
    /\ \E i \in Items, q \in Quantities :
          /\ item' = [item EXCEPT ![l] = i]
          /\ quantity' = [quantity EXCEPT ![l] = q]
          /\ undercut' = IF Undercuts(l, q) THEN undercut \cup {l} ELSE undercut
          /\ outgrown' = (outgrown \/ Outgrows(l, q))
    /\ UNCHANGED <<status, delivered, billed, calls>>

\* The guarded flip at the end of confirm_sales_order.
Confirm ==
    /\ status = "draft"
    /\ status' = "to_deliver_and_bill"
    /\ UNCHANGED <<item, quantity, delivered, billed, calls, edits>>

\* One statement: it sees the committed rows only, and locks none of the lines.
Cancel ==
    /\ status \in InFlight \cup {"draft"}
    /\ \A l \in Lines : billed[l] = 0
    /\ status' = "cancelled"
    /\ UNCHANGED <<item, quantity, delivered, billed, calls, edits>>

-----------------------------------------------------------------------------
(* mark_delivered and mark_invoiced.                                       *)

\* The composition forwards an event about the order.  Neither handler reads
\* the order's status: a draft is delivered and billed like any other.
BeginMark(c, w, request) ==
    /\ pc[c] = "idle"
    /\ pc' = [pc EXCEPT ![c] = "allocate"]
    /\ mark' = [mark EXCEPT ![c] = w]
    /\ todo' = [todo EXCEPT ![c] = request]
    /\ UNCHANGED <<rows, edits, added, held, ordered, next>>

\* Forget the call: its transaction, if it has one, is rolled back.
Abandon(c) ==
    /\ pc' = [pc EXCEPT ![c] = "idle"]
    /\ todo' = [todo EXCEPT ![c] = <<>>]
    /\ added' = [added EXCEPT ![c] = NoQty]
    /\ held' = [held EXCEPT ![c] = {}]
    /\ ordered' = [ordered EXCEPT ![c] = NoQty]
    /\ next' = [next EXCEPT ![c] = "draft"]
    /\ mark' = [mark EXCEPT ![c] = "delivered"]
    /\ UNCHANGED <<rows, edits>>

ItemRows(i) == {l \in Lines : item[l] = i}

\* Capacity as the locking read computes it: on the latest committed row plus
\* the transaction's own increments.
Capacity(c, l) ==
    IF mark[c] = "delivered"
    THEN DeliveryCapacity(l, quantity, delivered) - added[c][l]
    ELSE BillingCapacity(l, quantity, delivered, billed) - added[c][l]

Capacities(c, locked) == [l \in locked |-> Capacity(c, l)]

\* Nobody else has locked a row that c's next allocation needs.
CanLock(c) ==
    \A d \in Callers \ {c} : held[d] \cap ItemRows(Head(todo[c]).item) = {}

AllocateItem(c) ==
    /\ pc[c] = "allocate" /\ todo[c] # <<>>
    /\ CanLock(c)
    /\ LET request == Head(todo[c])
           locked  == ItemRows(request.item)
           cap     == Capacities(c, locked)
       IN  /\ request.qty <= Total(cap, locked)
           /\ \E take \in FillInOrder(locked, cap, request.qty) :
                 added' = [added EXCEPT ![c] =
                             [l \in Lines |-> IF l \in locked THEN @[l] + take[l] ELSE @[l]]]
           /\ held' = [held EXCEPT ![c] = @ \cup locked]
    /\ todo' = [todo EXCEPT ![c] = Tail(@)]
    /\ UNCHANGED <<rows, edits, pc, mark, ordered, next>>

\* OverDelivered / OverBilled: the whole call is refused, items already
\* allocated included.
RefuseItem(c) ==
    /\ pc[c] = "allocate" /\ todo[c] # <<>>
    /\ CanLock(c)
    /\ LET request == Head(todo[c])
           locked  == ItemRows(request.item)
       IN  request.qty > Total(Capacities(c, locked), locked)
    /\ Abandon(c)

Plus(f, g) == [l \in Lines |-> f[l] + g[l]]

\* Wrong on purpose: the transaction is left open after its last write.
CommitMarkKeepingLocks(c) ==
    /\ pc[c] = "allocate" /\ todo[c] = <<>>
    /\ delivered' = IF mark[c] = "delivered" THEN Plus(delivered, added[c]) ELSE delivered
    /\ billed' = IF mark[c] = "billed" THEN Plus(billed, added[c]) ELSE billed
    /\ added' = [added EXCEPT ![c] = NoQty]
    /\ pc' = [pc EXCEPT ![c] = "rollup"]
    /\ mark' = [mark EXCEPT ![c] = "delivered"]
    /\ UNCHANGED <<status, item, quantity, todo, held, ordered, next, edits>>

CommitMark(c) ==
    /\ pc[c] = "allocate" /\ todo[c] = <<>>
    /\ delivered' = IF mark[c] = "delivered" THEN Plus(delivered, added[c]) ELSE delivered
    /\ billed' = IF mark[c] = "billed" THEN Plus(billed, added[c]) ELSE billed
    /\ added' = [added EXCEPT ![c] = NoQty]
    /\ held' = [held EXCEPT ![c] = {}]
    /\ pc' = [pc EXCEPT ![c] = "rollup"]
    /\ mark' = [mark EXCEPT ![c] = "delivered"]
    /\ UNCHANGED <<status, item, quantity, todo, ordered, next, edits>>

-----------------------------------------------------------------------------
(* sync_delivered_from_moves.                                              *)

\* The unlocked read, whatever the order's status; with no line to sync the
\* call returns at once.
SyncRead(c) ==
    /\ MovesSynced
    /\ pc[c] = "idle"
    /\ Owed # {}
    /\ pc' = [pc EXCEPT ![c] = "sync"]
    /\ ordered' = [ordered EXCEPT ![c] = quantity]
    /\ UNCHANGED <<rows, edits, mark, todo, added, held, next>>

\* Wrong on purpose: the answer is stored without the clamp.
SyncWriteUnclamped(c) ==
    /\ pc[c] = "sync"
    /\ \E reported \in SUBSET Owed \ {{}} : \E net \in [reported -> 0..MaxQty + 1] :
          /\ \A l \in reported : Unlocked(l)
          /\ delivered' = [l \in Lines |-> IF l \in reported THEN net[l] ELSE delivered[l]]
    /\ ordered' = [ordered EXCEPT ![c] = NoQty]
    /\ pc' = [pc EXCEPT ![c] = "rollup"]
    /\ UNCHANGED <<status, item, quantity, billed, mark, todo, added, held, next, edits>>

\* The engine's answer: net figures (delivered minus to-refund) for the lines
\* it reports on.  Each is clamped at the quantity read before the call and
\* replaces the stored watermark.
SyncWrite(c) ==
    /\ pc[c] = "sync"
    /\ \E reported \in SUBSET Owed \ {{}} : \E net \in [reported -> 0..MaxQty + 1] :
          /\ \A l \in reported : Unlocked(l)
          /\ delivered' = [l \in Lines |->
                 IF l \in reported
                 THEN IF net[l] > ordered[c][l] THEN ordered[c][l] ELSE net[l]
                 ELSE delivered[l]]
    /\ ordered' = [ordered EXCEPT ![c] = NoQty]
    /\ pc' = [pc EXCEPT ![c] = "rollup"]
    /\ UNCHANGED <<status, item, quantity, billed, mark, todo, added, held, next, edits>>

\* No figure at all, a port error, or a negative net refused by the CHECK.
SyncNothing(c) == pc[c] = "sync" /\ Abandon(c)

-----------------------------------------------------------------------------
(* recompute_order_status, after the transaction has committed.            *)

\* Wrong on purpose: the two rollup columns are read in the other order.
RollupSwapped(c) ==
    /\ pc[c] = "rollup"
    /\ next' = [next EXCEPT ![c] =
          NextStatus(DeliveredAll(quantity, delivered), BilledAll(quantity, delivered, billed))]
    /\ pc' = [pc EXCEPT ![c] = "advance"]
    /\ UNCHANGED <<rows, edits, mark, todo, added, held, ordered>>

Rollup(c) ==
    /\ pc[c] = "rollup"
    /\ next' = [next EXCEPT ![c] =
          NextStatus(BilledAll(quantity, delivered, billed), DeliveredAll(quantity, delivered))]
    /\ pc' = [pc EXCEPT ![c] = "advance"]
    /\ UNCHANGED <<rows, edits, mark, todo, added, held, ordered>>

\* Wrong on purpose: only a freshly confirmed order advances.
AdvanceOnce(c) ==
    /\ pc[c] = "advance"
    /\ status' = IF status = "to_deliver_and_bill" THEN next[c] ELSE status
    /\ pc' = [pc EXCEPT ![c] = "idle"]
    /\ next' = [next EXCEPT ![c] = "draft"]
    /\ UNCHANGED <<item, quantity, delivered, billed, mark, todo, added, held, ordered, edits>>

Advance(c) ==
    /\ pc[c] = "advance"
    /\ status' = IF status \in InFlight THEN next[c] ELSE status
    /\ pc' = [pc EXCEPT ![c] = "idle"]
    /\ next' = [next EXCEPT ![c] = "draft"]
    /\ UNCHANGED <<item, quantity, delivered, billed, mark, todo, added, held, ordered, edits>>

-----------------------------------------------------------------------------
(* Failures.                                                               *)

\* The process or its connection dies between two statements.
Fail(c) == MayFail /\ pc[c] # "idle" /\ Abandon(c)

Waiting(c) == pc[c] = "allocate" /\ todo[c] # <<>> /\ ~CanLock(c)

WaitsFor(c, d) ==
    /\ c # d
    /\ Waiting(c)
    /\ held[d] \cap ItemRows(Head(todo[c]).item) # {}

\* The database's deadlock detector aborts a caller of a waiting cycle.
DeadlockVictim(c) ==
    /\ \E ring \in SUBSET Callers :
          /\ c \in ring
          /\ \A d \in ring : \E e \in ring : WaitsFor(d, e)
    /\ Abandon(c)

-----------------------------------------------------------------------------
Step(c) ==
    \/ AllocateItem(c) \/ RefuseItem(c) \/ CommitMark(c)
    \/ SyncWrite(c) \/ SyncNothing(c)
    \/ Rollup(c) \/ Advance(c)

Next ==
    \/ \E l \in Lines : EditLine(l)
    \/ Confirm
    \/ Cancel
    \/ \E c \in Callers :
          \/ \E w \in Watermarks, request \in Requests : BeginMark(c, w, request)
          \/ SyncRead(c)
          \/ Step(c)
          \/ Fail(c)
          \/ DeadlockVictim(c)

Spec == Init /\ [][Next]_vars

\* A started call keeps running and the database's lock queue serves its
\* waiters; nothing obliges a client to start a call or a verb.
Fairness ==
    \A c \in Callers :
        /\ SF_vars(AllocateItem(c) \/ RefuseItem(c))
        /\ WF_vars(CommitMark(c))
        /\ SF_vars(SyncWrite(c) \/ SyncNothing(c))
        /\ WF_vars(Rollup(c))
        /\ WF_vars(Advance(c))
        /\ WF_vars(DeadlockVictim(c))

FairSpec == Spec /\ Fairness

-----------------------------------------------------------------------------
(* Properties.                                                             *)

\* The two capacities, the row locks and the sync's clamp together, on drafts
\* and confirmed orders alike: what was ordered of a line bounds both of its
\* watermarks, unless a draft edit has gone below them.
WithinOrdered ==
    \A l \in Lines \ undercut : delivered[l] <= quantity[l] /\ billed[l] <= quantity[l]

\* lock_billing_capacity: at the moment a billed watermark moves, it stays
\* within the policy basis of that moment, whoever else is billing or syncing.
BillsWithinBasis ==
    [][\A l \in Lines : billed'[l] > billed[l] =>
          billed'[l] <= PolicyBase(l, quantity', delivered')]_vars

\* tg_sales_orders: the moves the trigger declares.  Any other status write
\* raises inside the seam's recompute, so no schedule may produce one.
DeclaredMoves ==
    {<<"draft", "cancelled">>, <<"draft", "to_deliver_and_bill">>}
    \cup (InFlight \X (InFlight \cup {"completed", "cancelled"}))

OnlyDeclaredMoves == [][status' # status => <<status, status'>> \in DeclaredMoves]_vars

\* recompute_order_status under stale rollups, and order_invoice_view against
\* it: `completed' and `to_bill' are never claimed for an order with something
\* left to deliver, nor `completed' for one with something left to bill, and no
\* completed order shows work left to invoice, whichever policies its lines
\* carry, as long as watermarks only rise and no draft edit has raised a line
\* between a rollup and its status write.
StatusEarned ==
    ~outgrown =>
        /\ status \in {"to_bill", "completed"} => DeliveredAll(quantity, delivered)
        /\ status = "completed" =>
              /\ BilledAll(quantity, delivered, billed)
              /\ OrderInvoiceStatus(status, quantity, delivered, billed) # "to invoice"

\* build_invoice_request against mark_invoiced, as long as watermarks only rise:
\* what a request asks to bill of an item, over all of its lines, is what the
\* writer's capacity check has room for, no more (it would refuse the whole
\* invoice) and no less (something delivered would never be asked for), unless
\* a draft edit has gone below what was billed of one of these lines.
RequestedIsBillable ==
    \A i \in Items :
        LET remainder ==
                [l \in ItemRows(i) |-> BillingRemainder(l, quantity, delivered, billed)]
            capacity ==
                [l \in ItemRows(i) |-> BillingCapacity(l, quantity, delivered, billed)]
        IN  ItemRows(i) \cap undercut = {} =>
                Total(remainder, ItemRows(i)) = Total(capacity, ItemRows(i))

\* The locked, multi-statement calls implement single-step deliveries, bills
\* and restatements of the order's ledger.
Ledger == INSTANCE OrderLedger
          WITH status <- status, quantity <- quantity,
               delivered <- delivered, billed <- billed,
               undercut <- undercut, outgrown <- outgrown
ImplementsLedger == Ledger!Spec

\* Deadlock detection and lock release: a call that was started returns.
CallsReturn == \A c \in Callers : pc[c] # "idle" ~> pc[c] = "idle"

\* An order of zero quantities is done before any event; nothing recomputes it.
Done ==
    /\ delivered # NoQty
    /\ BilledAll(quantity, delivered, billed)
    /\ DeliveredAll(quantity, delivered)

\* The last recompute wins: an order that was not done when it was confirmed and
\* from some moment on is fully delivered and billed ends up `completed', unless
\* it was cancelled.  One that was done as a draft may never be recomputed.
DoneOrdersComplete ==
    [](status = "draft" => ~Done) /\ <>[]Done => <>[](status \in {"completed", "cancelled"})

-----------------------------------------------------------------------------
(* What the repository says of these calls and the code does not do.       *)

\* "posted invoices are never cancelled": a cancelled order has nothing billed.
CancelledStaysUnbilled == status = "cancelled" => billed = NoQty

Quiet == \A c \in Callers : pc[c] = "idle"

\* "Status stays a computed invariant over the two watermarks": when the last
\* call in flight has recomputed, an order in flight shows the status of its
\* watermarks.
StatusFollowsWatermarks ==
    [][\A c \in Callers :
          pc[c] = "advance" /\ pc'[c] = "idle" /\ Quiet' /\ status' \in InFlight =>
              status' = NextStatus(BilledAll(quantity', delivered', billed'),
                                   DeliveredAll(quantity', delivered'))]_vars

\* "The watermark invariant `delivered_qty <= quantity` is selling's own": no
\* line has more delivered than ordered, drafts included.
DeliveredWithinOrdered == \A l \in Lines : delivered[l] <= quantity[l]
=============================================================================
