---------------------------- MODULE OrderConfirm ----------------------------
(***************************************************************************)
(* Confirming and cancelling one sales order around the four ports a       *)
(* confirm calls before its transaction: unit costs, stock rules, the      *)
(* service catalog and the project mint.                                   *)
(*                                                                         *)
(* confirm_sales_order reads the lines three times and calls out between   *)
(* the reads; only its last statement, one transaction, looks at the       *)
(* order's status.  A draft line may be edited, the order cancelled or     *)
(* confirmed by somebody else, and the process may die, between any two of *)
(* these steps.  The ports keep what they did: a launch is idempotent per  *)
(* line, and so is a mint.                                                 *)
(***************************************************************************)
EXTENDS Naturals, Sequences, SequencesExt

CONSTANTS
    Callers,       \* requests in flight at once
    Lines,         \* the order's live lines, none a downpayment
    Items,
    StockItems,    \* items the stock engine launches a move for
    ServiceItems,  \* items the project side mints work for
    Quantities,
    MayFail,       \* may a port refuse, or a call die between two steps?
    NoItem         \* NULL

ASSUME ConfirmAssumption ==
    /\ StockItems \subseteq Items
    /\ ServiceItems \subseteq Items
    /\ Quantities \subseteq Nat
    /\ MayFail \in BOOLEAN
    /\ NoItem \notin Items

VARIABLES
    \* committed rows
    status,    \* sales_orders.status
    item,      \* per line
    quantity,
    costOf,    \* the item whose unit cost the line carries
    backref,   \* lines carrying the ids of their minted work
    \* the ports' own records
    move,      \* per line, the demand a stock move was minted for
    minted,    \* lines whose delivery work was minted
    told,      \* lines whose moves carry a decrease-quantity activity
    heard,     \* events published to the sink, in order
    \* per caller
    pc,
    costed,    \* the (line, item) pairs its cost stamps were resolved for
    demand,    \* the lines as its last demand or service read saw them
    reported,  \* lines its mint reported as minted
    \* history, for the properties
    disturbed  \* was a line edited under a confirm or after its launch?

rows == <<status, item, quantity, costOf, backref>>
ports == <<move, minted, told>>
calls == <<pc, costed, demand, reported>>
vars == <<rows, ports, heard, calls, disturbed>>

Statuses == {"draft", "to_deliver_and_bill", "cancelled"}
Events == {"SalesOrderConfirmed", "SalesOrderCancelled"}
Steps == {"idle", "costs", "demand", "launch", "service", "mint", "commit",
          "confirmed", "cancelled", "decrease"}

OrderLine == [item : Items, quantity : Quantities]
NoDemand == [item |-> NoItem, quantity |-> 0]

NothingRead == [l \in Lines |-> NoDemand]
NothingCosted == [l \in Lines |-> NoItem]

TypeOK ==
    /\ status \in Statuses
    /\ item \in [Lines -> Items]
    /\ quantity \in [Lines -> Quantities]
    /\ costOf \in [Lines -> Items \cup {NoItem}]
    /\ backref \in SUBSET Lines
    /\ move \in [Lines -> OrderLine \cup {NoDemand}]
    /\ minted \in SUBSET Lines
    /\ told \in SUBSET Lines
    /\ heard \in Seq(Events)
    /\ pc \in [Callers -> Steps]
    /\ costed \in [Callers -> [Lines -> Items \cup {NoItem}]]
    /\ demand \in [Callers -> [Lines -> OrderLine \cup {NoDemand}]]
    /\ reported \in [Callers -> SUBSET Lines]
    /\ disturbed \in BOOLEAN

Init ==
    /\ status = "draft"
    /\ item \in [Lines -> Items]
    /\ quantity \in [Lines -> Quantities]
    /\ costOf = NothingCosted
    /\ backref = {}
    /\ move = NothingRead
    /\ minted = {}
    /\ told = {}
    /\ heard = <<>>
    /\ pc = [c \in Callers |-> "idle"]
    /\ costed = [c \in Callers |-> NothingCosted]
    /\ demand = [c \in Callers |-> NothingRead]
    /\ reported = [c \in Callers |-> {}]
    /\ disturbed = FALSE

Quiet == \A c \in Callers : pc[c] = "idle"
Launched == {l \in Lines : move[l] # NoDemand}

-----------------------------------------------------------------------------
(* update_order_line: frozen fields on a draft only, under the row locks.  *)

Untried == Quiet /\ Launched = {} /\ minted = {}

EditLine(l) ==
    /\ status = "draft"
    /\ \E i \in Items, q \in Quantities :
          /\ item' = [item EXCEPT ![l] = i]
          /\ quantity' = [quantity EXCEPT ![l] = q]
    /\ disturbed' = (disturbed \/ ~Untried)
    /\ UNCHANGED <<status, costOf, backref, ports, heard, calls>>

-----------------------------------------------------------------------------
(* confirm_sales_order.                                                    *)

\* A refusal by a port, or the end of the call: what it read is dropped.
Return(c) ==
    /\ pc' = [pc EXCEPT ![c] = "idle"]
    /\ costed' = [costed EXCEPT ![c] = NothingCosted]
    /\ demand' = [demand EXCEPT ![c] = NothingRead]
    /\ reported' = [reported EXCEPT ![c] = {}]

Goto(c, step) == pc' = [pc EXCEPT ![c] = step]

\* (1) the (line, item) pairs, read without looking at the order's status.
ReadLines(c) ==
    /\ pc[c] = "idle"
    /\ costed' = [costed EXCEPT ![c] = item]
    /\ Goto(c, "costs")
    /\ UNCHANGED <<rows, ports, heard, demand, reported, disturbed>>

\* (2) the cost port answers for every item.
ResolveCosts(c) ==
    /\ pc[c] = "costs"
    /\ Goto(c, "demand")
    /\ UNCHANGED <<rows, ports, heard, costed, demand, reported, disturbed>>

AsOrdered == [l \in Lines |-> [item |-> item[l], quantity |-> quantity[l]]]

\* (2b) list_stock_demand_lines, then launch_stock_rules.
ReadDemand(c) ==
    /\ pc[c] = "demand"
    /\ demand' = [demand EXCEPT ![c] = AsOrdered]
    /\ Goto(c, "launch")
    /\ UNCHANGED <<rows, ports, heard, costed, reported, disturbed>>

\* Wrong on purpose: a refused launch does not refuse the confirm.
LaunchBestEffort(c) ==
    /\ pc[c] = "launch"
    /\ \E launched \in SUBSET Lines :
          move' = [l \in Lines |->
                      IF l \in launched /\ move[l] = NoDemand /\ demand[c][l].item \in StockItems
                      THEN demand[c][l] ELSE move[l]]
    /\ Goto(c, "service")
    /\ UNCHANGED <<rows, minted, told, heard, costed, demand, reported, disturbed>>

Launch(c) ==
    /\ pc[c] = "launch"
    /\ move' = [l \in Lines |->
                   IF move[l] = NoDemand /\ demand[c][l].item \in StockItems
                   THEN demand[c][l] ELSE move[l]]
    /\ Goto(c, "service")
    /\ UNCHANGED <<rows, minted, told, heard, costed, demand, reported, disturbed>>

\* (2c) list_service_delivery_lines, then resolve_service_tracking and
\* mint_service_delivery: a line already minted reports its prior outcome.
ReadService(c) ==
    /\ pc[c] = "service"
    /\ demand' = [demand EXCEPT ![c] = AsOrdered]
    /\ Goto(c, "mint")
    /\ UNCHANGED <<rows, ports, heard, costed, reported, disturbed>>

Serviced(c) == {l \in Lines : demand[c][l].item \in ServiceItems}

Mint(c) ==
    /\ pc[c] = "mint"
    /\ minted' = minted \cup Serviced(c)
    /\ reported' = [reported EXCEPT ![c] = minted']
    /\ Goto(c, "commit")
    /\ UNCHANGED <<rows, move, told, heard, costed, demand, disturbed>>

\* The two stamp statements: every line whose cost was resolved, every line the
\* mint reported.  Neither looks at what the line sells by now.
StampCosts(c) == costOf' = costed[c]
StampBackrefs(c) == backref' = backref \cup reported[c]

\* Wrong on purpose: the stamps are committed before the guard is tried.
CommitConfirmStampingFirst(c) ==
    /\ pc[c] = "commit"
    /\ StampCosts(c)
    /\ StampBackrefs(c)
    /\ status' = IF status = "draft" THEN "to_deliver_and_bill" ELSE status
    /\ IF status = "draft"
       THEN Goto(c, "confirmed") /\ UNCHANGED <<costed, demand, reported>>
       ELSE Return(c)
    /\ UNCHANGED <<item, quantity, ports, heard, disturbed>>

\* Wrong on purpose: the flip is not guarded.
CommitConfirmUnguarded(c) ==
    /\ pc[c] = "commit"
    /\ StampCosts(c)
    /\ StampBackrefs(c)
    /\ status' = "to_deliver_and_bill"
    /\ Goto(c, "confirmed")
    /\ UNCHANGED <<item, quantity, ports, heard, costed, demand, reported, disturbed>>

\* (3) the stamps and the guarded flip, one transaction.
CommitConfirm(c) ==
    /\ pc[c] = "commit"
    /\ status = "draft"
    /\ StampCosts(c)
    /\ StampBackrefs(c)
    /\ status' = "to_deliver_and_bill"
    /\ Goto(c, "confirmed")
    /\ UNCHANGED <<item, quantity, ports, heard, costed, demand, reported, disturbed>>

\* NotDraft: the guard lost, the stamps roll back with it.
RefuseConfirm(c) ==
    /\ pc[c] = "commit"
    /\ status # "draft"
    /\ Return(c)
    /\ UNCHANGED <<rows, ports, heard, disturbed>>

PublishConfirmed(c) ==
    /\ pc[c] = "confirmed"
    /\ heard' = Append(heard, "SalesOrderConfirmed")
    /\ Return(c)
    /\ UNCHANGED <<rows, ports, disturbed>>

-----------------------------------------------------------------------------
(* cancel_sales_order and retry_decrease_activities.                       *)

\* Wrong on purpose: a cancelled order is closed.
CancelClosing(c) ==
    /\ pc[c] = "idle"
    /\ status \in {"draft", "to_deliver_and_bill"}
    /\ status' = "closed"
    /\ Goto(c, "cancelled")
    /\ UNCHANGED <<item, quantity, costOf, backref, ports, heard, costed, demand, reported, disturbed>>

\* The guarded flip.  Whether a billed line refuses it is OrderSeams' subject.
Cancel(c) ==
    /\ pc[c] = "idle"
    /\ status \in {"draft", "to_deliver_and_bill"}
    /\ status' = "cancelled"
    /\ Goto(c, "cancelled")
    /\ UNCHANGED <<item, quantity, costOf, backref, ports, heard, costed, demand, reported, disturbed>>

PublishCancelled(c) ==
    /\ pc[c] = "cancelled"
    /\ heard' = Append(heard, "SalesOrderCancelled")
    /\ Goto(c, "decrease")
    /\ UNCHANGED <<rows, ports, costed, demand, reported, disturbed>>

\* Wrong on purpose: the log is also sent for an order that is not cancelled.
RetryDecreaseAnyStatus(c) ==
    /\ pc[c] = "idle"
    /\ Goto(c, "decrease")
    /\ UNCHANGED <<rows, ports, heard, costed, demand, reported, disturbed>>

RetryDecrease(c) ==
    /\ pc[c] = "idle"
    /\ status = "cancelled"
    /\ Goto(c, "decrease")
    /\ UNCHANGED <<rows, ports, heard, costed, demand, reported, disturbed>>

\* log_decrease_quantity reaches the moves the launch has minted so far.
LogDecrease(c) ==
    /\ pc[c] = "decrease"
    /\ told' = told \cup Launched
    /\ Return(c)
    /\ UNCHANGED <<rows, move, minted, heard, disturbed>>

-----------------------------------------------------------------------------
\* A port refuses, its answer is lost, or the process dies: the ports keep
\* what they did, the caller keeps nothing.
Fail(c) ==
    /\ MayFail
    /\ pc[c] # "idle"
    /\ Return(c)
    /\ UNCHANGED <<rows, ports, heard, disturbed>>

Continue(c) ==
    \/ ResolveCosts(c) \/ ReadDemand(c) \/ Launch(c) \/ ReadService(c) \/ Mint(c)
    \/ CommitConfirm(c) \/ RefuseConfirm(c) \/ PublishConfirmed(c)
    \/ PublishCancelled(c) \/ LogDecrease(c)

Call(c) == ReadLines(c) \/ Cancel(c) \/ RetryDecrease(c) \/ Continue(c) \/ Fail(c)

Next ==
    \/ \E l \in Lines : EditLine(l)
    \/ \E c \in Callers : Call(c)

Spec == Init /\ [][Next]_vars

-----------------------------------------------------------------------------
(* Properties.                                                             *)

\* stamp_unit_costs and stamp_service_backrefs share the guard's transaction:
\* neither the loser of two confirms nor a refused or crashed confirm leaves a
\* cost or a project id on an order that is still a draft.
DraftUnstamped == status = "draft" => costOf = NothingCosted /\ backref = {}

\* The stamp statement is the only writer of the snapshot: whoever confirms,
\* cancels or edits afterwards, a stamped cost is never rewritten.
StampsFrozen ==
    [][(costOf' # costOf \/ backref' # backref) =>
          status = "draft" /\ status' = "to_deliver_and_bill"]_vars

\* Racing confirms, cancels, retries and crashes publish each event at most
\* once, and only after the flip it announces.
AnnouncedOnce ==
    /\ \A i, j \in DOMAIN heard : heard[i] = heard[j] => i = j
    /\ Contains(heard, "SalesOrderConfirmed") => status # "draft"
    /\ Contains(heard, "SalesOrderCancelled") => status = "cancelled"

\* log_decrease_activities runs after the committed flip only: the stock side
\* is never told to give up a demand the order still stands behind.
DecreasedOnlyWhenCancelled == told # {} => status = "cancelled"

Confirmed == status = "to_deliver_and_bill"

\* Unless a draft was edited under a confirm, a confirmed order has exactly the
\* moves its lines order, whatever crashes, retries and duplicate confirms came
\* before.
LaunchedAsOrdered ==
    (Confirmed /\ ~disturbed) => \A l \in Lines :
        move[l] = IF item[l] \in StockItems THEN AsOrdered[l] ELSE NoDemand

\* Likewise its service lines, and only they, carry the ids of minted work.
MintedAsOrdered ==
    (Confirmed /\ ~disturbed) =>
        backref = {l \in Lines : item[l] \in ServiceItems} /\ backref = minted

\* Likewise the cost a line is stamped with is the cost of the item it sells.
StampedAsOrdered == ~disturbed => \A l \in Lines : costOf[l] \in {NoItem, item[l]}

\* The three together: what a confirm leaves behind, in the stock engine, in the
\* project engine and on the lines, is what the order says.
KeepsTheOrder == LaunchedAsOrdered /\ MintedAsOrdered /\ StampedAsOrdered

-----------------------------------------------------------------------------
(* What the repository says of the snapshot and the code does not do.      *)

\* "honest absence, never a WRONG cost".
NeverWrongCost == \A l \in Lines : costOf[l] \in {NoItem, item[l]}
=============================================================================
