--------------------------- MODULE DocumentTotals ---------------------------
(***************************************************************************)
(* The figures of a quotation and of the order made from it, from a cart   *)
(* or by hand: priced at creation, priced again at conversion, edited line *)
(* by line while the order is a draft, frozen from the confirm on, and read*)
(* by the margin view.                                                     *)
(*                                                                         *)
(* update_order_line is a transaction of three statements under the locks  *)
(* of the line and of its order: read, write the line, sum the header up.  *)
(* The margin view is three reads without a transaction.  The confirm is   *)
(* announced after its commit, and the reference credit rule listens.      *)
(*                                                                         *)
(* Items, descriptions, dates and currencies are left out: they are stored *)
(* as they are given and no figure depends on them.                        *)
(***************************************************************************)
EXTENDS Pricing

CONSTANTS
    Callers,     \* line edits in flight at once
    Viewers,     \* margin views in flight at once
    Lines,
    Rate,        \* the document's tax_rate, in percent
    Offers,      \* what a line may be created with
    CartLines,   \* what the pricer may answer for a line
    Patches,     \* what an edit may ask
    Costs,       \* what the cost port may answer, in mills
    CreditLimit, \* the credit rule's, in cents
    Keep         \* a patch's `not asked'

LinePatch == [quantity : Nat \cup {Keep}, price : Nat \cup {Keep}, discount : Nat \cup {Keep}]

ASSUME TotalsAssumption ==
    /\ Lines # {} /\ IsFiniteSet(Lines)
    /\ Rate \in Nat
    /\ Offers \subseteq NewLine
    /\ CartLines \subseteq PricedCartLine
    /\ Patches \subseteq LinePatch
    /\ Costs \subseteq Nat
    /\ CreditLimit \in Nat
    /\ Keep \notin Nat

VARIABLES
    quotation,  \* its rows, or NoRows
    offered,    \* its header
    status,     \* sales_orders.status, or "none" before it is created
    rows,       \* the order's lines, or NoRows
    header,     \* the order's subtotal, tax and total
    pc,
    edit,       \* per caller, the line it has locked and the row it has written
    summed,     \* per caller, the header it has written
    views,      \* per viewer, what it has read so far
    sink,       \* the confirm's event: where it is and the total it carries
    breaches,   \* totals the credit rule recorded
    \* history, for the properties
    quotedFine, \* quoted lines whose price was finer than the column
    fine,       \* order lines whose amount comes from such a price
    origin,     \* what the order was created from
    net         \* the cart's total, in mills

document == <<quotation, offered, status, rows, header>>
editing == <<pc, edit, summed>>
history == <<quotedFine, fine, origin, net>>
listening == <<sink, breaches>>
vars == <<document, editing, views, listening, history>>

NoRows == [l \in {} |-> 0]
NoTotals == [subtotal |-> 0, tax |-> 0, total |-> 0]
Row == [quantity : Nat, price : Nat, discount : Nat, amount : Nat,
        policy : {"order", "delivery"}, cost : Costs \cup {NoCost}]
Rows == [Lines -> Row] \cup {NoRows}
Header == [subtotal : Nat, tax : Nat, total : Nat]

NoEdit == [line |-> Keep, row |-> Keep, fine |-> FALSE]

NoView == [at |-> "header", status |-> "none", costed |-> 0, shown |-> 0,
           rollup |-> 0, counted |-> 0]

TypeOK ==
    /\ quotation \in Rows /\ offered \in Header
    /\ status \in {"none", "draft", "to_deliver_and_bill", "cancelled"}
    /\ rows \in Rows /\ header \in Header
    /\ pc \in [Callers -> {"idle", "sum", "commit"}]
    /\ \A c \in Callers :
          pc[c] # "idle" => /\ edit[c].line \in Lines
                            /\ edit[c].row \in Row
                            /\ edit[c].fine \in BOOLEAN
    /\ summed \in [Callers -> Header]
    /\ views \in [Viewers -> [at : {"header", "lines", "rollup", "shown"},
                              status : {"none", "draft", "to_deliver_and_bill", "cancelled"},
                              costed : Nat, shown : Int, rollup : Int, counted : Nat]]
    /\ sink \in [at : {"none", "pending", "heard"}, total : Nat]
    /\ breaches \in SUBSET Nat
    /\ quotedFine \in SUBSET Lines
    /\ fine \in SUBSET Lines
    /\ origin \in {"none", "offer", "cart", "fine_cart", "quotation"}
    /\ net \in Nat

Init ==
    /\ quotation = NoRows /\ offered = NoTotals
    /\ status = "none"
    /\ rows = NoRows /\ header = NoTotals
    /\ pc = [c \in Callers |-> "idle"]
    /\ edit = [c \in Callers |-> NoEdit]
    /\ summed = [c \in Callers |-> NoTotals]
    /\ views = [v \in Viewers |-> NoView]
    /\ sink = [at |-> "none", total |-> 0] /\ breaches = {}
    /\ quotedFine = {} /\ fine = {} /\ origin = "none" /\ net = 0

-----------------------------------------------------------------------------
(* Creation.                                                               *)

Priced(offers) == [l \in Lines |-> PricedRow(offers[l])]

FineOf(offers) == {l \in Lines : Fine(offers[l].price)}

CreateQuotation ==
    /\ quotation = NoRows
    /\ \E offers \in [Lines -> Offers] :
          /\ \A l \in Lines : Priceable(offers[l])
          /\ quotation' = Priced(offers)
          /\ offered' = Totals(Priced(offers), Rate)
          /\ quotedFine' = FineOf(offers)
    /\ UNCHANGED <<status, rows, header, editing, views, listening, fine, origin, net>>

\* create_sales_order: one transaction for the header and its lines.
CreateOrderFrom(offers, source) ==
    /\ status = "none"
    /\ \A l \in Lines : Priceable(offers[l])
    /\ status' = "draft"
    /\ rows' = Priced(offers)
    /\ header' = Totals(Priced(offers), Rate)
    /\ fine' = FineOf(offers)
    /\ origin' = source
    /\ UNCHANGED <<quotation, offered, editing, views, listening, quotedFine>>

CreateOrder ==
    \E offers \in [Lines -> Offers] :
        CreateOrderFrom(offers, "offer") /\ UNCHANGED net

\* Wrong on purpose: the list price is charged, the discount is left behind.
ConvertWithoutDiscount ==
    /\ quotation # NoRows
    /\ CreateOrderFrom([l \in Lines |-> [AsOffer(quotation[l]) EXCEPT !.discount = 0]],
                       "quotation")
    /\ UNCHANGED net

\* convert_quotation_to_order copies what was asked, not what it came to.
Convert ==
    /\ quotation # NoRows
    /\ CreateOrderFrom([l \in Lines |-> AsOffer(quotation[l])], "quotation")
    /\ UNCHANGED net

\* The free goods of a cart are lines of their own.
CreateFromCart ==
    \E priced \in (SUBSET Lines) \ {{}} :
        \E cart \in [priced -> CartLines] :
            /\ CreateOrderFrom([l \in Lines |-> IF l \in priced THEN CartOffer(cart[l])
                                                ELSE RewardOffer(1)],
                               IF \E l \in priced : Fine(cart[l].net)
                               THEN "fine_cart" ELSE "cart")
            /\ net' = SumOf([l \in Lines |-> IF l \in priced THEN cart[l].net ELSE 0])

-----------------------------------------------------------------------------
(* update_order_line.                                                      *)

Editing == {c \in Callers : pc[c] # "idle"}

\* Wrong on purpose: the line is locked, its order is not.
UnlockedLineOnly(c, l) == \A d \in Editing \ {c} : edit[d].line # l

\* FOR UPDATE OF soi, o: one edit at a time, for there is one order.
Unlocked(c, l) == Editing \ {c} = {}

Reprices(patch) ==
    patch.quantity # Keep \/ patch.price # Keep \/ patch.discount # Keep

Effective(patch, row) ==
    [quantity |-> IF patch.quantity = Keep THEN row.quantity ELSE patch.quantity,
     price    |-> IF patch.price = Keep THEN Mills(row.price) ELSE patch.price,
     discount |-> IF patch.discount = Keep THEN Mills(row.discount) ELSE patch.discount,
     policy   |-> row.policy]

\* The locking read and the line's update; an order that is no draft refuses.
EditLine(c, l, patch) ==
    /\ pc[c] = "idle"
    /\ Unlocked(c, l)
    /\ status = "draft"
    /\ LET asked == Effective(patch, rows[l])
           row == [PricedRow(asked) EXCEPT !.cost = rows[l].cost]
       IN  /\ Priceable(asked)
           /\ edit' = [edit EXCEPT ![c] =
                 IF Reprices(patch)
                 THEN [line |-> l, row |-> row, fine |-> Fine(asked.price)]
                 ELSE [line |-> l, row |-> [row EXCEPT !.amount = rows[l].amount],
                       fine |-> l \in fine]]
           /\ pc' = [pc EXCEPT ![c] = IF Reprices(patch) THEN "sum" ELSE "commit"]
           /\ summed' = [summed EXCEPT ![c] = header]
    /\ UNCHANGED <<document, views, listening, history>>

\* The transaction's own line, and what others have committed.
Seen(c) == [rows EXCEPT ![edit[c].line] = edit[c].row]

SumUp(c) ==
    /\ pc[c] = "sum"
    /\ summed' = [summed EXCEPT ![c] = Totals(Seen(c), Rate)]
    /\ pc' = [pc EXCEPT ![c] = "commit"]
    /\ UNCHANGED <<document, edit, views, listening, history>>

Return(c) ==
    /\ pc' = [pc EXCEPT ![c] = "idle"]
    /\ edit' = [edit EXCEPT ![c] = NoEdit]
    /\ summed' = [summed EXCEPT ![c] = NoTotals]

CommitEdit(c) ==
    /\ pc[c] = "commit"
    /\ rows' = Seen(c)
    /\ header' = summed[c]
    /\ fine' = IF edit[c].fine THEN fine \cup {edit[c].line} ELSE fine \ {edit[c].line}
    /\ Return(c)
    /\ UNCHANGED <<quotation, offered, status, views, listening, quotedFine, origin,
                   net>>

\* A statement fails or the process dies: the transaction is rolled back.
RollBack(c) ==
    /\ pc[c] # "idle"
    /\ Return(c)
    /\ UNCHANGED <<document, views, listening, history>>

-----------------------------------------------------------------------------
(* The confirm's transaction and the cancel's statement wait for the locks.*)

\* Wrong on purpose: the status flips first, the costs follow.
ConfirmUncosted ==
    /\ Editing = {}
    /\ \/ /\ status = "draft"
          /\ status' = "to_deliver_and_bill"
          /\ UNCHANGED rows
       \/ /\ status = "to_deliver_and_bill" /\ Costed(rows) = {}
          /\ \E cost \in [Lines -> Costs] :
                rows' = [l \in Lines |-> [rows[l] EXCEPT !.cost = cost[l]]]
          /\ UNCHANGED status
    /\ UNCHANGED <<quotation, offered, header, editing, views, listening, history>>

\* Wrong on purpose: the event carries the untaxed total.
ConfirmAnnouncingNet ==
    /\ Editing = {}
    /\ status = "draft"
    /\ status' = "to_deliver_and_bill"
    /\ \E cost \in [Lines -> Costs \cup {NoCost}] :
          rows' = [l \in Lines |-> [rows[l] EXCEPT !.cost = cost[l]]]
    /\ sink' = [at |-> "pending", total |-> header.subtotal]
    /\ UNCHANGED <<quotation, offered, header, editing, views, breaches, history>>

\* The guarded statement returns the total that the event will carry.
Confirm ==
    /\ Editing = {}
    /\ status = "draft"
    /\ status' = "to_deliver_and_bill"
    /\ \E cost \in [Lines -> Costs \cup {NoCost}] :
          rows' = [l \in Lines |-> [rows[l] EXCEPT !.cost = cost[l]]]
    /\ sink' = [at |-> "pending", total |-> header.total]
    /\ UNCHANGED <<quotation, offered, header, editing, views, breaches, history>>

\* The credit rule hears of it after the commit, whatever the order is by then, or
\* never, for the process may have died.
PublishConfirmed ==
    /\ sink.at = "pending"
    /\ sink' = [sink EXCEPT !.at = "heard"]
    /\ breaches' = breaches \cup {t \in {sink.total} : t > CreditLimit}
    /\ UNCHANGED <<document, editing, views, history>>

Cancel ==
    /\ Editing = {}
    /\ status \in {"draft", "to_deliver_and_bill"}
    /\ status' = "cancelled"
    /\ UNCHANGED <<quotation, offered, rows, header, editing, views, listening, history>>

-----------------------------------------------------------------------------
(* order_margin_view.                                                      *)

ViewHeader(v) ==
    /\ views[v].at = "header"
    /\ status # "none"
    /\ views' = [views EXCEPT ![v].at = "lines", ![v].status = status]
    /\ UNCHANGED <<document, editing, listening, history>>

ViewLines(v) ==
    /\ views[v].at = "lines"
    /\ views' = [views EXCEPT ![v].at = "rollup", ![v].costed = Cardinality(Costed(rows)),
                              ![v].shown = ShownByLines(rows)]
    /\ UNCHANGED <<document, editing, listening, history>>

ViewRollup(v) ==
    /\ views[v].at = "rollup"
    /\ views' = [views EXCEPT ![v].at = "shown", ![v].counted = Cardinality(Costed(rows)),
                              ![v].rollup = ShownByRollup(rows)]
    /\ UNCHANGED <<document, editing, listening, history>>

-----------------------------------------------------------------------------
Next ==
    \/ CreateQuotation \/ CreateOrder \/ Convert \/ CreateFromCart
    \/ Confirm \/ PublishConfirmed \/ Cancel
    \/ \E c \in Callers :
          \/ \E l \in Lines, patch \in Patches : EditLine(c, l, patch)
          \/ SumUp(c) \/ CommitEdit(c) \/ RollBack(c)
    \/ \E v \in Viewers : ViewHeader(v) \/ ViewLines(v) \/ ViewRollup(v)

Spec == Init /\ [][Next]_vars

-----------------------------------------------------------------------------
(* Properties.                                                             *)

\* "re-derives the header's subtotal/tax/total from the full live line set in the
\* SAME transaction": summed in Rust at creation and in SQL after an edit, with
\* edits of other lines, the confirm and the cancel beside, the header is what the
\* committed lines come to.
TotalsAgree ==
    /\ status # "none" => header = Totals(rows, Rate)
    /\ quotation # NoRows => offered = Totals(quotation, Rate)

\* "round2(qty x unit_price) - round2(discount)": whatever sequence of patches a
\* line has seen, its amount follows from its stored figures, unless its price was
\* asked finer than the column.
AmountsRederive ==
    \A l \in DOMAIN rows \ fine :
        rows[l].amount = Money(rows[l].quantity * Mills(rows[l].price)) - rows[l].discount

\* Both: the document can be recomputed from its lines' quantities and prices.
FiguresAgree == TotalsAgree /\ AmountsRederive

\* "the freeze check cannot race a concurrent confirm": once the order is no draft,
\* nothing that was in flight changes a figure of it.
FrozenOnceConfirmed == [][status \notin {"none", "draft"} => UNCHANGED <<rows, header>>]_vars

\* Priced again from the stored columns, the offer comes to what it came to when it
\* was quoted, unless a price was asked finer than the column.
ConvertedAsQuoted ==
    [][origin = "none" /\ origin' = "quotation" /\ quotedFine = {}
       => rows' = quotation /\ header' = offered]_vars

\* "reproduces the cart total exactly": where the pricer answers in whole cents.
CartReproduced ==
    [][origin = "none" /\ origin' = "cart" => Mills(header'.subtotal) = net']_vars

\* "drift makes the order rollup and the per-line computes contradict each other":
\* a view that began on an order that is no draft shows one set of costs, and its
\* rollup is within the rounding of its lines; no lock holds the three reads
\* together, the freeze does.
ViewAgrees ==
    \A v \in Viewers :
        views[v].at = "shown" /\ views[v].status # "draft" =>
            /\ views[v].counted = views[v].costed
            /\ 2 * (views[v].rollup - views[v].shown) <= views[v].costed + 1
            /\ 2 * (views[v].shown - views[v].rollup) <= views[v].costed + 1

\* "flag orders whose total breaches a customer credit limit": the total is heard
\* after the commit, with edits, a cancel and other confirms beside; what was heard
\* is what the order comes to, and it is flagged exactly when that is too much.
CreditWatched ==
    /\ \A t \in breaches : status \notin {"none", "draft"} /\ t = header.total
    /\ sink.at = "heard" => (breaches # {} <=> header.total > CreditLimit)

-----------------------------------------------------------------------------
(* What the repository says of the figures and the code does not keep.     *)

\* "line_amount = round2(qty x unit_price) - round2(discount)", of every line.
EveryAmountRederives ==
    \A l \in DOMAIN rows :
        rows[l].amount = Money(rows[l].quantity * Mills(rows[l].price)) - rows[l].discount

\* "so the order's own price_document reproduces the cart total exactly".
EveryCartReproduced ==
    [][origin = "none" /\ origin' \in {"cart", "fine_cart"}
       => Mills(header'.subtotal) = net']_vars
=============================================================================
