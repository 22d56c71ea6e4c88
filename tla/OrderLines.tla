----------------------------- MODULE OrderLines -----------------------------
(***************************************************************************)
(* The pure rules of a sales order's lines: the invoicing-policy basis,    *)
(* the two capacities the seams are bounded by, the fill-in-order          *)
(* allocation, the watermark rollup that picks the order's status, and the *)
(* invoice-status view.  Quantities are small naturals; the code's are     *)
(* NUMERIC with CHECK (quantity, billed_qty, delivered_qty >= 0).          *)
(*                                                                         *)
(* A line is its id, a natural: every lock and list in the code is         *)
(* ORDER BY id, so the order of the ids is the order of the fill.          *)
(***************************************************************************)
EXTENDS Integers, FiniteSets, FiniteSetsExt

CONSTANTS
    Lines,                \* ids of the order's live lines
    Items,                \* what a line may sell
    DeliveryPolicyLines,  \* lines with invoice_policy = 'delivery'
    DownpaymentLines,     \* lines with is_downpayment
    MaxQty                \* bound on a line's ordered quantity

ASSUME LinesAssumption ==
    /\ Lines \subseteq Nat
    /\ IsFiniteSet(Lines)
    /\ DeliveryPolicyLines \subseteq Lines
    /\ DownpaymentLines \subseteq Lines
    /\ MaxQty \in Nat

Qty == 0..MaxQty
NoQty == [l \in Lines |-> 0]

InFlight == {"to_deliver_and_bill", "to_deliver", "to_bill"}
Statuses == InFlight \cup {"draft", "completed", "cancelled"}

\* Lines that count for the rollup, the stock paths and the aggregate view.
Owed == Lines \ DownpaymentLines

-----------------------------------------------------------------------------
(* The policy basis and the capacities.                                    *)

PolicyBase(l, quantity, delivered) ==
    IF l \in DeliveryPolicyLines \ DownpaymentLines THEN delivered[l] ELSE quantity[l]

\* May be negative: a refund lowers delivered below what was billed.
BillingCapacity(l, quantity, delivered, billed) ==
    PolicyBase(l, quantity, delivered) - billed[l]

DeliveryCapacity(l, quantity, delivered) == quantity[l] - delivered[l]

Positive(n) == IF n > 0 THEN n ELSE 0

Total(f, rows) == MapThenSumSet(LAMBDA l : f[l], rows)

\* What an allocation loop takes from each of the locked rows: nothing from an
\* exhausted row, no more than the row's capacity from any, and nothing from a
\* row while an earlier one has capacity left.  One element when the rows can
\* hold qty.
FillInOrder(rows, cap, qty) ==
    { take \in [rows -> Qty] :
        /\ \A l \in rows : take[l] <= Positive(cap[l])
        /\ \A l, m \in rows : l < m /\ take[m] > 0 => take[l] = Positive(cap[l])
        /\ Total(take, rows) = Positive(qty) }

-----------------------------------------------------------------------------
(* watermark_rollup and recompute_order_status.  Over no line at all       *)
(* bool_and is NULL, which the caller reads as false.                      *)

BilledAll(quantity, delivered, billed) ==
    /\ Owed # {}
    /\ \A l \in Owed : billed[l] >= PolicyBase(l, quantity, delivered)

DeliveredAll(quantity, delivered) ==
    /\ Owed # {}
    /\ \A l \in Owed : delivered[l] >= quantity[l]

\* Wrong on purpose: a finished order is closed.
NextStatusClosing(billedAll, deliveredAll) ==
    CASE billedAll /\ deliveredAll   -> "closed"
      [] billedAll /\ ~deliveredAll  -> "to_deliver"
      [] ~billedAll /\ deliveredAll  -> "to_bill"
      [] ~billedAll /\ ~deliveredAll -> "to_deliver_and_bill"

NextStatus(billedAll, deliveredAll) ==
    CASE billedAll /\ deliveredAll   -> "completed"
      [] billedAll /\ ~deliveredAll  -> "to_deliver"
      [] ~billedAll /\ deliveredAll  -> "to_bill"
      [] ~billedAll /\ ~deliveredAll -> "to_deliver_and_bill"

-----------------------------------------------------------------------------
(* What the module asks billing for, and what the invoice view reports.    *)

\* Wrong on purpose: the request ignores the delivery policy.
BillingRemainderOrdered(l, quantity, delivered, billed) == Positive(quantity[l] - billed[l])

\* The positive remainder that an invoice request carries for a line.
BillingRemainder(l, quantity, delivered, billed) ==
    Positive(BillingCapacity(l, quantity, delivered, billed))

LineInvoiceStatus(status, l, quantity, delivered, billed) ==
    LET base == PolicyBase(l, quantity, delivered)
    IN  IF status \in {"draft", "cancelled"} THEN "no"
        ELSE IF base > billed[l] THEN "to invoice"
        ELSE IF base = quantity[l] /\ billed[l] > quantity[l] THEN "upselling"
        ELSE IF billed[l] > 0 THEN "invoiced"
        ELSE "no"

OrderInvoiceStatus(status, quantity, delivered, billed) ==
    LET shown == {LineInvoiceStatus(status, l, quantity, delivered, billed) : l \in Owed}
    IN  CASE "to invoice" \in shown -> "to invoice"
          [] "to invoice" \notin shown /\ "upselling" \in shown -> "upselling"
          [] shown = {"invoiced"} -> "invoiced"
          [] OTHER -> "no"
=============================================================================
