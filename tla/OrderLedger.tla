----------------------------- MODULE OrderLedger -----------------------------
(***************************************************************************)
(* What a sales order promises whoever delivers, bills or reads it, with   *)
(* every call a single step: no transaction, no lock, no stale read.       *)
(* Deliveries stay within what was ordered, bills within what the          *)
(* invoicing policy makes billable, the ordered quantity is fixed once the *)
(* order has left draft, and the status moves only along the declared      *)
(* transitions and claims only what was earned.  A draft may be delivered  *)
(* and billed, and edited afterwards: `undercut' has the lines such an     *)
(* edit left with less than a call may rely on, `outgrown' says whether    *)
(* one has raised a line.  OrderSeams implements it.                       *)
(***************************************************************************)
EXTENDS OrderLines

CONSTANTS
    Quantities,   \* ordered quantities a draft line may be given
    MovesSynced   \* may the stock engine restate what was delivered?

VARIABLES status, quantity, delivered, billed, undercut, outgrown

edits == <<undercut, outgrown>>
vars == <<status, quantity, delivered, billed, edits>>

Init ==
    /\ status = "draft"
    /\ quantity \in [Lines -> Quantities]
    /\ delivered = NoQty
    /\ billed = NoQty
    /\ undercut = {}
    /\ outgrown = FALSE

\* An edit that goes below a watermark says so; one below no watermark may have
\* gone below what a restatement relies on, where the stock engine restates.
Edit ==
    /\ status = "draft"
    /\ \E l \in Lines, q \in Quantities :
          /\ quantity' = [quantity EXCEPT ![l] = q]
          /\ \/ undercut' = undercut /\ (l \in undercut \/ (delivered[l] <= q /\ billed[l] <= q))
             \/ undercut' = undercut \cup {l} /\ (MovesSynced \/ delivered[l] > q \/ billed[l] > q)
          /\ \/ outgrown' = outgrown
             \/ outgrown' = TRUE /\ q > quantity[l]
    /\ UNCHANGED <<status, delivered, billed>>

Confirm ==
    /\ status = "draft"
    /\ status' = "to_deliver_and_bill"
    /\ UNCHANGED <<quantity, delivered, billed, edits>>

Cancel ==
    /\ status \in InFlight \cup {"draft"}
    /\ billed = NoQty
    /\ status' = "cancelled"
    /\ UNCHANGED <<quantity, delivered, billed, edits>>

\* Deliveries add up, and none takes a line past what was ordered of it.
Deliver ==
    /\ delivered' \in [Lines -> Qty]
    /\ \A l \in Lines :
          \/ delivered'[l] = delivered[l]
          \/ delivered'[l] > delivered[l] /\ delivered'[l] <= quantity[l]
    /\ UNCHANGED <<status, quantity, billed, edits>>

\* Bills add up, and none takes a line past what its policy makes billable.
Bill ==
    /\ billed' \in [Lines -> Qty]
    /\ \A l \in Lines :
          \/ billed'[l] = billed[l]
          \/ billed'[l] > billed[l] /\ billed'[l] <= PolicyBase(l, quantity, delivered)
    /\ UNCHANGED <<status, quantity, delivered, edits>>

\* The stock engine restates the owed lines, in either direction; no restated
\* figure exceeds what was ordered, but on a line that an edit has undercut.
Restate ==
    /\ MovesSynced
    /\ delivered' \in [Lines -> Qty]
    /\ \A l \in DownpaymentLines : delivered'[l] = delivered[l]
    /\ \A l \in Lines \ undercut : delivered'[l] <= quantity[l]
    /\ UNCHANGED <<status, quantity, billed, edits>>

Earned(s) ==
    /\ s \in {"to_bill", "completed"} => DeliveredAll(quantity, delivered)
    /\ s = "completed" => BilledAll(quantity, delivered, billed)

\* The recompute.  Where watermarks can fall, or an ordered quantity was raised
\* under it, it may act on figures of another moment; else what it claims is true.
Settle ==
    /\ status \in InFlight
    /\ status' \in InFlight \cup {"completed"}
    /\ MovesSynced \/ outgrown \/ Earned(status')
    /\ UNCHANGED <<quantity, delivered, billed, edits>>

Next == Edit \/ Confirm \/ Cancel \/ Deliver \/ Bill \/ Restate \/ Settle

Spec == Init /\ [][Next]_vars
=============================================================================
