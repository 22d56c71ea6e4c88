----------------------------- MODULE Quotation -----------------------------
(***************************************************************************)
(* One quotation, its state machine and its conversion to a sales order.   *)
(*                                                                         *)
(* Every verb of the machine is one guarded UPDATE whose WHERE clause is   *)
(* the guard, followed by an in-process event; a refused verb changes      *)
(* nothing.  The conversion is not one transaction: it reads the status,   *)
(* creates the order in a transaction of its own, and only then marks the  *)
(* quotation with an UPDATE that has no guard but the declared-transition  *)
(* trigger.  Other calls run, and the process may die, between these.      *)
(***************************************************************************)
CONSTANTS
    Callers,      \* requests in flight at once
    Numbers,      \* order numbers a conversion may be asked to use
    NoNumber,     \* no order number
    MayFail       \* may the process die during a call?

\* What an instance must satisfy.
QuotationAssumption ==
    /\ NoNumber \notin Numbers
    /\ MayFail \in BOOLEAN

VARIABLES
    status,     \* quotations.status
    reasoned,   \* is status_reason set?
    orders,     \* numbers of the live orders whose quotation_id names it
    confirmed,  \* those that have been confirmed
    heard,      \* the events the sink has been given about it
    pc,         \* per caller, where the call stands
    number,     \* per caller, the order number its conversion asks for
    event,      \* per caller, the event it is about to publish
    disturbed   \* history: has it been cancelled, or has a call died?

vars == <<status, reasoned, orders, confirmed, heard, pc, number, event, disturbed>>

Statuses == {"draft", "sent", "accepted", "rejected", "cancelled", "ordered"}

\* The verb's target state names its event.
Shows == [QuotationSent |-> "sent", QuotationAccepted |-> "accepted",
          QuotationRejected |-> "rejected", QuotationCancelled |-> "cancelled",
          QuotationReDrafted |-> "draft"]
Events == DOMAIN Shows
NoEvent == "none"

TypeOK ==
    /\ status \in Statuses
    /\ reasoned \in BOOLEAN
    /\ orders \in SUBSET Numbers
    /\ confirmed \in SUBSET orders
    /\ heard \in SUBSET Events
    /\ pc \in [Callers -> {"idle", "publish", "create", "mark"}]
    /\ number \in [Callers -> Numbers \cup {NoNumber}]
    /\ event \in [Callers -> Events \cup {NoEvent}]
    /\ disturbed \in BOOLEAN

Init ==
    /\ status = "draft"
    /\ reasoned = FALSE
    /\ orders = {}
    /\ confirmed = {}
    /\ heard = {}
    /\ pc = [c \in Callers |-> "idle"]
    /\ number = [c \in Callers |-> NoNumber]
    /\ event = [c \in Callers |-> NoEvent]
    /\ disturbed = FALSE

Quiet == \A c \in Callers : pc[c] = "idle"

Return(c) ==
    /\ pc' = [pc EXCEPT ![c] = "idle"]
    /\ number' = [number EXCEPT ![c] = NoNumber]
    /\ event' = [event EXCEPT ![c] = NoEvent]

-----------------------------------------------------------------------------
(* The machine's verbs.                                                    *)

Flip(c, from, e) ==
    /\ pc[c] = "idle"
    /\ status \in from
    /\ status' = Shows[e]
    /\ pc' = [pc EXCEPT ![c] = "publish"]
    /\ event' = [event EXCEPT ![c] = e]
    /\ UNCHANGED <<orders, confirmed, heard, number>>

Send(c) == Flip(c, {"draft"}, "QuotationSent") /\ UNCHANGED <<reasoned, disturbed>>

\* Wrong on purpose: the acceptance is not announced.
AcceptSilently(c) ==
    /\ pc[c] = "idle"
    /\ status \in {"draft", "sent"}
    /\ status' = "accepted"
    /\ UNCHANGED <<reasoned, orders, confirmed, heard, pc, number, event, disturbed>>

Accept(c) == Flip(c, {"draft", "sent"}, "QuotationAccepted") /\ UNCHANGED <<reasoned, disturbed>>

Reject(c) ==
    /\ Flip(c, {"sent"}, "QuotationRejected")
    /\ reasoned' \in BOOLEAN
    /\ UNCHANGED disturbed

Cancel(c) ==
    /\ Flip(c, {"draft", "sent", "accepted"}, "QuotationCancelled")
    /\ reasoned' \in BOOLEAN
    /\ disturbed' = TRUE

\* Wrong on purpose: the reason outlives the state it was given for.
RedraftKeepingReason(c) ==
    /\ Flip(c, {"sent", "cancelled", "rejected"}, "QuotationReDrafted")
    /\ UNCHANGED <<reasoned, disturbed>>

Redraft(c) ==
    /\ Flip(c, {"sent", "cancelled", "rejected"}, "QuotationReDrafted")
    /\ reasoned' = FALSE
    /\ UNCHANGED disturbed

Publish(c) ==
    /\ pc[c] = "publish"
    /\ heard' = heard \cup {event[c]}
    /\ Return(c)
    /\ UNCHANGED <<status, reasoned, orders, confirmed, disturbed>>

-----------------------------------------------------------------------------
(* convert_quotation_to_order.                                             *)

\* Wrong on purpose: the quotation is marked before the order is created.
BeginConvertMarking(c, n) ==
    /\ pc[c] = "idle"
    /\ status = "accepted"
    /\ status' = "ordered"
    /\ pc' = [pc EXCEPT ![c] = "create"]
    /\ number' = [number EXCEPT ![c] = n]
    /\ UNCHANGED <<reasoned, orders, confirmed, heard, event, disturbed>>

\* The status check, on a plain read.
BeginConvert(c, n) ==
    /\ pc[c] = "idle"
    /\ status = "accepted"
    /\ pc' = [pc EXCEPT ![c] = "create"]
    /\ number' = [number EXCEPT ![c] = n]
    /\ UNCHANGED <<status, reasoned, orders, confirmed, heard, event, disturbed>>

\* create_sales_order's transaction, the copied lines included.
CreateOrder(c) ==
    /\ pc[c] = "create"
    /\ number[c] \notin orders
    /\ orders' = orders \cup {number[c]}
    /\ pc' = [pc EXCEPT ![c] = "mark"]
    /\ UNCHANGED <<status, reasoned, confirmed, heard, number, event, disturbed>>

\* DuplicateNumber: the unique index refuses the header.
RefuseNumber(c) ==
    /\ pc[c] = "create"
    /\ number[c] \in orders
    /\ Return(c)
    /\ UNCHANGED <<status, reasoned, orders, confirmed, heard, disturbed>>

\* Wrong on purpose: the quotation is left as it was.
MarkOrderedForgotten(c) ==
    /\ pc[c] = "mark"
    /\ Return(c)
    /\ UNCHANGED <<status, reasoned, orders, confirmed, heard, disturbed>>

\* mark_ordered: the trigger lets accepted become ordered, and a row that is
\* ordered already stay so.
MarkOrdered(c) ==
    /\ pc[c] = "mark"
    /\ status \in {"accepted", "ordered"}
    /\ status' = "ordered"
    /\ Return(c)
    /\ UNCHANGED <<reasoned, orders, confirmed, heard, disturbed>>

\* Any other status raises state_transition_not_declared; the order stays.
MarkRefused(c) ==
    /\ pc[c] = "mark"
    /\ status \notin {"accepted", "ordered"}
    /\ Return(c)
    /\ UNCHANGED <<status, reasoned, orders, confirmed, heard, disturbed>>

\* The new order is confirmed by its own verb, which never reads its quotation.
ConfirmOrder(n) ==
    /\ n \in orders \ confirmed
    /\ confirmed' = confirmed \cup {n}
    /\ UNCHANGED <<status, reasoned, orders, heard, pc, number, event, disturbed>>

-----------------------------------------------------------------------------
\* The process dies between two steps: what was committed stays.
Fail(c) ==
    /\ MayFail
    /\ pc[c] # "idle"
    /\ Return(c)
    /\ disturbed' = TRUE
    /\ UNCHANGED <<status, reasoned, orders, confirmed, heard>>

Verb(c) == Send(c) \/ Accept(c) \/ Reject(c) \/ Cancel(c) \/ Redraft(c)

Continue(c) ==
    \/ Publish(c) \/ CreateOrder(c) \/ RefuseNumber(c)
    \/ MarkOrdered(c) \/ MarkRefused(c)

Next ==
    \/ \E c \in Callers :
          \/ Verb(c)
          \/ \E n \in Numbers : BeginConvert(c, n)
          \/ Continue(c)
          \/ Fail(c)
    \/ \E n \in Numbers : ConfirmOrder(n)

Spec == Init /\ [][Next]_vars

\* A call that was started runs on; nothing obliges a client to start one.
Fairness == \A c \in Callers : WF_vars(Continue(c))

FairSpec == Spec /\ Fairness

-----------------------------------------------------------------------------
(* Properties.                                                             *)

\* mark_ordered runs after the order's commit only: whatever conversions race
\* and crash, an ordered quotation has an order.
OrderedHasOrder == status = "ordered" => orders # {}

\* `ordered' is a one-way door, also under a mark or a verb that was started
\* while the quotation was still accepted.
OneWayDoor == [][status = "ordered" => status' = "ordered"]_vars

\* status_reason is the reason of the state shown: only a rejected or cancelled
\* quotation has one, however it came there.
ReasonFitsState == reasoned => status \in {"rejected", "cancelled"}

\* The read, create and mark of the conversions look like one step to whoever
\* reads with no call in flight, where nobody withdraws the quotation and
\* nothing fails.
ConvertedTogether ==
    Quiet /\ ~disturbed => (orders # {} <=> status = "ordered")

\* A conversion that got as far as its order ends with the quotation ordered,
\* under the same conditions.
ConvertedIsOrdered == orders # {} ~> status = "ordered" \/ disturbed

\* Events follow the flips one call at a time and may overtake each other; yet
\* where no call dies, whoever counts on events has heard of the acceptance of
\* every quotation that an order came from, once no call is in flight.
AcceptanceAnnounced ==
    Quiet /\ ~disturbed /\ orders # {} => "QuotationAccepted" \in heard

-----------------------------------------------------------------------------
(* What the repository says of the conversion and the code does not do.    *)

\* "a confirmed order must never be orphaned by resetting or cancelling its
\* source quotation" (ADR-007).
NeverOrphaned == Quiet /\ confirmed # {} => status \notin {"draft", "cancelled"}
=============================================================================
