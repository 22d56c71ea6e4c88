--------------------------- MODULE DeliveryOutbox ---------------------------
(***************************************************************************)
(* build_delivery_request and the way a request takes to the inventory     *)
(* side.                                                                   *)
(*                                                                         *)
(* The call reads the order's header, then its remainders, in two          *)
(* statements; stages the event in selling.outbox_events in a transaction  *)
(* of its own; and, after the commit, gives the same event to the          *)
(* in-process sink.  It may die between any two of these.  A relay drains  *)
(* the outbox at least once: it hands a record over, and marks it          *)
(* dispatched afterwards.  The consumer keeps the ids it has handled.      *)
(***************************************************************************)
EXTENDS Naturals, Sequences, SequencesExt

CONSTANTS
    Callers,      \* requests in flight at once
    Lines,        \* the order's live lines
    Quantities,   \* ordered quantities
    MaxRequests,  \* how many requests the run stages
    MayFail       \* may a call die between two statements?

\* What an instance must satisfy.
OutboxAssumption ==
    /\ Quantities \subseteq Nat
    /\ MaxRequests \in Nat
    /\ MayFail \in BOOLEAN

VARIABLES
    status,      \* sales_orders.status
    quantity,    \* per line
    delivered,   \* per line, the watermark mark_delivered raises
    outbox,      \* selling.outbox_events in commit order: the lines asked for
    dispatched,  \* records the relay has marked
    handled,     \* records the consumer has acted on, in order
    heard,       \* records whose event the in-process sink was given
    pc,
    asked,       \* per caller, the remainders it read
    record       \* per caller, the record it staged

order == <<status, quantity, delivered>>
calls == <<pc, asked, record>>
vars == <<order, outbox, dispatched, handled, heard, calls>>

\* The other in-flight statuses are alike here: only draft is refused.
Statuses == {"draft", "to_deliver_and_bill", "cancelled"}

Nothing == [l \in Lines |-> 0]

TypeOK ==
    /\ status \in Statuses
    /\ quantity \in [Lines -> Quantities]
    /\ delivered \in [Lines -> Nat]
    /\ outbox \in Seq([Lines -> Nat])
    /\ dispatched \in SUBSET (DOMAIN outbox)
    /\ handled \in Seq(DOMAIN outbox)
    /\ heard \in SUBSET Nat
    /\ pc \in [Callers -> {"idle", "remainders", "stage", "publish"}]
    /\ asked \in [Callers -> [Lines -> Nat]]
    /\ record \in [Callers -> Nat]

Init ==
    /\ status = "draft"
    /\ quantity \in [Lines -> Quantities]
    /\ delivered = Nothing
    /\ outbox = <<>>
    /\ dispatched = {}
    /\ handled = <<>>
    /\ heard = {}
    /\ pc = [c \in Callers |-> "idle"]
    /\ asked = [c \in Callers |-> Nothing]
    /\ record = [c \in Callers |-> 0]

-----------------------------------------------------------------------------
(* The order's other verbs, as far as a request can see them.              *)

EditLine(l) ==
    /\ status = "draft"
    /\ \E q \in Quantities : quantity' = [quantity EXCEPT ![l] = q]
    /\ UNCHANGED <<status, delivered, outbox, dispatched, handled, heard, calls>>

Confirm ==
    /\ status = "draft"
    /\ status' = "to_deliver_and_bill"
    /\ UNCHANGED <<quantity, delivered, outbox, dispatched, handled, heard, calls>>

Cancel ==
    /\ status # "cancelled"
    /\ status' = "cancelled"
    /\ UNCHANGED <<quantity, delivered, outbox, dispatched, handled, heard, calls>>

\* mark_delivered, capped at what is ordered, in any status: a draft's line may be
\* delivered, and then edited below it.  (The stock engine's sync may also take
\* deliveries back; what that reopens is asked for by a later request.)
Deliver(l) ==
    /\ \E q \in 1..(quantity[l] - delivered[l]) :
          delivered' = [delivered EXCEPT ![l] = @ + q]
    /\ UNCHANGED <<status, quantity, outbox, dispatched, handled, heard, calls>>

-----------------------------------------------------------------------------
(* build_delivery_request.                                                 *)

Return(c) ==
    /\ pc' = [pc EXCEPT ![c] = "idle"]
    /\ asked' = [asked EXCEPT ![c] = Nothing]
    /\ record' = [record EXCEPT ![c] = 0]

Goto(c, step) == pc' = [pc EXCEPT ![c] = step]

\* MaxRequests bounds the run: no call starts that could stage one more.
RoomForOne == Len(outbox) + Cardinality({c \in Callers : pc[c] # "idle"}) < MaxRequests

\* Wrong on purpose: an order in draft is not refused.
ReadHeaderUnchecked(c) ==
    /\ pc[c] = "idle"
    /\ RoomForOne
    /\ Goto(c, "remainders")
    /\ UNCHANGED <<order, outbox, dispatched, handled, heard, asked, record>>

\* The header read: an order still in draft is refused, and no other is.
ReadHeader(c) ==
    /\ pc[c] = "idle"
    /\ RoomForOne
    /\ status # "draft"
    /\ Goto(c, "remainders")
    /\ UNCHANGED <<order, outbox, dispatched, handled, heard, asked, record>>

\* Only lines with something left are read.
Remainder(l) ==
    IF delivered[l] < quantity[l] THEN quantity[l] - delivered[l] ELSE 0

\* Wrong on purpose: a line delivered beyond what is ordered now is read as well.
ReadRemaindersUnfiltered(c) ==
    /\ pc[c] = "remainders"
    /\ asked' = [asked EXCEPT ![c] = [l \in Lines |-> quantity[l] - delivered[l]]]
    /\ Goto(c, "stage")
    /\ UNCHANGED <<order, outbox, dispatched, handled, heard, record>>

ReadRemainders(c) ==
    /\ pc[c] = "remainders"
    /\ asked' = [asked EXCEPT ![c] = [l \in Lines |-> Remainder(l)]]
    /\ Goto(c, "stage")
    /\ UNCHANGED <<order, outbox, dispatched, handled, heard, record>>

\* The outbox transaction.  Every call stages a record of its own, also for an
\* order that has been requested before or has nothing left to deliver.
Stage(c) ==
    /\ pc[c] = "stage"
    /\ outbox' = Append(outbox, asked[c])
    /\ record' = [record EXCEPT ![c] = Len(outbox')]
    /\ Goto(c, "publish")
    /\ UNCHANGED <<order, dispatched, handled, heard, asked>>

\* The fast path.
Publish(c) ==
    /\ pc[c] = "publish"
    /\ heard' = heard \cup {record[c]}
    /\ Return(c)
    /\ UNCHANGED <<order, outbox, dispatched, handled>>

\* The process dies, or the stage fails: the transaction is rolled back, what
\* was committed stays.
Fail(c) ==
    /\ MayFail
    /\ pc[c] # "idle"
    /\ Return(c)
    /\ UNCHANGED <<order, outbox, dispatched, handled, heard>>

-----------------------------------------------------------------------------
(* The relay and its consumer (backbone_outbox).                           *)

\* A record is handed over again until it is marked; inbox::once makes every
\* delivery after the first one void.
HandOver(r) ==
    /\ r \notin dispatched
    /\ ~Contains(handled, r)
    /\ handled' = Append(handled, r)
    /\ UNCHANGED <<order, outbox, dispatched, heard, calls>>

\* Wrong on purpose: a record is marked before it is handed over.
MarkDispatchedFirst(r) ==
    /\ r \notin dispatched
    /\ dispatched' = dispatched \cup {r}
    /\ UNCHANGED <<order, outbox, handled, heard, calls>>

MarkDispatched(r) ==
    /\ r \notin dispatched
    /\ Contains(handled, r)
    /\ dispatched' = dispatched \cup {r}
    /\ UNCHANGED <<order, outbox, handled, heard, calls>>

-----------------------------------------------------------------------------
Continue(c) == ReadRemainders(c) \/ Stage(c) \/ Publish(c)

Relay(r) == HandOver(r) \/ MarkDispatched(r)

Next ==
    \/ \E l \in Lines : EditLine(l) \/ Deliver(l)
    \/ Confirm \/ Cancel
    \/ \E c \in Callers : ReadHeader(c) \/ Continue(c) \/ Fail(c)
    \/ \E r \in DOMAIN outbox : Relay(r)

Spec == Init /\ [][Next]_vars

\* The relay polls for as long as there is a record to hand over.
Fairness == \A r \in 1..MaxRequests : WF_vars(r \in DOMAIN outbox /\ Relay(r))

FairSpec == Spec /\ Fairness

-----------------------------------------------------------------------------
(* Properties.                                                             *)

\* "a crash between here and the in-proc publish must not drop it": whatever
\* the fast path has announced is durable, with the record it announced.
HeardIsStaged == heard \subseteq DOMAIN outbox

\* The header and the remainders are read apart, while deliveries go on: what is
\* left to deliver of a line is still within every request made for it, and no
\* request asks for more than was ordered, because the draft check comes first
\* and quantities are frozen from there on.
RequestsCover ==
    \A r \in DOMAIN outbox : \A l \in Lines :
        quantity[l] - delivered[l] <= outbox[r][l] /\ outbox[r][l] <= quantity[l]

\* "a crash between here and the in-proc publish must not drop it": a request that
\* anybody has heard of, or that is staged, reaches the consumer, also when the call
\* dies before the publish and the relay dies between its two steps.
AnnouncedIsHandled ==
    \A r \in 1..MaxRequests :
        r \in heard \cup DOMAIN outbox ~> Contains(handled, r)

\* The relayed outbox implements requests that are handled exactly once.
Promised == INSTANCE DeliveryRequests WITH requests <- outbox
ImplementsRequests == Promised!Spec

-----------------------------------------------------------------------------
(* What the repository says of the request and the code does not do.       *)

\* "Guard: the order must be confirmed (not draft/cancelled)".
ConfirmedOnly ==
    [][\A c \in Callers :
          pc[c] = "idle" /\ pc'[c] = "remainders" => status \notin {"draft", "cancelled"}]_vars
=============================================================================
