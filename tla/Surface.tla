------------------------------ MODULE Surface ------------------------------
(***************************************************************************)
(* The guarded HTTP surface: what a client is answered, and what of it     *)
(* still holds when the client reads it.                                   *)
(*                                                                         *)
(* A handler decodes the request, awaits one verb of SellingWriteService   *)
(* and encodes its result.  A verb commits one or more statements; the     *)
(* refusals of the guarded flips are classified by a read of their own,    *)
(* made afterwards.  The process may die anywhere, and an answer may be    *)
(* lost on its way.                                                        *)
(*                                                                         *)
(* One quotation and the orders under a few numbers stand for all of them. *)
(* The verbs whose rows other modules model answer here by what they may   *)
(* say; of an order in flight only the billed line matters to the rest,    *)
(* and to_deliver_and_bill stands for its three statuses.                  *)
(***************************************************************************)
EXTENDS Naturals, FiniteSets

CONSTANTS
    Clients,
    Numbers,    \* order numbers, and the ids of the orders that bear them
    Unknown,    \* an id that names nothing
    NoCode,
    MayFail     \* may a statement fail and a process die?

VARIABLES
    quotation,  \* its status, or "none"
    orders,     \* per number, sales_orders.status, or "none"
    billed,     \* orders with a billed line
    told,       \* cancelled orders whose decrease log was done
    at,         \* per client, where its call stands
    call,       \* per client, the verb
    id,         \* per client, what it names
    did,        \* per client, has its call committed anything?
    reply,      \* per client, the answer under way: ok or an error code
    \* history, for the properties
    promised,   \* what some client's ok stands for: <<promise, number>>
    owed,       \* untold orders whose canceller was answered decrease_activity_failed
    lost        \* untold orders whose canceller was answered a 500, or nothing

SurfaceAssumption ==
    /\ Unknown \notin Numbers
    /\ MayFail \in BOOLEAN

rows == <<quotation, orders, billed, told>>
calls == <<at, call, id, did, reply>>
history == <<promised, owed, lost>>
vars == <<rows, calls, history>>

-----------------------------------------------------------------------------
(* Codes and statuses.                                                     *)

Flips == {"send", "accept", "redraft", "reject", "withdraw"}

\* "nothing" is a patch that asks nothing; "register" creates, and "elsewhere"
\* changes, a row of another module.
Verbs == Flips \cup {"quote", "order", "convert", "confirm", "cancel", "retry",
                     "edit", "nothing", "sync", "view", "register", "elsewhere"}

NotFound == {"quotation_not_found", "order_not_found", "carrier_not_found",
             "reinvoice_not_found"}

Internal == {"internal_error", "outbox_error"}

\* A port's refusal carries the port's own code; port_rejected stands for it.
Refused == {"empty_document", "negative_quantity", "duplicate_number",
            "quotation_not_accepted", "not_draft", "over_billed", "over_delivered",
            "invalid_transition", "quotation_ordered", "order_billed",
            "order_line_frozen", "template_not_found", "duplicate_template_name",
            "port_rejected", "decrease_activity_failed", "duplicate_carrier_name",
            "duplicate_reinvoice", "invalid_reinvoice_amount"}

Codes == NotFound \cup Internal \cup Refused

HttpStatus(code) ==
    CASE code \in NotFound -> 404
      [] code \in Internal -> 500
      [] OTHER -> 422

Creating == {"quote", "order", "convert", "register"}

\* The status line of an answer.
Answered(c) ==
    IF reply[c] # "ok" THEN HttpStatus(reply[c])
    ELSE IF call[c] \in Creating THEN 201 ELSE 200

-----------------------------------------------------------------------------
TypeOK ==
    /\ quotation \in {"none", "draft", "sent", "accepted", "rejected", "cancelled", "ordered"}
    /\ orders \in [Numbers -> {"none", "draft", "to_deliver_and_bill", "completed", "cancelled"}]
    /\ billed \in SUBSET Numbers
    /\ told \in SUBSET Numbers
    /\ at \in [Clients -> {"idle", "classify", "create", "mark", "ports", "log", "answer"}]
    /\ call \in [Clients -> Verbs \cup {NoCode}]
    /\ id \in [Clients -> Numbers \cup {Unknown}]
    /\ did \in [Clients -> BOOLEAN]
    /\ reply \in [Clients -> Codes \cup {"ok", NoCode}]
    /\ promised \in SUBSET ({"converted", "told"} \X Numbers)
    /\ owed \in SUBSET Numbers
    /\ lost \in SUBSET Numbers

Init ==
    /\ quotation = "none"
    /\ orders = [n \in Numbers |-> "none"]
    /\ billed = {} /\ told = {}
    /\ at = [c \in Clients |-> "idle"]
    /\ call = [c \in Clients |-> NoCode]
    /\ id = [c \in Clients |-> Unknown]
    /\ did = [c \in Clients |-> FALSE]
    /\ reply = [c \in Clients |-> NoCode]
    /\ promised = {} /\ owed = {} /\ lost = {}

StatusOf(o) == IF o = Unknown THEN "none" ELSE orders[o]

\* Calls that neither disturb the others here nor are disturbed by them are explored
\* while none of them is under way.
Alone == \A d \in Clients : at[d] = "idle"

\* Ids are given out by creations: a client knows those, or one that is wrong.
Known == {n \in Numbers : orders[n] # "none"} \cup {o \in {Unknown} : Alone}

\* A fresh request is dispatched to verb v; its first step takes it to `step'.
Take(c, v, o, step, done, code) ==
    /\ at[c] = "idle"
    /\ at' = [at EXCEPT ![c] = step]
    /\ call' = [call EXCEPT ![c] = v]
    /\ id' = [id EXCEPT ![c] = o]
    /\ did' = [did EXCEPT ![c] = done]
    /\ reply' = [reply EXCEPT ![c] = code]
    /\ UNCHANGED history

\* The verb of a running call returns.
Reply(c, done, code) ==
    /\ at' = [at EXCEPT ![c] = "answer"]
    /\ did' = [did EXCEPT ![c] = done]
    /\ reply' = [reply EXCEPT ![c] = code]
    /\ UNCHANGED <<call, id, history>>

Goto(c, step, done) ==
    /\ at' = [at EXCEPT ![c] = step]
    /\ did' = [did EXCEPT ![c] = done]
    /\ UNCHANGED <<call, id, reply, history>>

-----------------------------------------------------------------------------
(* Quotations.                                                             *)

\* Pricing refuses, or the number is taken; otherwise header and lines commit.
CreateQuotation(c) ==
    \/ /\ quotation = "none"
       /\ quotation' = "draft"
       /\ Take(c, "quote", Unknown, "answer", TRUE, "ok")
       /\ UNCHANGED <<orders, billed, told>>
    \/ /\ Alone
       /\ \E code \in {"empty_document", "negative_quantity", "template_not_found"} :
             Take(c, "quote", Unknown, "answer", FALSE, code)
       /\ UNCHANGED rows
    \/ /\ quotation # "none"
       /\ Take(c, "quote", Unknown, "answer", FALSE, "duplicate_number")
       /\ UNCHANGED rows

From(v) ==
    CASE v = "send"     -> {"draft"}
      [] v = "accept"   -> {"draft", "sent"}
      [] v = "reject"   -> {"sent"}
      [] v = "redraft"  -> {"sent", "cancelled", "rejected"}
      [] v = "withdraw" -> {"draft", "sent", "accepted"}

To(v) ==
    CASE v = "send"     -> "sent"
      [] v = "accept"   -> "accepted"
      [] v = "reject"   -> "rejected"
      [] v = "redraft"  -> "draft"
      [] v = "withdraw" -> "cancelled"

\* One guarded statement; a quotation that is not there matches no more than one
\* in another status.
FlipQuotation(c, v) ==
    IF quotation \in From(v)
    THEN /\ quotation' = To(v)
         /\ Take(c, v, Unknown, "answer", TRUE, "ok")
         /\ UNCHANGED <<orders, billed, told>>
    ELSE /\ quotation # "none"
         /\ Take(c, v, Unknown, "classify", FALSE, NoCode)
         /\ UNCHANGED rows

\* refuse_quotation_transition and refuse_quotation_cancel: a read that fails is
\* answered like a quotation that is not there.
ClassifyQuotation(c) ==
    /\ at[c] = "classify" /\ call[c] \in Flips
    /\ \/ /\ MayFail
          /\ Reply(c, FALSE, "quotation_not_found")
       \/ /\ quotation = "ordered" /\ call[c] = "withdraw"
          /\ Reply(c, FALSE, "quotation_ordered")
       \/ /\ ~(quotation = "ordered" /\ call[c] = "withdraw")
          /\ Reply(c, FALSE, "invalid_transition")
    /\ UNCHANGED rows

-----------------------------------------------------------------------------
(* convert_quotation_to_order.                                             *)

ConvertQuotation(c, n) ==
    /\ IF quotation = "accepted"
       THEN Take(c, "convert", n, "create", FALSE, NoCode)
       ELSE Take(c, "convert", n, "answer", FALSE,
                 IF quotation = "none" THEN "quotation_not_found"
                 ELSE "quotation_not_accepted")
    /\ UNCHANGED rows

ConvertCreate(c) ==
    /\ at[c] = "create"
    /\ IF orders[id[c]] = "none"
       THEN orders' = [orders EXCEPT ![id[c]] = "draft"] /\ Goto(c, "mark", TRUE)
       ELSE Reply(c, FALSE, "duplicate_number") /\ UNCHANGED orders
    /\ UNCHANGED <<quotation, billed, told>>

\* Wrong on purpose: a mark that the trigger refuses passes for one that was made.
ConvertMarkSwallowing(c) ==
    /\ at[c] = "mark"
    /\ quotation' = IF quotation = "accepted" THEN "ordered" ELSE quotation
    /\ Reply(c, TRUE, "ok")
    /\ UNCHANGED <<orders, billed, told>>

\* The transition trigger decides whether the unguarded mark goes through.
ConvertMark(c) ==
    /\ at[c] = "mark"
    /\ IF quotation \in {"accepted", "ordered"}
       THEN quotation' = "ordered" /\ Reply(c, TRUE, "ok")
       ELSE Reply(c, TRUE, "internal_error") /\ UNCHANGED quotation
    /\ UNCHANGED <<orders, billed, told>>

-----------------------------------------------------------------------------
(* Orders.                                                                 *)

CreateOrder(c, n) ==
    \/ /\ orders[n] = "none"
       /\ orders' = [orders EXCEPT ![n] = "draft"]
       /\ Take(c, "order", n, "answer", TRUE, "ok")
       /\ UNCHANGED <<quotation, billed, told>>
    \/ /\ Alone
       /\ \E code \in {"empty_document", "negative_quantity", "carrier_not_found"} :
             Take(c, "order", n, "answer", FALSE, code)
       /\ UNCHANGED rows
    \/ /\ orders[n] # "none"
       /\ Take(c, "order", n, "answer", FALSE, "duplicate_number")
       /\ UNCHANGED rows

\* The four ports come before the guard, whatever the order's status.
ConfirmOrder(c, o) ==
    /\ Take(c, "confirm", o, "ports", FALSE, NoCode)
    /\ UNCHANGED rows

\* The guarded flip; an id that names nothing is answered like a confirmed order.
FlipOrder(c) ==
    /\ at[c] = "ports"
    /\ IF StatusOf(id[c]) = "draft"
       THEN /\ orders' = [orders EXCEPT ![id[c]] = "to_deliver_and_bill"]
            /\ Reply(c, TRUE, "ok")
       ELSE Reply(c, FALSE, "not_draft") /\ UNCHANGED orders
    /\ UNCHANGED <<quotation, billed, told>>

PortRefuses(c) ==
    /\ at[c] = "ports"
    /\ Reply(c, FALSE, "port_rejected")
    /\ UNCHANGED rows

\* SalesInvoicePosted, from the billing side.
Bill(n) ==
    /\ orders[n] # "none"
    /\ billed' = billed \cup {n}
    /\ UNCHANGED <<quotation, orders, told, calls, history>>

\* The seams' recompute finishes an order in flight, billed or not: its lines may
\* ask for nothing.
Complete(n) ==
    /\ orders[n] = "to_deliver_and_bill"
    /\ orders' = [orders EXCEPT ![n] = "completed"]
    /\ UNCHANGED <<quotation, billed, told, calls, history>>

Cancellable(o) ==
    StatusOf(o) \in {"draft", "to_deliver_and_bill"} /\ o \notin billed

CancelOrder(c, o) ==
    IF Cancellable(o)
    THEN /\ orders' = [orders EXCEPT ![o] = "cancelled"]
         /\ Take(c, "cancel", o, "log", TRUE, NoCode)
         /\ UNCHANGED <<quotation, billed, told>>
    ELSE /\ Take(c, "cancel", o, "classify", FALSE, NoCode)
         /\ UNCHANGED rows

\* Wrong on purpose: a billed line explains every refusal.
ClassifyCancelBilledFirst(c) ==
    /\ at[c] = "classify" /\ call[c] = "cancel"
    /\ Reply(c, FALSE,
         CASE StatusOf(id[c]) = "none" -> "order_not_found"
           [] StatusOf(id[c]) # "none" -> "order_billed")
    /\ UNCHANGED rows

\* find_cancel_refusal, after the refusal.  (No verb closes an order.)
ClassifyCancel(c) ==
    /\ at[c] = "classify" /\ call[c] = "cancel"
    /\ Reply(c, FALSE,
         CASE StatusOf(id[c]) = "none" -> "order_not_found"
           [] StatusOf(id[c]) \in {"completed", "cancelled"} -> "invalid_transition"
           [] StatusOf(id[c]) \in {"draft", "to_deliver_and_bill"} ->
                IF id[c] \in billed THEN "order_billed" ELSE "invalid_transition")
    /\ UNCHANGED rows

\* The decrease log, after the commit, from the cancel or from its retry: the stock
\* engine takes it, or there is no line to tell it of.
LogDecrease(c) ==
    /\ at[c] = "log"
    /\ told' = told \cup {id[c]}
    /\ at' = [at EXCEPT ![c] = "answer"]
    /\ reply' = [reply EXCEPT ![c] = "ok"]
    /\ owed' = owed \ {id[c]}
    /\ lost' = lost \ {id[c]}
    /\ UNCHANGED <<quotation, orders, billed, call, id, did, promised>>

\* Wrong on purpose: the order is cancelled, so the caller is told so.
LogFailsSilently(c) ==
    /\ at[c] = "log"
    /\ Reply(c, did[c], "ok")
    /\ UNCHANGED rows

LogFails(c) ==
    /\ at[c] = "log"
    /\ Reply(c, did[c], "decrease_activity_failed")
    /\ UNCHANGED rows

\* Wrong on purpose: an order that is cancelled needs no second log.
RetryDecreaseOnce(c, o) ==
    /\ Take(c, "retry", o, "answer", FALSE,
            IF StatusOf(o) = "none" THEN "order_not_found" ELSE "invalid_transition")
    /\ UNCHANGED rows

RetryDecrease(c, o) ==
    /\ IF StatusOf(o) = "cancelled"
       THEN Take(c, "retry", o, "log", FALSE, NoCode)
       ELSE Take(c, "retry", o, "answer", FALSE,
                 IF StatusOf(o) = "none" THEN "order_not_found" ELSE "invalid_transition")
    /\ UNCHANGED rows

\* A line of the order, under the lock: the description alone, or frozen fields too.
\* A patch that asks nothing is answered before the line is looked for.
EditLine(c, o) ==
    /\ \/ Alone /\ Take(c, "nothing", o, "answer", FALSE, "ok")
       \/ \E frozen \in BOOLEAN :
          \/ /\ StatusOf(o) = "none"
             /\ Take(c, "edit", o, "answer", FALSE, "order_not_found")
          \/ /\ StatusOf(o) \notin {"none", "draft"} /\ frozen
             /\ Take(c, "edit", o, "answer", FALSE, "order_line_frozen")
          \/ /\ StatusOf(o) = "draft" /\ frozen
             /\ Take(c, "edit", o, "answer", FALSE, "negative_quantity")
          \/ /\ StatusOf(o) = "draft" \/ (StatusOf(o) # "none" /\ ~frozen)
             /\ Take(c, "edit", o, "answer", TRUE, "ok")
    /\ UNCHANGED rows

-----------------------------------------------------------------------------
(* Views, and the verbs whose rows are modelled elsewhere.                 *)

\* Invoice status and margin of an order: one existence probe.
View(c, o) ==
    /\ Alone
    /\ Take(c, "view", o, "answer", FALSE,
            IF StatusOf(o) = "none" THEN "order_not_found" ELSE "ok")
    /\ UNCHANGED rows

\* Its move-backed delivery view asks the stock engine as well; nothing is written.
DeliveryView(c, o) ==
    /\ Alone
    /\ \E code \in IF StatusOf(o) = "none" THEN {"order_not_found"} ELSE {"ok", "port_rejected"} :
          Take(c, "view", o, "answer", FALSE, code)
    /\ UNCHANGED rows

\* sync_delivered_from_moves asks no order: no lines, or no figures, and it is done.
\* Its recompute may fail when the watermarks are committed.
Sync(c, o) ==
    /\ Alone
    /\ \/ \E done \in BOOLEAN :
             /\ done => StatusOf(o) # "none"
             /\ \/ Take(c, "sync", o, "answer", done, "ok")
                \/ MayFail /\ Take(c, "sync", o, "answer", done, "internal_error")
       \/ StatusOf(o) # "none" /\ Take(c, "sync", o, "answer", FALSE, "port_rejected")
    /\ UNCHANGED rows

TemplateCodes == {"duplicate_template_name"}
CarrierCodes == {"duplicate_carrier_name", "carrier_not_found"}
DeliveryCodes == {"carrier_not_found", "order_not_found", "invalid_transition"}
ReinvoiceCodes == {"invalid_reinvoice_amount", "order_not_found", "invalid_transition",
                   "duplicate_reinvoice", "reinvoice_not_found"}

\* Ok with what was asked committed, or one of these with nothing; a carrier patch
\* that asks nothing is answered like a line's.  A commit that fails may have landed.
Elsewhere(c) ==
    /\ Alone
    /\ \/ Take(c, "nothing", Unknown, "answer", FALSE, "ok")
       \/ \E v \in {"register", "elsewhere"} :
             \/ Take(c, v, Unknown, "answer", TRUE, "ok")
             \/ \E code \in TemplateCodes \cup CarrierCodes \cup DeliveryCodes
                            \cup ReinvoiceCodes :
                   Take(c, v, Unknown, "answer", FALSE, code)
             \/ /\ MayFail
                /\ \E done \in BOOLEAN :
                      Take(c, v, Unknown, "answer", done, "internal_error")
    /\ UNCHANGED rows

-----------------------------------------------------------------------------
(* The way back.                                                           *)

HangUp(c) ==
    /\ at' = [at EXCEPT ![c] = "idle"]
    /\ call' = [call EXCEPT ![c] = NoCode]
    /\ id' = [id EXCEPT ![c] = Unknown]
    /\ did' = [did EXCEPT ![c] = FALSE]
    /\ reply' = [reply EXCEPT ![c] = NoCode]

\* What an ok means beyond the moment, by verb.
Promise(v) ==
    CASE v = "convert" -> {"converted"}
      [] v \in {"cancel", "retry"} -> {"told"}
      [] OTHER -> {}

Hear(c) ==
    /\ at[c] = "answer"
    /\ HangUp(c)
    /\ promised' = promised \cup
          {<<p, id[c]>> : p \in {q \in Promise(call[c]) : reply[c] = "ok"}}
    /\ owed' = owed \cup {n \in Numbers \ told :
                              n = id[c] /\ reply[c] = "decrease_activity_failed"}
    /\ lost' = lost \cup {n \in Numbers \ told :
                              n = id[c] /\ call[c] = "cancel" /\ did[c]
                              /\ reply[c] = "internal_error"}
    /\ UNCHANGED rows

\* A statement of a running call fails: Db, with what was committed before.
Fail(c) ==
    /\ MayFail
    /\ at[c] \in {"create", "mark", "ports", "log"}
       \/ (at[c] = "classify" /\ call[c] = "cancel")
    /\ Reply(c, did[c], "internal_error")
    /\ UNCHANGED rows

\* The process dies, or the answer does not arrive.
Vanish(c) ==
    /\ MayFail
    /\ at[c] # "idle"
    /\ HangUp(c)
    /\ lost' = lost \cup {n \in Numbers \ told : n = id[c] /\ call[c] = "cancel" /\ did[c]}
    /\ UNCHANGED <<rows, promised, owed>>

-----------------------------------------------------------------------------
Request(c) ==
    \/ CreateQuotation(c) \/ Elsewhere(c)
    \/ \E v \in Flips : FlipQuotation(c, v)
    \/ \E n \in Numbers : CreateOrder(c, n) \/ ConvertQuotation(c, n)
    \/ \E o \in Known :
          \/ ConfirmOrder(c, o) \/ CancelOrder(c, o) \/ RetryDecrease(c, o)
          \/ EditLine(c, o) \/ Sync(c, o) \/ View(c, o) \/ DeliveryView(c, o)

Continue(c) ==
    \/ ClassifyQuotation(c) \/ ConvertCreate(c) \/ ConvertMark(c)
    \/ FlipOrder(c) \/ PortRefuses(c) \/ ClassifyCancel(c)
    \/ LogDecrease(c) \/ LogFails(c)
    \/ Hear(c)

Next ==
    \/ \E n \in Numbers : Bill(n) \/ Complete(n)
    \/ \E c \in Clients : Request(c) \/ Continue(c) \/ Fail(c) \/ Vanish(c)

Spec == Init /\ [][Next]_vars

\* "the composition retries with the retry verb once its engine is healthy": a
\* cancel that was answered decrease_activity_failed is retried whenever a client
\* is free to, and the engine does not fail for ever.
RetryOwed(n) == n \in owed /\ \E c \in Clients : RetryDecrease(c, n)

LogReaches(n) == \E c \in Clients : id[c] = n /\ LogDecrease(c)

Fairness ==
    /\ \A c \in Clients : WF_vars(Continue(c))
    /\ \A n \in Numbers : SF_vars(RetryOwed(n)) /\ SF_vars(LogReaches(n))

FairSpec == Spec /\ Fairness

-----------------------------------------------------------------------------
(* Properties.                                                             *)

\* The verbs whose ok is of a commit of their own, and those that commit nothing; a
\* sync may be either.
Committing == Verbs \ {"view", "nothing", "retry", "sync"}
Idle == {"view", "nothing", "retry"}

\* "Refusals are loud 422s, never silent no-ops": an ok of a verb that writes was earned
\* by a commit of this call, and what it announces is still so when it is read; a 4xx
\* has committed nothing; and the one refusal that comes after a commit says so of an
\* order that is cancelled.  No-ops that are answered 200 are so of nothing asked
\* (selling_order.rs: "An all-`None` patch is a no-op").
AnswersTellTheTruth ==
    \A c \in Clients : at[c] = "answer" =>
        /\ Answered(c) \in {200, 201} =>
              /\ call[c] \in Committing => did[c]
              /\ call[c] \in Idle => ~did[c]
              /\ call[c] = "convert" => quotation = "ordered" /\ StatusOf(id[c]) # "none"
              /\ call[c] = "confirm" => StatusOf(id[c]) \notin {"none", "draft"}
              /\ call[c] \in {"cancel", "retry"} =>
                    StatusOf(id[c]) = "cancelled" /\ id[c] \in told
        /\ Answered(c) \in {404, 422} /\ reply[c] # "decrease_activity_failed" => ~did[c]
        /\ reply[c] = "decrease_activity_failed" => /\ Answered(c) = 422
                                                    /\ StatusOf(id[c]) = "cancelled"

\* The classification reads come after the refusal they explain, and other clients
\* go on meanwhile; what these codes name is still so when the answer is read.
RefusalsStand ==
    \A c \in Clients : at[c] = "answer" =>
        /\ reply[c] = "quotation_ordered" => quotation = "ordered"
        /\ reply[c] = "duplicate_number" =>
              IF call[c] = "quote" THEN quotation # "none" ELSE orders[id[c]] # "none"
        /\ reply[c] = "not_draft" => StatusOf(id[c]) # "draft"
        /\ reply[c] = "order_line_frozen" => StatusOf(id[c]) \notin {"none", "draft"}
        /\ reply[c] = "order_billed" => id[c] \in billed /\ StatusOf(id[c]) # "none"
        /\ reply[c] = "invalid_transition" /\ call[c] = "cancel" =>
              StatusOf(id[c]) \in {"completed", "cancelled"}
        /\ reply[c] = "order_not_found" => id[c] = Unknown

\* Whatever a client was once answered ok: a conversion's quotation is ordered and
\* its order is there, and the stock side knows of a cancel.
PromisesStand ==
    \A p \in promised : LET n == p[2] IN
        /\ p[1] = "converted" => quotation = "ordered" /\ orders[n] # "none"
        /\ p[1] = "told" => orders[n] = "cancelled" /\ n \in told

\* Log failures, dying retries and other clients in between: the stock side hears of
\* every cancel, unless the canceller was left with a 500 or without an answer.
CancelledIsTold ==
    \A n \in Numbers : orders[n] = "cancelled" ~> n \in told \cup lost
=============================================================================
