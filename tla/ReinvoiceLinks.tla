--------------------------- MODULE ReinvoiceLinks ---------------------------
(***************************************************************************)
(* The expenses of one order that are to be billed on: the three verbs of  *)
(* selling_reinvoice, the generic soft delete and restore of a link, and   *)
(* the billing adapters that pull the pending links, post an invoice and   *)
(* mark what they billed.                                                  *)
(*                                                                         *)
(* attach is three statements (the order's status, the live duplicate, the *)
(* insert), and only the insert is backed by a constraint: the partial     *)
(* unique index over live links.  An adapter is no part of selling; it may *)
(* die between its post and its marks, and two of them may run at once.    *)
(***************************************************************************)
EXTENDS Naturals, Sequences, FiniteSets

CONSTANTS
    Callers,    \* attach calls in flight at once
    Adapters,   \* billing runs in flight at once
    Expenses,
    MaxLinks,   \* how many links the run attaches
    MaxBills,   \* how many billing runs
    MayFail,    \* may a call or an adapter die?
    NoExpense

\* What an instance must satisfy.
ReinvoiceAssumption ==
    /\ IsFiniteSet(Callers) /\ IsFiniteSet(Adapters)
    /\ MaxLinks \in Nat /\ MaxBills \in Nat
    /\ MayFail \in BOOLEAN
    /\ NoExpense \notin Expenses

VARIABLES
    status,    \* sales_orders.status
    links,     \* selling.expense_reinvoice_links of the order, by insertion
    pc,
    expense,   \* per caller, the expense it attaches
    stage,     \* per adapter, where the billing run stands
    pulled,    \* per adapter, the links it has yet to bill or mark
    bills,     \* billing runs started
    \* history, for the properties
    billed,    \* per link, the posts that included it
    acked,     \* per link, the marks that were accepted
    refused,   \* per link, the marks that were refused
    mishaps    \* what has gone wrong around the links so far

calls == <<pc, expense>>
billing == <<stage, pulled, bills, billed, acked, refused>>
vars == <<status, links, calls, billing, mishaps>>

Link == [expense : Expenses, state : {"pending", "invoiced"}, live : BOOLEAN]
Ids == 1..MaxLinks

\* An adapter overlaps another, or dies; a link is deleted.
Mishaps == {"overlap", "died", "deleted"}

Live == {i \in DOMAIN links : links[i].live}
LiveOf(e) == {i \in Live : links[i].expense = e}

TypeOK ==
    /\ status \in {"draft", "to_deliver_and_bill", "cancelled"}
    /\ links \in Seq(Link)
    /\ pc \in [Callers -> {"idle", "duplicate", "insert"}]
    /\ expense \in [Callers -> Expenses \cup {NoExpense}]
    /\ stage \in [Adapters -> {"idle", "post", "mark"}]
    /\ pulled \in [Adapters -> SUBSET (DOMAIN links)]
    /\ bills \in Nat
    /\ billed \in [Ids -> Nat]
    /\ acked \in [Ids -> Nat]
    /\ refused \in [Ids -> Nat]
    /\ mishaps \in SUBSET Mishaps

Init ==
    /\ status = "draft"
    /\ links = <<>>
    /\ pc = [c \in Callers |-> "idle"]
    /\ expense = [c \in Callers |-> NoExpense]
    /\ stage = [a \in Adapters |-> "idle"]
    /\ pulled = [a \in Adapters |-> {}]
    /\ bills = 0
    /\ billed = [i \in Ids |-> 0]
    /\ acked = [i \in Ids |-> 0]
    /\ refused = [i \in Ids |-> 0]
    /\ mishaps = {}

Confirm ==
    /\ status = "draft"
    /\ status' = "to_deliver_and_bill"
    /\ UNCHANGED <<links, calls, billing, mishaps>>

Cancel ==
    /\ status # "cancelled"
    /\ status' = "cancelled"
    /\ UNCHANGED <<links, calls, billing, mishaps>>

-----------------------------------------------------------------------------
(* attach_expense_reinvoice.                                               *)

Return(c) ==
    /\ pc' = [pc EXCEPT ![c] = "idle"]
    /\ expense' = [expense EXCEPT ![c] = NoExpense]

\* MaxLinks bounds the run: no attach starts that could exceed it.
RoomForOne == Len(links) + Cardinality({c \in Callers : pc[c] # "idle"}) < MaxLinks

\* The status read, for a positive amount; a cancelled order refuses.
BeginAttach(c, e) ==
    /\ pc[c] = "idle"
    /\ RoomForOne
    /\ status # "cancelled"
    /\ pc' = [pc EXCEPT ![c] = "duplicate"]
    /\ expense' = [expense EXCEPT ![c] = e]
    /\ UNCHANGED <<status, links, billing, mishaps>>

\* The pre-read: a live link of the expense refuses with DuplicateReinvoice.
ReadDuplicate(c) ==
    /\ pc[c] = "duplicate"
    /\ IF LiveOf(expense[c]) = {}
       THEN pc' = [pc EXCEPT ![c] = "insert"] /\ UNCHANGED expense
       ELSE Return(c)
    /\ UNCHANGED <<status, links, billing, mishaps>>

\* Wrong on purpose: nothing backs the pre-read.
InsertUnbacked(c) ==
    /\ pc[c] = "insert"
    /\ links' = Append(links, [expense |-> expense[c], state |-> "pending", live |-> TRUE])
    /\ Return(c)
    /\ UNCHANGED <<status, billing, mishaps>>

\* The insert, under the partial unique index.
Insert(c) ==
    /\ pc[c] = "insert"
    /\ LiveOf(expense[c]) = {}
    /\ links' = Append(links, [expense |-> expense[c], state |-> "pending", live |-> TRUE])
    /\ Return(c)
    /\ UNCHANGED <<status, billing, mishaps>>

\* The index refuses: DuplicateReinvoice, as from the pre-read.
InsertRefused(c) ==
    /\ pc[c] = "insert"
    /\ LiveOf(expense[c]) # {}
    /\ Return(c)
    /\ UNCHANGED <<status, links, billing, mishaps>>

FailAttach(c) ==
    /\ MayFail
    /\ pc[c] # "idle"
    /\ Return(c)
    /\ UNCHANGED <<status, links, billing, mishaps>>

-----------------------------------------------------------------------------
(* The generic service of the entity: soft delete and restore.             *)

SoftDelete(i) ==
    /\ i \in Live
    /\ links' = [links EXCEPT ![i].live = FALSE]
    /\ mishaps' = mishaps \cup {"deleted"}
    /\ UNCHANGED <<status, calls, billing>>

\* Wrong on purpose: a restored link starts over.
RestorePending(i) ==
    /\ i \in DOMAIN links \ Live
    /\ LiveOf(links[i].expense) = {}
    /\ links' = [links EXCEPT ![i].live = TRUE, ![i].state = "pending"]
    /\ UNCHANGED <<status, calls, billing, mishaps>>

\* The index also refuses a restore beside the link that replaced it.
Restore(i) ==
    /\ i \in DOMAIN links \ Live
    /\ LiveOf(links[i].expense) = {}
    /\ links' = [links EXCEPT ![i].live = TRUE]
    /\ UNCHANGED <<status, calls, billing, mishaps>>

-----------------------------------------------------------------------------
(* The billing adapter's contract (steps 1 to 3 of the module's header).   *)

\* list_expense_reinvoices, filtered for pending; nothing pending, nothing to do.
Pull(a) ==
    /\ stage[a] = "idle"
    /\ bills < MaxBills
    /\ LET pending == {i \in Live : links[i].state = "pending"}
       IN  /\ pending # {}
           /\ pulled' = [pulled EXCEPT ![a] = pending]
    /\ stage' = [stage EXCEPT ![a] = "post"]
    /\ bills' = bills + 1
    /\ mishaps' = mishaps \cup {m \in {"overlap"} : \E b \in Adapters : stage[b] # "idle"}
    /\ UNCHANGED <<status, links, calls, billed, acked, refused>>

Post(a) ==
    /\ stage[a] = "post"
    /\ billed' = [i \in Ids |-> IF i \in pulled[a] THEN billed[i] + 1 ELSE billed[i]]
    /\ stage' = [stage EXCEPT ![a] = "mark"]
    /\ UNCHANGED <<status, links, calls, pulled, bills, acked, refused, mishaps>>

Pending(i) == i \in Live /\ links[i].state = "pending"

MarkedOff(a, i) ==
    /\ pulled' = [pulled EXCEPT ![a] = @ \ {i}]
    /\ stage' = [stage EXCEPT ![a] = IF pulled[a] = {i} THEN "idle" ELSE "mark"]

\* Wrong on purpose: marking an invoiced link again passes in silence.
MarkIdempotent(a, i) ==
    /\ stage[a] = "mark" /\ i \in pulled[a]
    /\ i \in Live
    /\ links' = [links EXCEPT ![i].state = "invoiced"]
    /\ acked' = [acked EXCEPT ![i] = @ + 1]
    /\ MarkedOff(a, i)
    /\ UNCHANGED <<status, calls, bills, billed, refused, mishaps>>

\* mark_expense_reinvoice_invoiced: one guarded statement.
Mark(a, i) ==
    /\ stage[a] = "mark" /\ i \in pulled[a]
    /\ Pending(i)
    /\ links' = [links EXCEPT ![i].state = "invoiced"]
    /\ acked' = [acked EXCEPT ![i] = @ + 1]
    /\ MarkedOff(a, i)
    /\ UNCHANGED <<status, calls, bills, billed, refused, mishaps>>

\* InvalidTransition, or ReinvoiceNotFound for a deleted link.
MarkRefused(a, i) ==
    /\ stage[a] = "mark" /\ i \in pulled[a]
    /\ ~Pending(i)
    /\ refused' = [refused EXCEPT ![i] = @ + 1]
    /\ MarkedOff(a, i)
    /\ UNCHANGED <<status, links, calls, bills, billed, acked, mishaps>>

FailAdapter(a) ==
    /\ MayFail
    /\ stage[a] # "idle"
    /\ stage' = [stage EXCEPT ![a] = "idle"]
    /\ pulled' = [pulled EXCEPT ![a] = {}]
    /\ mishaps' = mishaps \cup {"died"}
    /\ UNCHANGED <<status, links, calls, bills, billed, acked, refused>>

-----------------------------------------------------------------------------
Attach(c) ==
    \/ \E e \in Expenses : BeginAttach(c, e)
    \/ ReadDuplicate(c) \/ Insert(c) \/ InsertRefused(c) \/ FailAttach(c)

Bill(a) ==
    \/ Pull(a) \/ Post(a) \/ FailAdapter(a)
    \/ \E i \in pulled[a] : Mark(a, i) \/ MarkRefused(a, i)

Next ==
    \/ Confirm \/ Cancel
    \/ \E c \in Callers : Attach(c)
    \/ \E i \in DOMAIN links : SoftDelete(i) \/ Restore(i)
    \/ \E a \in Adapters : Bill(a)

Spec == Init /\ [][Next]_vars

-----------------------------------------------------------------------------
(* Properties.                                                             *)

\* Racing attaches, deletes and restores: an order never has two live links of
\* one expense.
OneLiveLink == \A e \in Expenses : Cardinality(LiveOf(e)) <= 1

\* "NOT idempotent-by-silence": whatever adapters race, retry or find deleted,
\* a link is acknowledged as invoiced once, by the mark that moved it, and a
\* delete and restore does not make it billable again.
MarkedOnce ==
    \A i \in DOMAIN links : acked[i] = IF links[i].state = "invoiced" THEN 1 ELSE 0

\* "a billing retry that re-marks an already invoiced link surfaces instead of
\* silently passing": with no billing run under way and none dead, every post of a
\* link beyond the first has met a refusal, adapters that overlapped included.
SurplusSurfaces ==
    ("died" \notin mishaps /\ \A a \in Adapters : stage[a] = "idle") =>
        \A i \in DOMAIN links : billed[i] <= 1 + refused[i]

\* "The double-bill guard is the partial unique index": it is, for one adapter
\* at a time that does not die, where nobody deletes links; however many attach
\* calls race, the expense is posted once.
BilledOnce ==
    mishaps = {} => \A e \in Expenses :
        \A i, j \in {k \in DOMAIN links : links[k].expense = e /\ billed[k] > 0} :
            i = j /\ billed[i] = 1
=============================================================================
