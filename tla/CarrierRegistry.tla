-------------------------- MODULE CarrierRegistry --------------------------
(***************************************************************************)
(* The two named registries, delivery carriers and quotation templates, and*)
(* the order's link to a carrier.                                          *)
(*                                                                         *)
(* A creation reads the name first and inserts afterwards.  The module has *)
(* no unique index on names; a tenancy decorator brings one.  The order's  *)
(* delivery is set in a transaction, and a refusal is explained by a read  *)
(* that is made while that transaction still holds its connection.  A      *)
(* transaction takes a connection of the pool beside the one a decorator   *)
(* binds to the request, and a read takes one where none is bound: whoever *)
(* waits for a connection gives up when none becomes free in time.         *)
(*                                                                         *)
(* A carrier's active flag and tracking template, a template's defaults and*)
(* an order's tracking number are written beside the names and the link by *)
(* the same statements, guard nothing and are left out.                    *)
(***************************************************************************)
EXTENDS Naturals, Sequences, FiniteSets

CONSTANTS
    Callers,
    Names,
    PoolSize,   \* connections in the pool
    MaxRows,    \* how many registry rows the run creates
    NoName,
    Keep        \* a patch's `not asked'

\* What an instance must satisfy.
RegistryAssumption ==
    /\ PoolSize \in Nat \ {0, 1}   \* a decorated request with a transaction holds two
    /\ MaxRows \in Nat
    /\ NoName \notin Names
    /\ Keep \notin Nat

VARIABLES
    decorated,  \* is the tenancy decorator composed?
    rows,       \* delivery_carriers and quotation_templates, by insertion
    status,     \* sales_orders.status
    carrier,    \* sales_orders.delivery_carrier_id, 0 for NULL
    pc,
    asked,      \* per caller, what it wants to write
    raced       \* have two creations overlapped, or a name been taken over otherwise?

order == <<status, carrier>>
calls == <<pc, asked>>
vars == <<decorated, rows, order, calls, raced>>

Kinds == {"carrier", "template"}
Row == [kind : Kinds, name : Names, live : BOOLEAN]

\* A carrier of 0 clears the link.
Nothing == [kind |-> "carrier", name |-> NoName, carrier |-> Keep]
Asked == [kind : Kinds, name : Names \cup {NoName},
          carrier : Nat \cup {Keep}]

Steps == {"idle", "insert", "begin", "write", "classify"}

TypeOK ==
    /\ decorated \in BOOLEAN
    /\ rows \in Seq(Row)
    /\ status \in {"draft", "to_deliver_and_bill", "cancelled"}
    /\ carrier \in 0..Len(rows)
    /\ pc \in [Callers -> Steps]
    /\ asked \in [Callers -> Asked]
    /\ raced \in BOOLEAN

Init ==
    /\ decorated \in BOOLEAN
    /\ rows = <<>>
    /\ status = "draft"
    /\ carrier = 0
    /\ pc = [c \in Callers |-> "idle"]
    /\ asked = [c \in Callers |-> Nothing]
    /\ raced = FALSE

Goto(c, step) == pc' = [pc EXCEPT ![c] = step]

Return(c) ==
    /\ pc' = [pc EXCEPT ![c] = "idle"]
    /\ asked' = [asked EXCEPT ![c] = Nothing]

LiveRows(kind, name) ==
    {i \in DOMAIN rows : rows[i].live /\ rows[i].kind = kind /\ rows[i].name = name}

Taken(kind, name) == LiveRows(kind, name) # {}

-----------------------------------------------------------------------------
(* Connections.                                                            *)

InTransaction == {c \in Callers : pc[c] \in {"write", "classify"}}
Running == {c \in Callers : pc[c] # "idle"}

\* The decorator binds a connection to every request for as long as it runs.
Held == Cardinality(InTransaction) + IF decorated THEN Cardinality(Running) ELSE 0

Room(n) == Held + n <= PoolSize

Free == Room(1)

\* A request of one transaction, from its start.
MayTransact == Room(IF decorated THEN 2 ELSE 1)

\* A statement outside a transaction rides the request's own connection where
\* the decorator has bound one, and takes one of the pool otherwise.
MayRead == decorated \/ Free

-----------------------------------------------------------------------------
(* create_delivery_carrier and create_quotation_template.                  *)

\* MaxRows bounds the run: no creation starts that could exceed it.
RoomForOne == Len(rows) + Cardinality({c \in Callers : pc[c] = "insert"}) < MaxRows

\* Wrong on purpose: the name is not read first.
BeginCreateUnread(c, kind, name) ==
    /\ pc[c] = "idle"
    /\ RoomForOne /\ Free
    /\ Goto(c, "insert")
    /\ asked' = [asked EXCEPT ![c] = [Nothing EXCEPT !.kind = kind, !.name = name]]
    /\ raced' = (raced \/ \E d \in Callers \ {c} : pc[d] = "insert")
    /\ UNCHANGED <<decorated, rows, order>>

\* The pre-read: a live row of the name refuses as a duplicate.
BeginCreate(c, kind, name) ==
    /\ pc[c] = "idle"
    /\ RoomForOne /\ Free
    /\ ~Taken(kind, name)
    /\ Goto(c, "insert")
    /\ asked' = [asked EXCEPT ![c] = [Nothing EXCEPT !.kind = kind, !.name = name]]
    /\ raced' = (raced \/ \E d \in Callers \ {c} : pc[d] = "insert")
    /\ UNCHANGED <<decorated, rows, order>>

CreateCarrier(c, name) == BeginCreate(c, "carrier", name)

CreateTemplate(c, name) == BeginCreate(c, "template", name)

\* Only the decorator's index looks at the name again.
Insert(c) ==
    /\ pc[c] = "insert"
    /\ MayRead
    /\ decorated => ~Taken(asked[c].kind, asked[c].name)
    /\ rows' = Append(rows, [kind |-> asked[c].kind, name |-> asked[c].name,
                             live |-> TRUE])
    /\ Return(c)
    /\ UNCHANGED <<decorated, order, raced>>

InsertRefused(c) ==
    /\ pc[c] = "insert"
    /\ MayRead
    /\ decorated /\ Taken(asked[c].kind, asked[c].name)
    /\ Return(c)
    /\ UNCHANGED <<decorated, rows, order, raced>>

\* update_delivery_carrier reads no name first: the index is the only guard.
Rename(i, name) ==
    /\ MayTransact
    /\ rows[i].kind = "carrier" /\ rows[i].live
    /\ rows[i].name # name
    /\ decorated => ~Taken("carrier", name)
    /\ raced' = (raced \/ Taken("carrier", name) \/ \E c \in Callers : pc[c] = "insert")
    /\ rows' = [rows EXCEPT ![i].name = name]
    /\ UNCHANGED <<decorated, order, calls>>

\* The generic services: a deleted name can be used again, and restored beside
\* its successor where no index refuses.
SoftDelete(i) ==
    /\ Free
    /\ rows[i].live
    /\ rows' = [rows EXCEPT ![i].live = FALSE]
    /\ UNCHANGED <<decorated, order, calls, raced>>

Restore(i) ==
    /\ Free
    /\ ~rows[i].live
    /\ decorated => ~Taken(rows[i].kind, rows[i].name)
    /\ raced' = (raced \/ Taken(rows[i].kind, rows[i].name)
                       \/ \E c \in Callers : pc[c] = "insert")
    /\ rows' = [rows EXCEPT ![i].live = TRUE]
    /\ UNCHANGED <<decorated, order, calls>>

-----------------------------------------------------------------------------
(* set_order_delivery, and the order's own verbs.                          *)

Confirm ==
    /\ MayTransact
    /\ status = "draft"
    /\ status' = "to_deliver_and_bill"
    /\ UNCHANGED <<decorated, rows, carrier, calls, raced>>

Cancel ==
    /\ Free
    /\ status # "cancelled"
    /\ status' = "cancelled"
    /\ UNCHANGED <<decorated, rows, carrier, calls, raced>>

Known(id) ==
    id \in DOMAIN rows /\ rows[id].kind = "carrier" /\ rows[id].live

\* carrier_id_or_refuse; active is not asked.  Clearing or keeping names no carrier.
Acceptable(id) == id \in {0, Keep} \/ Known(id)

\* The carrier's pre-read, where the patch names one.
BeginSetDelivery(c, id) ==
    /\ pc[c] = "idle"
    /\ decorated \/ id \notin {0, Keep} => Free
    /\ Acceptable(id)
    /\ asked' = [asked EXCEPT ![c] = [Nothing EXCEPT !.carrier = id]]
    /\ Goto(c, "begin")
    /\ UNCHANGED <<decorated, rows, order, raced>>

BeginTransaction(c) ==
    /\ pc[c] = "begin"
    /\ Free
    /\ Goto(c, "write")
    /\ UNCHANGED <<decorated, rows, order, asked, raced>>

Patched(field, stored) == IF field = Keep THEN stored ELSE field

\* One guarded statement, then the commit.
WriteDelivery(c) ==
    /\ pc[c] = "write"
    /\ status # "cancelled"
    /\ carrier' = Patched(asked[c].carrier, carrier)
    /\ Return(c)
    /\ UNCHANGED <<decorated, rows, status, raced>>

\* The guard matched nothing; the transaction stays open.
WriteRefused(c) ==
    /\ pc[c] = "write"
    /\ status = "cancelled"
    /\ Goto(c, "classify")
    /\ UNCHANGED <<decorated, rows, order, asked, raced>>

\* find_cancel_refusal, through the pool; then the transaction is dropped.
Classify(c) ==
    /\ pc[c] = "classify"
    /\ MayRead
    /\ Return(c)
    /\ UNCHANGED <<decorated, rows, order, raced>>

Waits(c) ==
    \/ pc[c] = "begin" /\ ~Free
    \/ pc[c] \in {"insert", "classify"} /\ ~MayRead

\* Wrong on purpose: the timed-out read is tried again.
AcquireTimeoutRetrying(c) ==
    /\ Waits(c)
    /\ pc[c] = "classify"
    /\ Goto(c, "write")
    /\ UNCHANGED <<decorated, rows, order, asked, raced>>

\* No connection came free in time (sqlx): a database error to the caller.
AcquireTimeout(c) ==
    /\ Waits(c)
    /\ Return(c)
    /\ UNCHANGED <<decorated, rows, order, raced>>

-----------------------------------------------------------------------------
Continue(c) ==
    \/ Insert(c) \/ InsertRefused(c)
    \/ BeginTransaction(c) \/ WriteDelivery(c) \/ WriteRefused(c)
    \/ Classify(c) \/ AcquireTimeout(c)

Next ==
    \/ Confirm \/ Cancel
    \/ \E c \in Callers :
          \/ \E name \in Names : CreateCarrier(c, name) \/ CreateTemplate(c, name)
          \/ \E id \in (0..Len(rows)) \cup {Keep} : BeginSetDelivery(c, id)
          \/ Continue(c)
    \/ \E i \in DOMAIN rows :
          \/ \E name \in Names : Rename(i, name)
          \/ SoftDelete(i) \/ Restore(i)

Spec == Init /\ [][Next]_vars

\* A started call runs on: it gets the connection it waits for, or times out.
Fairness == \A c \in Callers : WF_vars(Continue(c))

FairSpec == Spec /\ Fairness

-----------------------------------------------------------------------------
(* Properties.                                                             *)

\* "the decorator's per-unit unique is the hard backstop": creations, renames
\* and restores never make two live rows of one kind and name where it is
\* composed; without it, only calls that overlap, renames and restores do.
NamesUnique ==
    decorated \/ ~raced =>
        \A kind \in Kinds, name \in Names : Cardinality(LiveRows(kind, name)) <= 1

\* "verified by a pre-read on every path that names one": the order's carrier is
\* a row of the carrier registry, though it may have been deleted or deactivated
\* since; a template's id never gets there.
CarrierIsCarrier == carrier # 0 => rows[carrier].kind = "carrier"

\* Requests hold a connection while they wait for another one: refused calls that
\* classify inside their transaction, decorated ones that begin it.  When every
\* connection is held so, the acquire timeout is what lets them return.
CallsReturn == \A c \in Callers : pc[c] # "idle" ~> pc[c] = "idle"
=============================================================================
