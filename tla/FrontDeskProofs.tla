-------------------------- MODULE FrontDeskProofs --------------------------
(***************************************************************************)
(* Proofs about the HTTP surface: the generic rows, for every entity and   *)
(* field, any callers and any values; the verbs, for any clients and order *)
(* numbers; and the two behind one door.                                   *)
(*                                                                         *)
(* The rows.  The rules compare a new value with what the update read, and *)
(* the row may have changed since.  That a break in the row is an old one  *)
(* is therefore carried by the reads (ReadsAreOld): whatever broken value  *)
(* an update has in its hands was in the row at some time, and old then.   *)
(* A purge forgets the old breaks, and with them every read (ReadsHaveRow).*)
(*                                                                         *)
(* The verbs.  A call's answer is decided steps before it is read, while   *)
(* other clients go on.  What it rests on is of the kind that stays: the   *)
(* rows only grow in that sense (Grows), so what is sound for a call is    *)
(* sound after any step of another (ClientStands).                         *)
(***************************************************************************)
EXTENDS MCFrontDesk, TLAPS

-----------------------------------------------------------------------------
(* The generic rows.                                                       *)

ReadsAreOld ==
    \A c \in Callers : seen[c] # <<>> /\ Breaks(seen[c][1]) => seen[c][1] \in old

ReadsHaveRow == \A c \in Callers : seen[c] # <<>> => life # "absent"

RowsInv == TypeOK /\ ReadsAreOld /\ ReadsHaveRow /\ BreaksAreOld

-----------------------------------------------------------------------------
\* What a PUT may leave out may be NULL, in each of the nine entities.
LEMMA LeftOutIsOptional ==
  \A k \in Kinds : Fields(Schema[k]) \ Bodies[k].put \subseteq Schema[k].optional
BY DEF Kinds, Schema, Bodies, Fields,
       Quotation, QuotationItem, QuotationTemplate, SalesOrder, SalesOrderItem,
       DeliveryCarrier, ExpenseReinvoiceLink, SalesTeam, SalesPersonAllocation,
       QuotationBodies, QuotationItemBodies, QuotationTemplateBodies, SalesOrderBodies,
       SalesOrderItemBodies, DeliveryCarrierBodies, ExpenseReinvoiceLinkBodies,
       SalesTeamBodies, SalesPersonAllocationBodies

\* Every move of the two state machines is between states.
LEMMA MovesStayInStates == \A m \in Moves : m[1] \in States /\ m[2] \in States
BY DEF States

\* Creation, old rows and fresh ones.
LEMMA RowsInit == Init /\ RowsAssumption => RowsInv
<1> SUFFICES ASSUME Init, RowsAssumption PROVE RowsInv
  OBVIOUS
<1>1. <<kind, field>> \in Watched
  BY DEF Init, RowsAssumption
<1>2. status \in States /\ checked \in BOOLEAN /\ seen = [c \in Callers |-> <<>>]
  BY DEF Init, States
<1>3. TypeOK
  BY <1>1, <1>2 DEF Init, TypeOK
<1>4. ReadsAreOld /\ ReadsHaveRow
  BY <1>2 DEF ReadsAreOld, ReadsHaveRow
<1>5. BreaksAreOld
  BY DEF Init, BreaksAreOld, Breaks
<1>6. QED
  BY <1>3, <1>4, <1>5 DEF RowsInv

\* What is stored after an update breaks a rule only if it did when it was read.
LEMMA StoreKeeps ==
  ASSUME RowsInv, NEW c \in Callers, seen[c] # <<>>,
         NEW v \in Column, NEW s, Store(c, v, s)
  PROVE  RowsInv'
<1>1. Breaks(v) => v \in old
  BY DEF Store, RefusedAtUpdate, RowsInv, ReadsAreOld
<1>2. status' \in States
  BY MovesStayInStates DEF Store, Stores, TriggerAllows, RowsInv, TypeOK
<1>3. UNCHANGED <<kind, field, checked, writesState, old>> /\ value' = v
  BY DEF Store
<1>4. seen' = [seen EXCEPT ![c] = <<>>] /\ life' \in {"live", "trashed"}
  BY DEF Store, RowsInv, TypeOK
<1>5. Column' = Column /\ States' = States
  BY <1>3 DEF Column, Optional, States, Moves
<1>6. TypeOK'
  BY <1>2, <1>3, <1>4, <1>5 DEF RowsInv, TypeOK
<1>7. ReadsAreOld' /\ ReadsHaveRow'
  BY <1>3, <1>4 DEF RowsInv, TypeOK, ReadsAreOld, ReadsHaveRow, Breaks, HasRule
<1>8. BreaksAreOld'
  BY <1>1, <1>3 DEF BreaksAreOld, Breaks, HasRule
<1>9. QED
  BY <1>6, <1>7, <1>8 DEF RowsInv

\* What PUT and PATCH may store is what the column holds.
LEMMA ResultsFit ==
  ASSUME RowsAssumption, RowsInv, NEW c \in Callers, seen[c] # <<>>
  PROVE  /\ \A given \in Values : PutResult(given) \subseteq Column
         /\ \A given \in Column \cup {Unreadable} : PatchResult(seen[c], given) \in Column
<1>1. kind \in Kinds /\ field \in Fields(Schema[kind])
  BY DEF RowsAssumption, RowsInv, TypeOK
<1>2. field \notin Bodies[kind].put => Optional
  BY <1>1, LeftOutIsOptional DEF Optional
<1>3. \A given \in Values : PutResult(given) \subseteq Column
  BY <1>2 DEF PutResult, Column, Values
<1>4. \A given \in Column \cup {Unreadable} : PatchResult(seen[c], given) \in Column
  BY DEF PatchResult, RowsInv, TypeOK
<1>5. QED
  BY <1>3, <1>4

\* Every request and every verb keeps the invariant.
LEMMA RowsStep == RowsAssumption /\ RowsInv /\ [Next]_vars => RowsInv'
<1> SUFFICES ASSUME RowsAssumption, RowsInv, [Next]_vars PROVE RowsInv'
  OBVIOUS
<1> USE DEF RowsInv
<1>a. UNCHANGED <<kind, field>> => Column' = Column /\ States' = States /\ Moves' = Moves
  BY DEF Column, Optional, States, Moves
<1>1. ASSUME NEW v \in Values, Create(v) PROVE RowsInv'
  <2>1. UNCHANGED <<kind, field, checked, writesState, seen, old>>
    BY <1>1 DEF Create
  <2>2. TypeOK'
    BY <1>1, <1>a, <2>1 DEF Create, TypeOK, States
  <2>3. ReadsAreOld' /\ ReadsHaveRow' /\ BreaksAreOld'
    BY <1>1, <2>1 DEF Create, RefusedAtCreate, ReadsAreOld, ReadsHaveRow, BreaksAreOld,
                      Breaks, HasRule
  <2>4. QED
    BY <2>2, <2>3
<1>2. ASSUME NEW v \in Values, WriteByVerb(v) PROVE RowsInv'
  <2>1. TypeOK'
    BY <1>2, <1>a DEF WriteByVerb, TypeOK
  <2>2. ReadsAreOld' /\ ReadsHaveRow' /\ BreaksAreOld'
    BY <1>2 DEF WriteByVerb, ReadsAreOld, ReadsHaveRow, BreaksAreOld, Breaks, HasRule
  <2>3. QED
    BY <2>1, <2>2
<1>3. ASSUME NEW c \in Callers, Read(c) PROVE RowsInv'
  <2>1. TypeOK'
    BY <1>3, <1>a DEF Read, TypeOK, row
  <2>2. ReadsAreOld' /\ ReadsHaveRow' /\ BreaksAreOld'
    BY <1>3 DEF Read, row, TypeOK, ReadsAreOld, ReadsHaveRow, BreaksAreOld, Breaks, HasRule
  <2>3. QED
    BY <2>1, <2>2
<1>4. ASSUME NEW c \in Callers, Put(c) PROVE RowsInv'
  BY <1>4, ResultsFit, StoreKeeps DEF Put
<1>5. ASSUME NEW c \in Callers, Patch(c) PROVE RowsInv'
  BY <1>5, ResultsFit, StoreKeeps DEF Patch
<1>6. ASSUME NEW c \in Callers, GiveUp(c) PROVE RowsInv'
  <2>1. TypeOK'
    BY <1>6, <1>a DEF GiveUp, TypeOK, row
  <2>2. ReadsAreOld' /\ ReadsHaveRow' /\ BreaksAreOld'
    BY <1>6 DEF GiveUp, row, TypeOK, ReadsAreOld, ReadsHaveRow, BreaksAreOld, Breaks, HasRule
  <2>3. QED
    BY <2>1, <2>2
<1>7. CASE Trash \/ Restore
  <2>1. TypeOK'
    BY <1>7, <1>a DEF Trash, Restore, TypeOK
  <2>2. ReadsAreOld' /\ ReadsHaveRow' /\ BreaksAreOld'
    BY <1>7 DEF Trash, Restore, ReadsAreOld, ReadsHaveRow, BreaksAreOld, Breaks, HasRule
  <2>3. QED
    BY <2>1, <2>2
<1>8. CASE Purge
  <2>1. TypeOK'
    BY <1>8, <1>a DEF Purge, TypeOK
  <2>2. ReadsAreOld' /\ ReadsHaveRow' /\ BreaksAreOld'
    BY <1>8 DEF Purge, ReadsAreOld, ReadsHaveRow, BreaksAreOld
  <2>3. QED
    BY <2>1, <2>2
<1>9. ASSUME NEW m \in Moves, MoveByVerb(m[1], m[2]) PROVE RowsInv'
  <2>1. m[2] \in States
    BY MovesStayInStates
  <2>2. TypeOK'
    BY <1>9, <1>a, <2>1 DEF MoveByVerb, TypeOK
  <2>3. ReadsAreOld' /\ ReadsHaveRow' /\ BreaksAreOld'
    BY <1>9 DEF MoveByVerb, ReadsAreOld, ReadsHaveRow, BreaksAreOld, Breaks, HasRule
  <2>4. QED
    BY <2>2, <2>3
<1>10. CASE UNCHANGED vars
  BY <1>10, <1>a
     DEF vars, row, TypeOK, ReadsAreOld, ReadsHaveRow, BreaksAreOld, Breaks, HasRule
<1>11. QED
  BY <1>1, <1>2, <1>3, <1>4, <1>5, <1>6, <1>7, <1>8, <1>9, <1>10 DEF Next

-----------------------------------------------------------------------------
\* The invariant, for every entity, field and value.
LEMMA RowsInvariance ==
  ASSUME RowsAssumption
  PROVE  Spec => []RowsInv
<1>1. Init => RowsInv
  BY RowsInit
<1>2. RowsInv /\ [Next]_vars => RowsInv'
  BY RowsStep
<1>3. QED
  BY <1>1, <1>2, PTL DEF Spec

\* No request and no verb leaves in the row, or in the hands of an update, what
\* the column or the state machine does not know.
THEOREM RowTypeCorrect ==
  ASSUME RowsAssumption
  PROVE  Spec => []TypeOK
<1>1. RowsInv => TypeOK
  BY DEF RowsInv
<1>2. QED
  BY <1>1, RowsInvariance, PTL

\* However late the store of an update comes, and whatever healed the row in the
\* meantime, it brings back at most a break that was there before.
THEOREM NoNewBreaks ==
  ASSUME RowsAssumption
  PROVE  Spec => []BreaksAreOld
<1>1. RowsInv => BreaksAreOld
  BY DEF RowsInv
<1>2. QED
  BY <1>1, RowsInvariance, PTL

\* No stale store and no verb moves a document out of a state that no verb leads out of.
THEOREM FinishedForever == Spec => FinishedStays
<1>1. [Next]_vars /\ life # "absent" /\ life' # "absent" /\ Finished(status)
        => status' = status
  <2> SUFFICES ASSUME Next, life # "absent", Finished(status) PROVE status' = status
    BY DEF vars, row
  <2>1. ASSUME NEW c, NEW v, NEW s, Store(c, v, s) PROVE status' = status
    BY <2>1 DEF Store, Stores, TriggerAllows, Finished
  <2>2. ASSUME NEW m \in Moves, MoveByVerb(m[1], m[2]) PROVE status' = status
    BY <2>2 DEF MoveByVerb, Finished
  <2>3. QED
    BY <2>1, <2>2
       DEF Next, Create, WriteByVerb, Read, Put, Patch, GiveUp, Trash, Restore, Purge, row
<1>2. QED
  BY <1>1, PTL DEF Spec, FinishedStays

-----------------------------------------------------------------------------
(* The verbs: what is sound for a call, wherever it stands.                *)

\* An id the service has given out, or one that is wrong.
Named(o) == o = Unknown \/ (o \in Numbers /\ orders[o] # "none")

\* What stays in the way of a cancel.
Uncancellable(o) ==
    Named(o) /\ (o = Unknown \/ orders[o] \in {"completed", "cancelled"} \/ o \in billed)

\* What no confirm will flip.
NoDraft(o) == o = Unknown \/ (o \in Numbers /\ orders[o] \notin {"none", "draft"})

\* What an ok stands for.
OkSound(c) ==
    /\ call[c] \in Verbs!Committing => did[c]
    /\ call[c] \in Verbs!Idle => ~did[c]
    /\ call[c] = "confirm" => id[c] \in Numbers /\ orders[id[c]] \notin {"none", "draft"}
    /\ call[c] = "convert" => /\ id[c] \in Numbers
                              /\ quotation = "ordered" /\ orders[id[c]] # "none"
    /\ call[c] \in {"cancel", "retry"} => /\ id[c] \in Numbers
                                          /\ orders[id[c]] = "cancelled"
                                          /\ id[c] \in told

\* What a refusal says of the order or the quotation.
RefusalSound(c) ==
    /\ reply[c] = "quotation_ordered" => quotation = "ordered"
    /\ reply[c] = "duplicate_number" =>
          /\ call[c] = "quote" => quotation # "none"
          /\ call[c] # "quote" => id[c] \in Numbers /\ orders[id[c]] # "none"
    /\ reply[c] = "not_draft" => NoDraft(id[c])
    /\ reply[c] = "order_line_frozen" =>
          id[c] \in Numbers /\ orders[id[c]] \notin {"none", "draft"}
    /\ reply[c] = "order_billed" =>
          id[c] \in billed /\ id[c] \in Numbers /\ orders[id[c]] # "none"
    /\ reply[c] = "invalid_transition" /\ call[c] = "cancel" =>
          id[c] \in Numbers /\ orders[id[c]] \in {"completed", "cancelled"}
    /\ reply[c] = "order_not_found" => id[c] = Unknown

AnswerSound(c) ==
    /\ reply[c] \in Verbs!Codes \cup {"ok"}
    /\ reply[c] = "ok" => OkSound(c)
    /\ reply[c] = "decrease_activity_failed" =>
          id[c] \in Numbers /\ orders[id[c]] = "cancelled"
    /\ reply[c] \in (Verbs!NotFound \cup Verbs!Refused) \ {"decrease_activity_failed"} =>
          ~did[c]
    /\ RefusalSound(c)

ClientSound(c) ==
    /\ at[c] = "classify" =>
          /\ ~did[c]
          /\ call[c] \in Verbs!Flips \/ (call[c] = "cancel" /\ Uncancellable(id[c]))
    /\ at[c] = "create" => call[c] = "convert" /\ id[c] \in Numbers /\ ~did[c]
    /\ at[c] = "mark" => /\ call[c] = "convert" /\ id[c] \in Numbers /\ did[c]
                         /\ orders[id[c]] # "none"
    /\ at[c] = "ports" => call[c] = "confirm" /\ Named(id[c]) /\ ~did[c]
    /\ at[c] = "log" => /\ call[c] \in {"cancel", "retry"} /\ id[c] \in Numbers
                        /\ orders[id[c]] = "cancelled"
                        /\ call[c] = "cancel" => did[c]
                        /\ call[c] = "retry" => ~did[c]
    /\ at[c] = "answer" => AnswerSound(c)

VerbInv ==
    /\ Verbs!TypeOK
    /\ \A n \in told : orders[n] = "cancelled"
    /\ \A c \in Clients : ClientSound(c)
    /\ PromisesStand

-----------------------------------------------------------------------------
(* What rows do, whoever acts.                                             *)

\* A quotation is not forgotten and an ordered one is final; an order is not forgotten,
\* does not become a draft again and ends once; bills and logs are not undone.
Grows ==
    /\ quotation # "none" => quotation' # "none"
    /\ quotation = "ordered" => quotation' = "ordered"
    /\ \A n \in Numbers :
          /\ orders[n] # "none" => orders'[n] # "none"
          /\ orders[n] \notin {"none", "draft"} => orders'[n] \notin {"none", "draft"}
          /\ orders[n] \in {"completed", "cancelled"} => orders'[n] = orders[n]
    /\ billed \subseteq billed' /\ told \subseteq told'

Still(c) ==
    /\ at'[c] = at[c] /\ call'[c] = call[c] /\ id'[c] = id[c]
    /\ did'[c] = did[c] /\ reply'[c] = reply[c]

\* Only c's call moves, and what is told is cancelled.
OthersStill(c) ==
    /\ \A d \in Clients \ {c} : Still(d)
    /\ Grows
    /\ \A n \in told' : orders'[n] = "cancelled"

Steps == {"idle", "classify", "create", "mark", "ports", "log", "answer"}

\* The types of the calls and of the history, after a step.
CallsTyped ==
    /\ at' \in [Clients -> Steps]
    /\ call' \in [Clients -> Verbs!Verbs \cup {NoCode}]
    /\ id' \in [Clients -> Numbers \cup {Unknown}]
    /\ did' \in [Clients -> BOOLEAN]
    /\ reply' \in [Clients -> Verbs!Codes \cup {"ok", NoCode}]

\* A call that does not move is as sound after the step of another as before.
LEMMA ClientStands ==
  ASSUME NEW c \in Clients, ClientSound(c), Still(c), Grows
  PROVE  ClientSound(c)'
<1>1. \A o : Named(o) => Named(o)'
  BY DEF Named, Grows
<1>2. \A o : Uncancellable(o) => Uncancellable(o)'
  BY <1>1 DEF Uncancellable, Named, Grows
<1>3. ASSUME AnswerSound(c)
      PROVE  AnswerSound(c)'
  <2>1. OkSound(c) => OkSound(c)'
    BY DEF OkSound, Still, Grows
  <2>2. RefusalSound(c)'
    <3> USE DEF Still, Grows
    <3>1. RefusalSound(c)
      BY <1>3 DEF AnswerSound
    <3>2. \A o : NoDraft(o) => NoDraft(o)'
      BY DEF NoDraft
    <3>3. QED
      BY <3>1, <3>2 DEF RefusalSound
  <2>3. QED
    BY <1>3, <2>1, <2>2 DEF AnswerSound, Still, Grows
<1>4. QED
  BY <1>1, <1>2, <1>3 DEF ClientSound, Still, Grows

\* What was promised stays true.
LEMMA PromisesStay ==
  ASSUME Verbs!TypeOK, PromisesStand, Grows, promised' = promised
  PROVE  PromisesStand'
<1>1. \A p \in promised : p[2] \in Numbers
  BY DEF Verbs!TypeOK
<1>2. QED
  BY <1>1 DEF PromisesStand, Verbs!PromisesStand, Grows

\* A step of one call.
LEMMA OneCallMoves ==
  ASSUME VerbInv, NEW c \in Clients, OthersStill(c), Verbs!TypeOK', ClientSound(c)',
         promised' = promised
  PROVE  VerbInv'
<1>1. \A d \in Clients : ClientSound(d)'
  BY ClientStands DEF VerbInv, OthersStill
<1>2. PromisesStand'
  BY PromisesStay DEF VerbInv, OthersStill
<1>3. QED
  BY <1>1, <1>2 DEF VerbInv, OthersStill

\* The three ways a call moves.
LEMMA Taken ==
  ASSUME Verbs!TypeOK, NEW c \in Clients, NEW v \in Verbs!Verbs,
         NEW o \in Numbers \cup {Unknown}, NEW step \in Steps, NEW done \in BOOLEAN,
         NEW code \in Verbs!Codes \cup {"ok", NoCode}, Verbs!Take(c, v, o, step, done, code)
  PROVE  /\ CallsTyped
         /\ \A d \in Clients \ {c} : Still(d)
         /\ at'[c] = step /\ call'[c] = v /\ id'[c] = o /\ did'[c] = done /\ reply'[c] = code
         /\ UNCHANGED <<promised, owed, lost>>
BY DEF Verbs!Take, Verbs!TypeOK, CallsTyped, Steps, Still, Verbs!history

\* A call comes to its answer.
LEMMA Replied ==
  ASSUME Verbs!TypeOK, NEW c \in Clients, NEW done \in BOOLEAN,
         NEW code \in Verbs!Codes \cup {"ok", NoCode}, Verbs!Reply(c, done, code)
  PROVE  /\ CallsTyped
         /\ \A d \in Clients \ {c} : Still(d)
         /\ at'[c] = "answer" /\ call'[c] = call[c] /\ id'[c] = id[c] /\ did'[c] = done
         /\ reply'[c] = code
         /\ UNCHANGED <<promised, owed, lost>>
BY DEF Verbs!Reply, Verbs!TypeOK, CallsTyped, Steps, Still, Verbs!history

\* A call goes on to its next statement.
LEMMA Gone ==
  ASSUME Verbs!TypeOK, NEW c \in Clients, NEW step \in Steps, NEW done \in BOOLEAN,
         Verbs!Goto(c, step, done)
  PROVE  /\ CallsTyped
         /\ \A d \in Clients \ {c} : Still(d)
         /\ at'[c] = step /\ call'[c] = call[c] /\ id'[c] = id[c] /\ did'[c] = done
         /\ reply'[c] = reply[c]
         /\ UNCHANGED <<promised, owed, lost>>
BY DEF Verbs!Goto, Verbs!TypeOK, CallsTyped, Steps, Still, Verbs!history

-----------------------------------------------------------------------------
(* The ways the rows move.                                                 *)

QuotationStates == {"none", "draft", "sent", "accepted", "rejected", "cancelled", "ordered"}

OrderStates == {"none", "draft", "to_deliver_and_bill", "completed", "cancelled"}

RowsMove ==
    /\ quotation' \in QuotationStates
    /\ orders' \in [Numbers -> OrderStates]
    /\ billed' \in SUBSET Numbers /\ told' \in SUBSET Numbers
    /\ Grows
    /\ \A n \in told' : orders'[n] = "cancelled"

\* No row moves.
LEMMA RowsRest ==
  ASSUME VerbInv, UNCHANGED Verbs!rows
  PROVE  RowsMove
BY DEF VerbInv, Verbs!TypeOK, Verbs!rows, RowsMove, Grows, QuotationStates, OrderStates

\* The quotation moves alone, and not out of ordered.
LEMMA OneQuotationMoves ==
  ASSUME VerbInv, quotation' \in QuotationStates \ {"none"},
         quotation = "ordered" => quotation' = "ordered",
         UNCHANGED <<orders, billed, told>>
  PROVE  RowsMove
BY DEF VerbInv, Verbs!TypeOK, RowsMove, Grows, QuotationStates, OrderStates

\* The only ways of an order.
LEMMA OneOrderMoves ==
  ASSUME VerbInv, NEW n \in Numbers, NEW to \in OrderStates \ {"none"},
         orders' = [orders EXCEPT ![n] = to],
         orders[n] \notin {"completed", "cancelled"},
         to = "draft" => orders[n] = "none",
         to = "to_deliver_and_bill" => orders[n] = "draft",
         to = "completed" => orders[n] = "to_deliver_and_bill",
         UNCHANGED <<quotation, billed, told>>
  PROVE  /\ RowsMove
         /\ orders'[n] = to
<1>1. orders \in [Numbers -> OrderStates] /\ \A m \in told : m \in Numbers
  BY DEF VerbInv, Verbs!TypeOK, OrderStates
<1>2. /\ orders' \in [Numbers -> OrderStates] /\ orders'[n] = to
      /\ \A m \in Numbers \ {n} : orders'[m] = orders[m]
  BY <1>1
<1>3. Grows
  BY <1>1, <1>2 DEF Grows, OrderStates
<1>4. \A m \in told : orders'[m] = "cancelled"
  BY <1>1, <1>2 DEF VerbInv, OrderStates
<1>5. QED
  BY <1>2, <1>3, <1>4 DEF VerbInv, Verbs!TypeOK, RowsMove, QuotationStates

\* A step of one call, with what it does to the rows.
LEMMA CallMoves ==
  ASSUME VerbInv, NEW c \in Clients, CallsTyped, \A d \in Clients \ {c} : Still(d),
         UNCHANGED <<promised, owed, lost>>, RowsMove, ClientSound(c)'
  PROVE  VerbInv'
<1>1. Verbs!TypeOK'
  BY DEF VerbInv, Verbs!TypeOK, CallsTyped, RowsMove, Steps, QuotationStates, OrderStates
<1>2. QED
  BY <1>1, OneCallMoves DEF OthersStill, RowsMove

-----------------------------------------------------------------------------
(* The verbs' first steps.                                                 *)

\* Which verbs there are, and which of them commit.
LEMMA VerbsApart ==
  /\ Verbs!Flips \cup {"quote", "order", "convert", "confirm", "cancel", "retry", "edit",
                      "nothing", "sync", "view", "register", "elsewhere"} = Verbs!Verbs
  /\ \A v \in Verbs!Committing : v \in Verbs!Verbs \ (Verbs!Idle \cup {"sync"})
  /\ Verbs!Idle = {"view", "nothing", "retry"}
  /\ \A v \in Verbs!Flips : v \notin Verbs!Idle \cup {"convert", "confirm", "cancel"}
BY DEF Verbs!Verbs, Verbs!Flips, Verbs!Committing, Verbs!Idle

\* An answer at once: nothing was committed, or what was asked.
LEMMA AnsweredAtOnce ==
  ASSUME VerbInv, NEW c \in Clients, NEW v \in Verbs!Verbs,
         NEW o \in Numbers \cup {Unknown}, NEW done \in BOOLEAN,
         NEW code \in Verbs!Codes \cup {"ok"}, Verbs!Take(c, v, o, "answer", done, code),
         RowsMove,
         code = "ok" => /\ v \in Verbs!Committing => done
                        /\ v \in Verbs!Idle => ~done
                        /\ v \notin {"convert", "confirm", "cancel", "retry"},
         code \notin {"ok", "internal_error"} => ~done,
         code \notin {"quotation_ordered", "decrease_activity_failed", "order_billed",
                      "not_draft"},
         code = "duplicate_number" =>
            /\ v = "quote" => quotation' # "none"
            /\ v # "quote" => o \in Numbers /\ orders'[o] # "none",
         code = "order_line_frozen" => o \in Numbers /\ orders'[o] \notin {"none", "draft"},
         ~(code = "invalid_transition" /\ v = "cancel"),
         code = "order_not_found" => o = Unknown
  PROVE  VerbInv'
<1>1. Verbs!TypeOK
  BY DEF VerbInv
<1>2. /\ CallsTyped /\ \A d \in Clients \ {c} : Still(d)
      /\ at'[c] = "answer" /\ call'[c] = v /\ id'[c] = o /\ did'[c] = done /\ reply'[c] = code
      /\ UNCHANGED <<promised, owed, lost>>
  BY <1>1, Taken DEF Steps
<1>3. code = "ok" => OkSound(c)'
  BY <1>2 DEF OkSound
<1>4. RefusalSound(c)'
  BY <1>2 DEF RefusalSound
<1>5. {"ok", "internal_error"} \cap (Verbs!NotFound \cup Verbs!Refused) = {}
  BY DEF Verbs!NotFound, Verbs!Refused
<1>6. AnswerSound(c)'
  BY <1>2, <1>3, <1>4, <1>5 DEF AnswerSound
<1>7. ClientSound(c)'
  BY <1>2, <1>6 DEF ClientSound
<1>8. QED
  BY <1>2, <1>7, CallMoves

\* An ok is a quotation that was not there; a taken number is one that is.
LEMMA CreateQuotationSound ==
  ASSUME VerbInv, NEW c \in Clients, Verbs!CreateQuotation(c)
  PROVE  VerbInv'
<1>1. "quote" \in Verbs!Verbs \ Verbs!Idle
  BY VerbsApart
<1>2. CASE /\ quotation = "none" /\ quotation' = "draft"
           /\ Verbs!Take(c, "quote", Unknown, "answer", TRUE, "ok")
           /\ UNCHANGED <<orders, billed, told>>
  <2>1. RowsMove
    BY <1>2, OneQuotationMoves DEF QuotationStates
  <2>2. QED
    BY <1>1, <1>2, <2>1, AnsweredAtOnce
<1>3. ASSUME NEW code \in {"empty_document", "negative_quantity", "template_not_found"},
             Verbs!Take(c, "quote", Unknown, "answer", FALSE, code), UNCHANGED Verbs!rows
      PROVE  VerbInv'
  <2>1. code \in Verbs!Codes
    BY DEF Verbs!Codes, Verbs!Refused
  <2>2. QED
    BY <1>1, <1>3, <2>1, RowsRest, AnsweredAtOnce
<1>4. CASE /\ quotation # "none"
           /\ Verbs!Take(c, "quote", Unknown, "answer", FALSE, "duplicate_number")
           /\ UNCHANGED Verbs!rows
  <2>1. "duplicate_number" \in Verbs!Codes /\ quotation' # "none"
    BY <1>4 DEF Verbs!Codes, Verbs!Refused, Verbs!rows
  <2>2. QED
    BY <1>1, <1>4, <2>1, RowsRest, AnsweredAtOnce
<1>5. QED
  BY <1>2, <1>3, <1>4 DEF Verbs!CreateQuotation

\* A flip keeps away from an ordered quotation, and a miss promises nothing yet.
LEMMA FlipQuotationSound ==
  ASSUME VerbInv, NEW c \in Clients, NEW v \in Verbs!Flips, Verbs!FlipQuotation(c, v)
  PROVE  VerbInv'
<1>1. /\ v \in Verbs!Verbs /\ v \notin {"convert", "confirm", "cancel", "retry"}
      /\ v \notin Verbs!Idle
  BY VerbsApart
<1>2. CASE quotation \in Verbs!From(v)
  <2>1. /\ quotation' = Verbs!To(v)
        /\ Verbs!Take(c, v, Unknown, "answer", TRUE, "ok")
        /\ UNCHANGED <<orders, billed, told>>
    BY <1>2 DEF Verbs!FlipQuotation
  <2>2. quotation # "ordered" /\ Verbs!To(v) \in QuotationStates \ {"none"}
    BY <1>2 DEF Verbs!From, Verbs!To, Verbs!Flips, QuotationStates
  <2>3. RowsMove
    BY <2>1, <2>2, OneQuotationMoves
  <2>4. QED
    BY <1>1, <2>1, <2>3, AnsweredAtOnce
<1>3. CASE quotation \notin Verbs!From(v)
  <2>1. Verbs!Take(c, v, Unknown, "classify", FALSE, NoCode) /\ UNCHANGED Verbs!rows
    BY <1>3 DEF Verbs!FlipQuotation
  <2>2. /\ CallsTyped /\ \A d \in Clients \ {c} : Still(d)
        /\ at'[c] = "classify" /\ call'[c] = v /\ did'[c] = FALSE
        /\ UNCHANGED <<promised, owed, lost>>
    BY <1>1, <2>1, Taken DEF VerbInv, Steps
  <2>3. ClientSound(c)'
    BY <2>2 DEF ClientSound
  <2>4. QED
    BY <2>1, <2>2, <2>3, RowsRest, CallMoves
<1>4. QED
  BY <1>2, <1>3

\* The conversion's read decides only whether it goes on.
LEMMA ConvertQuotationSound ==
  ASSUME VerbInv, NEW c \in Clients, NEW n \in Numbers, Verbs!ConvertQuotation(c, n)
  PROVE  VerbInv'
<1>1. "convert" \in Verbs!Verbs /\ n \in Numbers \cup {Unknown} /\ RowsMove
  BY RowsRest DEF Verbs!Verbs, Verbs!ConvertQuotation
<1>2. CASE quotation = "accepted"
  <2>1. Verbs!Take(c, "convert", n, "create", FALSE, NoCode)
    BY <1>2 DEF Verbs!ConvertQuotation
  <2>2. /\ CallsTyped /\ \A d \in Clients \ {c} : Still(d)
        /\ at'[c] = "create" /\ call'[c] = "convert" /\ id'[c] = n /\ did'[c] = FALSE
        /\ UNCHANGED <<promised, owed, lost>>
    <3>1. Verbs!TypeOK /\ "create" \in Steps /\ FALSE \in BOOLEAN
          /\ NoCode \in Verbs!Codes \cup {"ok", NoCode}
      BY DEF VerbInv, Steps
    <3>2. QED
      BY <1>1, <2>1, <3>1, Taken
  <2>3. ClientSound(c)'
    BY <2>2 DEF ClientSound
  <2>4. QED
    BY <1>1, <2>2, <2>3, CallMoves
<1>3. CASE quotation # "accepted"
  <2>1. PICK code \in {"quotation_not_found", "quotation_not_accepted"} :
            Verbs!Take(c, "convert", n, "answer", FALSE, code)
    BY <1>3 DEF Verbs!ConvertQuotation
  <2>2. code \in Verbs!Codes
    BY DEF Verbs!Codes, Verbs!NotFound, Verbs!Refused
  <2>3. QED
    BY <1>1, <2>1, <2>2, AnsweredAtOnce
<1>4. QED
  BY <1>2, <1>3

\* As for a quotation, by number.
LEMMA CreateOrderSound ==
  ASSUME VerbInv, NEW c \in Clients, NEW n \in Numbers, Verbs!CreateOrder(c, n)
  PROVE  VerbInv'
<1>1. "order" \in Verbs!Verbs \ Verbs!Idle /\ n \in Numbers \cup {Unknown}
  BY VerbsApart
<1>2. CASE /\ orders[n] = "none" /\ orders' = [orders EXCEPT ![n] = "draft"]
           /\ Verbs!Take(c, "order", n, "answer", TRUE, "ok")
           /\ UNCHANGED <<quotation, billed, told>>
  <2>1. RowsMove
    BY <1>2, OneOrderMoves DEF OrderStates
  <2>2. QED
    BY <1>1, <1>2, <2>1, AnsweredAtOnce
<1>3. ASSUME NEW code \in {"empty_document", "negative_quantity", "carrier_not_found"},
             Verbs!Take(c, "order", n, "answer", FALSE, code), UNCHANGED Verbs!rows
      PROVE  VerbInv'
  <2>1. code \in Verbs!Codes
    BY DEF Verbs!Codes, Verbs!NotFound, Verbs!Refused
  <2>2. QED
    BY <1>1, <1>3, <2>1, RowsRest, AnsweredAtOnce
<1>4. CASE /\ orders[n] # "none"
           /\ Verbs!Take(c, "order", n, "answer", FALSE, "duplicate_number")
           /\ UNCHANGED Verbs!rows
  <2>1. "duplicate_number" \in Verbs!Codes /\ orders'[n] # "none"
    BY <1>4 DEF Verbs!Codes, Verbs!Refused, Verbs!rows
  <2>2. QED
    BY <1>1, <1>4, <2>1, RowsRest, AnsweredAtOnce
<1>5. QED
  BY <1>2, <1>3, <1>4 DEF Verbs!CreateOrder

\* The ids of Known name an order or nothing, and what is cancelled is a number.
LEMMA KnownIsNamed ==
  ASSUME VerbInv, NEW o \in Verbs!Known
  PROVE  /\ o \in Numbers \cup {Unknown} /\ Named(o)
         /\ Verbs!StatusOf(o) = "none" => o = Unknown
         /\ Verbs!StatusOf(o) # "none" => o \in Numbers /\ Verbs!StatusOf(o) = orders[o]
BY FrontDeskAssumption DEF Verbs!SurfaceAssumption, Verbs!Known, Named, Verbs!StatusOf

\* A call that waits for its second step.
LEMMA TakenOn ==
  ASSUME VerbInv, NEW c \in Clients, NEW v \in Verbs!Verbs,
         NEW o \in Numbers \cup {Unknown}, NEW step \in {"classify", "ports", "log"},
         NEW done \in BOOLEAN, Verbs!Take(c, v, o, step, done, NoCode), RowsMove,
         step = "classify" => v = "cancel" /\ Uncancellable(o)' /\ ~done,
         step = "ports" => v = "confirm" /\ Named(o)' /\ ~done,
         step = "log" => /\ v \in {"cancel", "retry"} /\ o \in Numbers
                         /\ orders'[o] = "cancelled"
                         /\ v = "cancel" => done
                         /\ v = "retry" => ~done
  PROVE  VerbInv'
<1>1. /\ CallsTyped /\ \A d \in Clients \ {c} : Still(d)
      /\ at'[c] = step /\ call'[c] = v /\ id'[c] = o /\ did'[c] = done
      /\ UNCHANGED <<promised, owed, lost>>
  <2>1. Verbs!TypeOK /\ step \in Steps /\ NoCode \in Verbs!Codes \cup {"ok", NoCode}
    BY DEF VerbInv, Steps
  <2>2. QED
    BY <2>1, Taken
<1>2. ClientSound(c)'
  BY <1>1 DEF ClientSound, Uncancellable, Named
<1>3. QED
  BY <1>1, <1>2, CallMoves

\* The ports come first: a named order, and nothing committed.
LEMMA ConfirmOrderSound ==
  ASSUME VerbInv, NEW c \in Clients, NEW o \in Verbs!Known, Verbs!ConfirmOrder(c, o)
  PROVE  VerbInv'
<1>1. "confirm" \in Verbs!Verbs /\ o \in Numbers \cup {Unknown} /\ RowsMove
  BY KnownIsNamed, RowsRest DEF Verbs!Verbs, Verbs!ConfirmOrder
<1>2. Named(o)'
  BY KnownIsNamed DEF Named, Verbs!ConfirmOrder, Verbs!rows
<1>3. Verbs!Take(c, "confirm", o, "ports", FALSE, NoCode)
  BY DEF Verbs!ConfirmOrder
<1>4. QED
  BY <1>1, <1>2, <1>3, TakenOn

\* A cancel that matches owes its log; one that does not has something lasting in its way.
LEMMA CancelOrderSound ==
  ASSUME VerbInv, NEW c \in Clients, NEW o \in Verbs!Known, Verbs!CancelOrder(c, o)
  PROVE  VerbInv'
<1>1. "cancel" \in Verbs!Verbs /\ o \in Numbers \cup {Unknown}
  BY KnownIsNamed DEF Verbs!Verbs
<1>2. CASE Verbs!Cancellable(o)
  <2>1. o \in Numbers /\ orders[o] \in {"draft", "to_deliver_and_bill"}
    BY <1>2, KnownIsNamed DEF Verbs!Cancellable
  <2>2. /\ orders' = [orders EXCEPT ![o] = "cancelled"]
        /\ Verbs!Take(c, "cancel", o, "log", TRUE, NoCode)
        /\ UNCHANGED <<quotation, billed, told>>
    BY <1>2 DEF Verbs!CancelOrder
  <2>3. RowsMove /\ orders'[o] = "cancelled"
    BY <2>1, <2>2, OneOrderMoves DEF OrderStates
  <2>4. QED
    BY <1>1, <2>1, <2>2, <2>3, TakenOn
<1>3. CASE ~Verbs!Cancellable(o)
  <2>1. Verbs!Take(c, "cancel", o, "classify", FALSE, NoCode) /\ UNCHANGED Verbs!rows
    BY <1>3 DEF Verbs!CancelOrder
  <2>2. Uncancellable(o)
    <3>1. orders \in [Numbers -> OrderStates]
      BY DEF VerbInv, Verbs!TypeOK, OrderStates
    <3>2. QED
      BY <1>3, <3>1, KnownIsNamed DEF Uncancellable, Verbs!Cancellable, Named, OrderStates
  <2>3. Uncancellable(o)'
    BY <2>1, <2>2 DEF Uncancellable, Named, Verbs!rows
  <2>4. QED
    BY <1>1, <2>1, <2>3, RowsRest, TakenOn
<1>4. QED
  BY <1>2, <1>3

\* Only a cancelled order is logged again.
LEMMA RetryDecreaseSound ==
  ASSUME VerbInv, NEW c \in Clients, NEW o \in Verbs!Known, Verbs!RetryDecrease(c, o)
  PROVE  VerbInv'
<1>1. "retry" \in Verbs!Verbs /\ o \in Numbers \cup {Unknown} /\ RowsMove /\ orders' = orders
  BY KnownIsNamed, RowsRest DEF Verbs!Verbs, Verbs!RetryDecrease, Verbs!rows
<1>2. CASE Verbs!StatusOf(o) = "cancelled"
  <2>1. Verbs!Take(c, "retry", o, "log", FALSE, NoCode)
    BY <1>2 DEF Verbs!RetryDecrease
  <2>2. o \in Numbers /\ orders'[o] = "cancelled"
    BY <1>1, <1>2, KnownIsNamed
  <2>3. QED
    BY <1>1, <2>1, <2>2, TakenOn
<1>3. CASE Verbs!StatusOf(o) # "cancelled"
  <2>1. PICK code \in {"order_not_found", "invalid_transition"} :
            /\ Verbs!Take(c, "retry", o, "answer", FALSE, code)
            /\ code = "order_not_found" => o = Unknown
    BY <1>3, KnownIsNamed DEF Verbs!RetryDecrease
  <2>2. code \in Verbs!Codes
    BY DEF Verbs!Codes, Verbs!NotFound, Verbs!Refused
  <2>3. QED
    BY <1>1, <2>1, <2>2, AnsweredAtOnce
<1>4. QED
  BY <1>2, <1>3

\* A line is refused for good reasons only once its order is no draft; a patch that
\* asks nothing commits nothing.
LEMMA EditLineSound ==
  ASSUME VerbInv, NEW c \in Clients, NEW o \in Verbs!Known, Verbs!EditLine(c, o)
  PROVE  VerbInv'
<1>1. /\ "edit" \in Verbs!Verbs \ Verbs!Idle /\ "nothing" \in Verbs!Verbs \ Verbs!Committing
      /\ o \in Numbers \cup {Unknown} /\ RowsMove /\ orders' = orders
  BY KnownIsNamed, RowsRest, VerbsApart DEF Verbs!EditLine, Verbs!rows
<1>2. {"order_not_found", "order_line_frozen", "negative_quantity"} \subseteq Verbs!Codes
  BY DEF Verbs!Codes, Verbs!NotFound, Verbs!Refused
<1>3. CASE /\ Verbs!StatusOf(o) = "none"
           /\ Verbs!Take(c, "edit", o, "answer", FALSE, "order_not_found")
  BY <1>1, <1>2, <1>3, KnownIsNamed, AnsweredAtOnce
<1>4. CASE /\ Verbs!StatusOf(o) \notin {"none", "draft"}
           /\ Verbs!Take(c, "edit", o, "answer", FALSE, "order_line_frozen")
  <2>1. o \in Numbers /\ orders'[o] \notin {"none", "draft"}
    BY <1>1, <1>4, KnownIsNamed
  <2>2. QED
    BY <1>1, <1>2, <1>4, <2>1, AnsweredAtOnce
<1>5. CASE Verbs!Take(c, "edit", o, "answer", FALSE, "negative_quantity")
  BY <1>1, <1>2, <1>5, AnsweredAtOnce
<1>6. CASE Verbs!Take(c, "edit", o, "answer", TRUE, "ok")
  BY <1>1, <1>6, AnsweredAtOnce
<1>7. CASE Verbs!Take(c, "nothing", o, "answer", FALSE, "ok")
  BY <1>1, <1>7, AnsweredAtOnce
<1>8. QED
  BY <1>3, <1>4, <1>5, <1>6, <1>7 DEF Verbs!EditLine

\* A sync of no lines or no figures is done without a commit, whatever it was asked of.
LEMMA SyncSound ==
  ASSUME VerbInv, NEW c \in Clients, NEW o \in Verbs!Known, Verbs!Sync(c, o)
  PROVE  VerbInv'
<1>1. /\ "sync" \in Verbs!Verbs \ (Verbs!Committing \cup Verbs!Idle)
      /\ o \in Numbers \cup {Unknown} /\ RowsMove
  BY KnownIsNamed, RowsRest, VerbsApart DEF Verbs!Sync
<1>2. {"internal_error", "port_rejected"} \subseteq Verbs!Codes
  BY DEF Verbs!Codes, Verbs!Internal, Verbs!Refused
<1>3. ASSUME NEW done \in BOOLEAN, NEW code \in {"ok", "internal_error"},
             Verbs!Take(c, "sync", o, "answer", done, code)
      PROVE  VerbInv'
  BY <1>1, <1>2, <1>3, AnsweredAtOnce
<1>4. CASE Verbs!Take(c, "sync", o, "answer", FALSE, "port_rejected")
  BY <1>1, <1>2, <1>4, AnsweredAtOnce
<1>5. QED
  BY <1>3, <1>4 DEF Verbs!Sync

\* A view commits nothing and says so of what is there.
LEMMA ViewsSound ==
  ASSUME VerbInv, NEW c \in Clients, NEW o \in Verbs!Known,
         Verbs!View(c, o) \/ Verbs!DeliveryView(c, o)
  PROVE  VerbInv'
<1>1. "view" \in Verbs!Verbs \ Verbs!Committing /\ o \in Numbers \cup {Unknown} /\ RowsMove
  BY KnownIsNamed, RowsRest, VerbsApart DEF Verbs!View, Verbs!DeliveryView
<1>2. PICK code \in {"order_not_found", "ok", "port_rejected"} :
          /\ Verbs!Take(c, "view", o, "answer", FALSE, code)
          /\ code = "order_not_found" => o = Unknown
  BY KnownIsNamed DEF Verbs!View, Verbs!DeliveryView
<1>3. code \in Verbs!Codes \cup {"ok"}
  BY DEF Verbs!Codes, Verbs!NotFound, Verbs!Refused
<1>4. CASE code = "ok"
  BY <1>1, <1>2, <1>3, <1>4, AnsweredAtOnce
<1>5. CASE code # "ok"
  BY <1>1, <1>2, <1>3, <1>5, AnsweredAtOnce
<1>6. QED
  BY <1>4, <1>5

\* The verbs of other modules answer by what they may say.
LEMMA ElsewhereSound ==
  ASSUME VerbInv, NEW c \in Clients, Verbs!Elsewhere(c)
  PROVE  VerbInv'
<1>1. /\ {"register", "elsewhere"} \subseteq Verbs!Verbs \ Verbs!Idle
      /\ "nothing" \in Verbs!Verbs \ Verbs!Committing /\ RowsMove
  BY RowsRest, VerbsApart DEF Verbs!Elsewhere
<1>2. CASE Verbs!Take(c, "nothing", Unknown, "answer", FALSE, "ok")
  BY <1>1, <1>2, AnsweredAtOnce
<1>3. ASSUME NEW v \in {"register", "elsewhere"},
             Verbs!Take(c, v, Unknown, "answer", TRUE, "ok")
      PROVE  VerbInv'
  BY <1>1, <1>3, AnsweredAtOnce
<1>4. ASSUME NEW v \in {"register", "elsewhere"},
             NEW code \in Verbs!TemplateCodes \cup Verbs!CarrierCodes
                          \cup Verbs!DeliveryCodes \cup Verbs!ReinvoiceCodes,
             Verbs!Take(c, v, Unknown, "answer", FALSE, code)
      PROVE  VerbInv'
  <2>1. /\ code \in Verbs!Codes
        /\ code \notin {"ok", "quotation_ordered", "decrease_activity_failed", "order_billed",
                        "not_draft", "duplicate_number", "order_line_frozen"}
    BY DEF Verbs!Codes, Verbs!NotFound, Verbs!Refused, Verbs!TemplateCodes,
           Verbs!CarrierCodes, Verbs!DeliveryCodes, Verbs!ReinvoiceCodes
  <2>2. QED
    BY <1>1, <1>4, <2>1, AnsweredAtOnce
<1>5. ASSUME NEW v \in {"register", "elsewhere"}, NEW done \in BOOLEAN,
             Verbs!Take(c, v, Unknown, "answer", done, "internal_error")
      PROVE  VerbInv'
  <2>1. "internal_error" \in Verbs!Codes
    BY DEF Verbs!Codes, Verbs!Internal
  <2>2. QED
    BY <1>1, <1>5, <2>1, AnsweredAtOnce
<1>6. QED
  BY <1>2, <1>3, <1>4, <1>5 DEF Verbs!Elsewhere

-----------------------------------------------------------------------------
(* The verbs' later steps.                                                 *)

\* A refusal that says nothing of a row.
LEMMA RefusedPlainly ==
  ASSUME VerbInv, NEW c \in Clients, NEW done \in BOOLEAN,
         NEW code \in {"quotation_not_found", "invalid_transition", "duplicate_number",
                       "internal_error", "port_rejected", "not_draft", "quotation_ordered"},
         Verbs!Reply(c, done, code), RowsMove,
         code # "internal_error" => ~done,
         code = "invalid_transition" => call[c] # "cancel",
         code = "duplicate_number" =>
            call[c] # "quote" /\ id[c] \in Numbers /\ orders'[id[c]] # "none",
         code = "not_draft" =>
            id[c] = Unknown \/ (id[c] \in Numbers /\ orders'[id[c]] \notin {"none", "draft"}),
         code = "quotation_ordered" => quotation' = "ordered"
  PROVE  VerbInv'
<1>1. code \in Verbs!Codes /\ code \notin {"ok", "decrease_activity_failed"}
  BY DEF Verbs!Codes, Verbs!NotFound, Verbs!Internal, Verbs!Refused
<1>2. /\ CallsTyped /\ \A d \in Clients \ {c} : Still(d)
      /\ at'[c] = "answer" /\ call'[c] = call[c] /\ id'[c] = id[c] /\ did'[c] = done
      /\ reply'[c] = code /\ UNCHANGED <<promised, owed, lost>>
  BY <1>1, Replied DEF VerbInv
<1>3. RefusalSound(c)'
  BY <1>2 DEF RefusalSound, NoDraft
<1>4. code = "internal_error" => code \notin Verbs!NotFound \cup Verbs!Refused
  BY DEF Verbs!NotFound, Verbs!Refused
<1>5. AnswerSound(c)'
  BY <1>1, <1>2, <1>3, <1>4 DEF AnswerSound
<1>6. ClientSound(c)'
  BY <1>2, <1>5 DEF ClientSound
<1>7. QED
  BY <1>2, <1>6, CallMoves

\* The late read names an ordered quotation, which stays.
LEMMA ClassifyQuotationSound ==
  ASSUME VerbInv, NEW c \in Clients, Verbs!ClassifyQuotation(c)
  PROVE  VerbInv'
<1>1. RowsMove /\ quotation' = quotation
  BY RowsRest DEF Verbs!ClassifyQuotation, Verbs!rows
<1>2. call[c] # "cancel"
  BY DEF Verbs!ClassifyQuotation, Verbs!Flips
<1>3. CASE Verbs!Reply(c, FALSE, "quotation_not_found")
  BY <1>1, <1>3, RefusedPlainly
<1>4. CASE quotation = "ordered" /\ Verbs!Reply(c, FALSE, "quotation_ordered")
  BY <1>1, <1>4, RefusedPlainly
<1>5. CASE Verbs!Reply(c, FALSE, "invalid_transition")
  BY <1>1, <1>2, <1>5, RefusedPlainly
<1>6. QED
  BY <1>3, <1>4, <1>5 DEF Verbs!ClassifyQuotation

\* The order is there before the mark, or its number was taken.
LEMMA ConvertCreateSound ==
  ASSUME VerbInv, NEW c \in Clients, Verbs!ConvertCreate(c)
  PROVE  VerbInv'
<1>1. /\ at[c] = "create" /\ call[c] = "convert" /\ id[c] \in Numbers
      /\ UNCHANGED <<quotation, billed, told>>
  BY DEF Verbs!ConvertCreate, VerbInv, ClientSound
<1>2. CASE orders[id[c]] = "none"
  <2>1. orders' = [orders EXCEPT ![id[c]] = "draft"] /\ Verbs!Goto(c, "mark", TRUE)
    BY <1>2 DEF Verbs!ConvertCreate
  <2>2. RowsMove /\ orders'[id[c]] = "draft"
    BY <1>1, <1>2, <2>1, OneOrderMoves DEF OrderStates
  <2>3. /\ CallsTyped /\ \A d \in Clients \ {c} : Still(d)
        /\ at'[c] = "mark" /\ call'[c] = call[c] /\ id'[c] = id[c] /\ did'[c] = TRUE
        /\ UNCHANGED <<promised, owed, lost>>
    BY <2>1, Gone DEF VerbInv, Steps
  <2>4. ClientSound(c)'
    BY <1>1, <2>2, <2>3 DEF ClientSound
  <2>5. QED
    BY <2>2, <2>3, <2>4, CallMoves
<1>3. CASE orders[id[c]] # "none"
  <2>1. Verbs!Reply(c, FALSE, "duplicate_number") /\ UNCHANGED Verbs!rows
    BY <1>1, <1>3 DEF Verbs!ConvertCreate, Verbs!rows
  <2>2. orders'[id[c]] # "none" /\ call[c] # "quote"
    BY <1>1, <1>3, <2>1 DEF Verbs!rows
  <2>3. QED
    BY <1>1, <2>1, <2>2, RowsRest, RefusedPlainly
<1>4. QED
  BY <1>2, <1>3

\* An ok leaves an ordered quotation and the order; a refused mark a 500.
LEMMA ConvertMarkSound ==
  ASSUME VerbInv, NEW c \in Clients, Verbs!ConvertMark(c)
  PROVE  VerbInv'
<1>1. /\ at[c] = "mark" /\ call[c] = "convert" /\ id[c] \in Numbers
      /\ orders[id[c]] # "none" /\ UNCHANGED <<orders, billed, told>>
  BY DEF Verbs!ConvertMark, VerbInv, ClientSound
<1>2. CASE quotation \in {"accepted", "ordered"}
  <2>1. quotation' = "ordered" /\ Verbs!Reply(c, TRUE, "ok")
    BY <1>2 DEF Verbs!ConvertMark
  <2>2. RowsMove
    BY <1>1, <2>1, OneQuotationMoves DEF QuotationStates
  <2>3. /\ CallsTyped /\ \A d \in Clients \ {c} : Still(d)
        /\ at'[c] = "answer" /\ call'[c] = call[c] /\ id'[c] = id[c] /\ did'[c] = TRUE
        /\ reply'[c] = "ok" /\ UNCHANGED <<promised, owed, lost>>
    BY <2>1, Replied DEF VerbInv
  <2>4. OkSound(c)'
    BY <1>1, <2>1, <2>3, VerbsApart DEF OkSound
  <2>5. AnswerSound(c)'
    BY <2>3, <2>4 DEF AnswerSound, RefusalSound, Verbs!NotFound, Verbs!Refused
  <2>6. ClientSound(c)'
    BY <2>3, <2>5 DEF ClientSound
  <2>7. QED
    BY <2>2, <2>3, <2>6, CallMoves
<1>3. CASE quotation \notin {"accepted", "ordered"}
  <2>1. Verbs!Reply(c, TRUE, "internal_error") /\ UNCHANGED Verbs!rows
    BY <1>1, <1>3 DEF Verbs!ConvertMark, Verbs!rows
  <2>2. QED
    BY <2>1, RowsRest, RefusedPlainly
<1>4. QED
  BY <1>2, <1>3

\* The flip finds a draft, or an order that will never be one again.
LEMMA FlipOrderSound ==
  ASSUME VerbInv, NEW c \in Clients, Verbs!FlipOrder(c)
  PROVE  VerbInv'
<1>1. /\ at[c] = "ports" /\ call[c] = "confirm" /\ Named(id[c])
      /\ UNCHANGED <<quotation, billed, told>>
  BY DEF Verbs!FlipOrder, VerbInv, ClientSound
<1>2. CASE Verbs!StatusOf(id[c]) = "draft"
  <2>1. id[c] \in Numbers /\ orders[id[c]] = "draft"
    BY <1>1, <1>2 DEF Named, Verbs!StatusOf
  <2>2. /\ orders' = [orders EXCEPT ![id[c]] = "to_deliver_and_bill"]
        /\ Verbs!Reply(c, TRUE, "ok")
    BY <1>2 DEF Verbs!FlipOrder
  <2>3. RowsMove /\ orders'[id[c]] = "to_deliver_and_bill"
    BY <1>1, <2>1, <2>2, OneOrderMoves DEF OrderStates
  <2>4. /\ CallsTyped /\ \A d \in Clients \ {c} : Still(d)
        /\ at'[c] = "answer" /\ call'[c] = call[c] /\ id'[c] = id[c] /\ did'[c] = TRUE
        /\ reply'[c] = "ok" /\ UNCHANGED <<promised, owed, lost>>
    BY <2>2, Replied DEF VerbInv
  <2>5. OkSound(c)'
    BY <1>1, <2>1, <2>3, <2>4, VerbsApart DEF OkSound
  <2>6. AnswerSound(c)'
    BY <2>4, <2>5 DEF AnswerSound, RefusalSound, Verbs!NotFound, Verbs!Refused
  <2>7. ClientSound(c)'
    BY <2>4, <2>6 DEF ClientSound
  <2>8. QED
    BY <2>3, <2>4, <2>7, CallMoves
<1>3. CASE Verbs!StatusOf(id[c]) # "draft"
  <2>1. Verbs!Reply(c, FALSE, "not_draft") /\ UNCHANGED Verbs!rows
    BY <1>1, <1>3 DEF Verbs!FlipOrder, Verbs!rows
  <2>2. id[c] = Unknown \/ (id[c] \in Numbers /\ orders'[id[c]] \notin {"none", "draft"})
    BY <1>1, <1>3, <2>1 DEF Named, Verbs!StatusOf, Verbs!rows
  <2>3. QED
    BY <2>1, <2>2, RowsRest, RefusedPlainly
<1>4. QED
  BY <1>2, <1>3

\* A port refuses before anything was committed.
LEMMA PortRefusesSound ==
  ASSUME VerbInv, NEW c \in Clients, Verbs!PortRefuses(c)
  PROVE  VerbInv'
BY RowsRest, RefusedPlainly DEF Verbs!PortRefuses

\* The read that explains a refused cancel comes later; what it finds still stands.
LEMMA ClassifyCancelSound ==
  ASSUME VerbInv, NEW c \in Clients, Verbs!ClassifyCancel(c)
  PROVE  VerbInv'
<1>1. /\ at[c] = "classify" /\ call[c] = "cancel" /\ Uncancellable(id[c])
      /\ UNCHANGED Verbs!rows
  BY DEF Verbs!ClassifyCancel, VerbInv, ClientSound, Verbs!Flips
<1>2. RowsMove /\ orders' = orders /\ billed' = billed
  BY <1>1, RowsRest DEF Verbs!rows
<1>3. orders \in [Numbers -> OrderStates] /\ Unknown \notin Numbers
  BY FrontDeskAssumption DEF VerbInv, Verbs!TypeOK, OrderStates, Verbs!SurfaceAssumption
<1>4. PICK code \in {"order_not_found", "invalid_transition", "order_billed"} :
          /\ Verbs!Reply(c, FALSE, code)
          /\ code = "order_not_found" => Verbs!StatusOf(id[c]) = "none"
          /\ code = "invalid_transition" =>
                \/ Verbs!StatusOf(id[c]) \in {"completed", "cancelled"}
                \/ /\ Verbs!StatusOf(id[c]) \in {"draft", "to_deliver_and_bill"}
                   /\ id[c] \notin billed
          /\ code = "order_billed" =>
                /\ Verbs!StatusOf(id[c]) \in {"draft", "to_deliver_and_bill"}
                /\ id[c] \in billed
  <2>1. Verbs!StatusOf(id[c]) \in OrderStates
    BY <1>1, <1>3 DEF Uncancellable, Named, Verbs!StatusOf, OrderStates
  <2>2. CASE Verbs!StatusOf(id[c]) = "none"
    BY <2>2 DEF Verbs!ClassifyCancel
  <2>3. CASE Verbs!StatusOf(id[c]) \in {"completed", "cancelled"}
    BY <2>3 DEF Verbs!ClassifyCancel
  <2>4. CASE Verbs!StatusOf(id[c]) \in {"draft", "to_deliver_and_bill"}
    BY <2>4 DEF Verbs!ClassifyCancel
  <2>5. QED
    BY <2>1, <2>2, <2>3, <2>4 DEF OrderStates
<1>5. /\ code = "order_not_found" => id[c] = Unknown
      /\ code = "invalid_transition" =>
            id[c] \in Numbers /\ orders[id[c]] \in {"completed", "cancelled"}
      /\ code = "order_billed" =>
            id[c] \in billed /\ id[c] \in Numbers /\ orders[id[c]] # "none"
  BY <1>1, <1>3, <1>4 DEF Uncancellable, Named, Verbs!StatusOf
<1>6. code \in Verbs!Codes
  BY DEF Verbs!Codes, Verbs!NotFound, Verbs!Refused
<1>7. /\ CallsTyped /\ \A d \in Clients \ {c} : Still(d)
      /\ at'[c] = "answer" /\ call'[c] = call[c] /\ id'[c] = id[c] /\ did'[c] = FALSE
      /\ reply'[c] = code /\ UNCHANGED <<promised, owed, lost>>
  BY <1>4, <1>6, Replied DEF VerbInv
<1>8. RefusalSound(c)'
  BY <1>1, <1>2, <1>5, <1>7 DEF RefusalSound
<1>9. AnswerSound(c)'
  BY <1>6, <1>7, <1>8 DEF AnswerSound
<1>10. ClientSound(c)'
  BY <1>7, <1>9 DEF ClientSound
<1>11. QED
  BY <1>2, <1>7, <1>10, CallMoves

\* The log is of an order that was cancelled by then.
LEMMA LogDecreaseSound ==
  ASSUME VerbInv, NEW c \in Clients, Verbs!LogDecrease(c)
  PROVE  VerbInv'
<1>1. /\ at[c] = "log" /\ call[c] \in {"cancel", "retry"} /\ id[c] \in Numbers
      /\ orders[id[c]] = "cancelled"
      /\ call[c] = "cancel" => did[c]
      /\ call[c] = "retry" => ~did[c]
  BY DEF Verbs!LogDecrease, VerbInv, ClientSound
<1>2. /\ told' = told \cup {id[c]}
      /\ UNCHANGED <<quotation, orders, billed, call, id, did, promised>>
      /\ at' = [at EXCEPT ![c] = "answer"] /\ reply' = [reply EXCEPT ![c] = "ok"]
      /\ owed' = owed \ {id[c]} /\ lost' = lost \ {id[c]}
  BY DEF Verbs!LogDecrease
<1>3. /\ CallsTyped /\ \A d \in Clients \ {c} : Still(d)
      /\ at'[c] = "answer" /\ did'[c] = did[c] /\ reply'[c] = "ok"
  BY <1>2 DEF VerbInv, Verbs!TypeOK, CallsTyped, Steps, Still
<1>4. OthersStill(c)
  BY <1>1, <1>2, <1>3 DEF VerbInv, OthersStill, Grows
<1>5. OkSound(c)'
  BY <1>1, <1>2, <1>3, VerbsApart DEF OkSound
<1>6. AnswerSound(c)'
  BY <1>3, <1>5 DEF AnswerSound, RefusalSound, Verbs!NotFound, Verbs!Refused
<1>7. ClientSound(c)'
  BY <1>3, <1>6 DEF ClientSound
<1>8. Verbs!TypeOK'
  BY <1>1, <1>2, <1>3 DEF VerbInv, Verbs!TypeOK, CallsTyped, Steps
<1>9. QED
  BY <1>2, <1>4, <1>7, <1>8, OneCallMoves

\* The one refusal after a commit.
LEMMA LogFailsSound ==
  ASSUME VerbInv, NEW c \in Clients, Verbs!LogFails(c)
  PROVE  VerbInv'
<1>1. /\ at[c] = "log" /\ id[c] \in Numbers /\ orders[id[c]] = "cancelled"
      /\ UNCHANGED Verbs!rows /\ Verbs!Reply(c, did[c], "decrease_activity_failed")
  BY DEF Verbs!LogFails, VerbInv, ClientSound
<1>2. "decrease_activity_failed" \in Verbs!Codes
  BY DEF Verbs!Codes, Verbs!Refused
<1>3. did[c] \in BOOLEAN
  BY DEF VerbInv, Verbs!TypeOK
<1>4. /\ CallsTyped /\ \A d \in Clients \ {c} : Still(d)
      /\ at'[c] = "answer" /\ call'[c] = call[c] /\ id'[c] = id[c]
      /\ reply'[c] = "decrease_activity_failed" /\ UNCHANGED <<promised, owed, lost>>
  BY <1>1, <1>2, <1>3, Replied DEF VerbInv
<1>5. AnswerSound(c)'
  BY <1>1, <1>2, <1>4 DEF AnswerSound, RefusalSound, Verbs!rows
<1>6. ClientSound(c)'
  BY <1>4, <1>5 DEF ClientSound
<1>7. QED
  BY <1>1, <1>4, <1>6, RowsRest, CallMoves

\* A statement fails with what was committed before.
LEMMA FailSound ==
  ASSUME VerbInv, NEW c \in Clients, Verbs!Fail(c)
  PROVE  VerbInv'
<1>1. did[c] \in BOOLEAN
  BY DEF VerbInv, Verbs!TypeOK
<1>2. QED
  BY <1>1, RowsRest, RefusedPlainly DEF Verbs!Fail

\* A client that has read its answer, or never will.
LEMMA HungUp ==
  ASSUME VerbInv, NEW c \in Clients, Verbs!HangUp(c)
  PROVE  /\ CallsTyped /\ \A d \in Clients \ {c} : Still(d)
         /\ ClientSound(c)'
<1>1. CallsTyped
  BY DEF Verbs!HangUp, VerbInv, Verbs!TypeOK, CallsTyped, Steps
<1>2. \A d \in Clients \ {c} : Still(d)
  BY DEF Verbs!HangUp, VerbInv, Verbs!TypeOK, Still
<1>3. at'[c] = "idle"
  BY DEF Verbs!HangUp, VerbInv, Verbs!TypeOK
<1>4. QED
  BY <1>1, <1>2, <1>3 DEF ClientSound

\* What an ok stood for while it was on its way, it stands for when it is read.
LEMMA HearSound ==
  ASSUME VerbInv, NEW c \in Clients, Verbs!Hear(c)
  PROVE  VerbInv'
<1>1. /\ at[c] = "answer" /\ Verbs!HangUp(c) /\ UNCHANGED Verbs!rows
      /\ promised' = promised \cup
            {<<p, id[c]>> : p \in {q \in Verbs!Promise(call[c]) : reply[c] = "ok"}}
      /\ owed' \subseteq owed \cup Numbers /\ lost' \subseteq lost \cup Numbers
  BY DEF Verbs!Hear
<1>2. RowsMove
  BY <1>1, RowsRest
<1>3. /\ CallsTyped /\ \A d \in Clients \ {c} : Still(d)
      /\ ClientSound(c)'
  BY <1>1, HungUp
<1>4. \A d \in Clients : ClientSound(d)'
  BY <1>2, <1>3, ClientStands DEF VerbInv, RowsMove
<1>5. ASSUME NEW p \in Verbs!Promise(call[c]), reply[c] = "ok"
      PROVE  /\ p \in {"converted", "told"} /\ id[c] \in Numbers
             /\ p = "converted" => quotation = "ordered" /\ orders[id[c]] # "none"
             /\ p = "told" => orders[id[c]] = "cancelled" /\ id[c] \in told
  <2>1. OkSound(c)
    BY <1>1, <1>5 DEF VerbInv, ClientSound, AnswerSound
  <2>2. \/ call[c] = "convert" /\ p = "converted"
        \/ call[c] \in {"cancel", "retry"} /\ p = "told"
    BY <1>5 DEF Verbs!Promise
  <2>3. QED
    BY <2>1, <2>2 DEF OkSound
<1>6. promised' \in SUBSET ({"converted", "told"} \X Numbers)
  BY <1>1, <1>5 DEF VerbInv, Verbs!TypeOK
<1>7. PromisesStand'
  <2>1. ASSUME NEW q \in promised'
        PROVE  /\ q[1] = "converted" => quotation = "ordered" /\ orders[q[2]] # "none"
               /\ q[1] = "told" => orders[q[2]] = "cancelled" /\ q[2] \in told
    <3>1. CASE q \in promised
      BY <3>1 DEF VerbInv, PromisesStand, Verbs!PromisesStand
    <3>2. CASE q \notin promised
      BY <1>1, <1>5, <2>1, <3>2
    <3>3. QED
      BY <3>1, <3>2
  <2>2. QED
    BY <1>1, <2>1 DEF PromisesStand, Verbs!PromisesStand, Verbs!rows
<1>8. Verbs!TypeOK'
  BY <1>1, <1>2, <1>3, <1>6
     DEF VerbInv, Verbs!TypeOK, CallsTyped, RowsMove, Steps, QuotationStates, OrderStates
<1>9. QED
  BY <1>2, <1>4, <1>7, <1>8 DEF VerbInv, RowsMove

\* A call that is never answered says nothing.
LEMMA VanishSound ==
  ASSUME VerbInv, NEW c \in Clients, Verbs!Vanish(c)
  PROVE  VerbInv'
<1>1. /\ Verbs!HangUp(c) /\ UNCHANGED Verbs!rows /\ UNCHANGED <<promised, owed>>
      /\ lost' \subseteq lost \cup Numbers
  BY DEF Verbs!Vanish
<1>2. RowsMove
  BY <1>1, RowsRest
<1>3. /\ CallsTyped /\ \A d \in Clients \ {c} : Still(d)
      /\ ClientSound(c)'
  BY <1>1, HungUp
<1>4. Verbs!TypeOK'
  BY <1>1, <1>2, <1>3
     DEF VerbInv, Verbs!TypeOK, CallsTyped, RowsMove, Steps, QuotationStates, OrderStates
<1>5. QED
  BY <1>1, <1>2, <1>3, <1>4, OneCallMoves DEF OthersStill, RowsMove

\* A bill, a finished order, and no step at all.
LEMMA RestSound ==
  ASSUME VerbInv,
         (\E n \in Numbers : Verbs!Bill(n) \/ Verbs!Complete(n)) \/ UNCHANGED Verbs!vars
  PROVE  VerbInv'
<1>1. UNCHANGED <<at, call, id, did, reply, promised, owed, lost>>
  BY DEF Verbs!Bill, Verbs!Complete, Verbs!vars, Verbs!calls, Verbs!history
<1>2. RowsMove
  <2>1. ASSUME NEW n \in Numbers, Verbs!Bill(n)
        PROVE  RowsMove
    BY <2>1 DEF Verbs!Bill, VerbInv, Verbs!TypeOK, RowsMove, Grows, QuotationStates, OrderStates
  <2>2. ASSUME NEW n \in Numbers, Verbs!Complete(n)
        PROVE  RowsMove
    BY <2>2, OneOrderMoves DEF Verbs!Complete, OrderStates
  <2>3. CASE UNCHANGED Verbs!vars
    BY <2>3, RowsRest DEF Verbs!vars
  <2>4. QED
    BY <2>1, <2>2, <2>3
<1>3. \A c \in Clients : ClientSound(c)'
  BY <1>1, <1>2, ClientStands DEF VerbInv, Still, RowsMove
<1>4. PromisesStand'
  BY <1>1, <1>2, PromisesStay DEF VerbInv, RowsMove
<1>5. Verbs!TypeOK'
  BY <1>1, <1>2 DEF VerbInv, Verbs!TypeOK, RowsMove, QuotationStates, OrderStates
<1>6. QED
  BY <1>2, <1>3, <1>4, <1>5 DEF VerbInv, RowsMove

-----------------------------------------------------------------------------
(* The verbs' invariant.                                                   *)

\* Nobody calls, and there is nothing to say anything of.
LEMMA VerbInit == Verbs!Init => VerbInv
<1> SUFFICES ASSUME Verbs!Init PROVE VerbInv
  OBVIOUS
<1>1. Verbs!TypeOK
  BY DEF Verbs!Init, Verbs!TypeOK
<1>2. \A c \in Clients : ClientSound(c)
  BY DEF Verbs!Init, ClientSound
<1>3. PromisesStand
  BY DEF Verbs!Init, PromisesStand, Verbs!PromisesStand
<1>4. told = {}
  BY DEF Verbs!Init
<1>5. QED
  BY <1>1, <1>2, <1>3, <1>4 DEF VerbInv

\* Whatever a client asks.
LEMMA RequestSound ==
  ASSUME VerbInv, NEW c \in Clients, Verbs!Request(c)
  PROVE  VerbInv'
<1>1. CASE Verbs!CreateQuotation(c) \/ Verbs!Elsewhere(c)
  BY <1>1, CreateQuotationSound, ElsewhereSound
<1>2. CASE \E v \in Verbs!Flips : Verbs!FlipQuotation(c, v)
  BY <1>2, FlipQuotationSound
<1>3. CASE \E n \in Numbers : Verbs!CreateOrder(c, n) \/ Verbs!ConvertQuotation(c, n)
  BY <1>3, CreateOrderSound, ConvertQuotationSound
<1>4. CASE \E o \in Verbs!Known :
              \/ Verbs!ConfirmOrder(c, o) \/ Verbs!CancelOrder(c, o)
              \/ Verbs!RetryDecrease(c, o)
  BY <1>4, ConfirmOrderSound, CancelOrderSound, RetryDecreaseSound
<1>5. CASE \E o \in Verbs!Known :
              \/ Verbs!EditLine(c, o) \/ Verbs!Sync(c, o)
              \/ Verbs!View(c, o) \/ Verbs!DeliveryView(c, o)
  BY <1>5, EditLineSound, SyncSound, ViewsSound
<1>6. QED
  BY <1>1, <1>2, <1>3, <1>4, <1>5 DEF Verbs!Request

\* Whatever a running call does next.
LEMMA ContinueSound ==
  ASSUME VerbInv, NEW c \in Clients, Verbs!Continue(c)
  PROVE  VerbInv'
BY ClassifyQuotationSound, ConvertCreateSound, ConvertMarkSound, FlipOrderSound,
   PortRefusesSound, ClassifyCancelSound, LogDecreaseSound, LogFailsSound, HearSound
   DEF Verbs!Continue

\* Whatever one client's call does, and whatever the billing side does.
LEMMA VerbsSound ==
  ASSUME VerbInv, [Verbs!Next]_(Verbs!vars)
  PROVE  VerbInv'
<1>1. CASE UNCHANGED Verbs!vars \/ \E n \in Numbers : Verbs!Bill(n) \/ Verbs!Complete(n)
  BY <1>1, RestSound
<1>2. CASE \E c \in Clients : Verbs!Request(c) \/ Verbs!Continue(c)
  BY <1>2, RequestSound, ContinueSound
<1>3. CASE \E c \in Clients : Verbs!Fail(c) \/ Verbs!Vanish(c)
  BY <1>3, FailSound, VanishSound
<1>4. QED
  BY <1>1, <1>2, <1>3 DEF Verbs!Next

-----------------------------------------------------------------------------
(* Both behind one door: a step of the one leaves the other alone.         *)

DeskInv == open \in {"verbs", "rows"} /\ VerbInv /\ RowsInv

\* Each step is a step of one side and none of the other.
LEMMA DeskSteps == DeskInv /\ [DeskNext]_deskVars => DeskInv'
<1> SUFFICES ASSUME DeskInv, [DeskNext]_deskVars PROVE DeskInv'
  OBVIOUS
<1>1. RowsAssumption
  BY FrontDeskAssumption
<1>2. /\ [Verbs!Next]_(Verbs!vars) /\ [Next]_vars
      /\ open' = open
  BY DEF DeskNext, VerbStep, RowStep, deskVars, verbVars,
         Verbs!vars, Verbs!rows, Verbs!calls, Verbs!history
<1>3. VerbInv'
  BY <1>2, VerbsSound DEF DeskInv
<1>4. RowsInv'
  BY <1>1, <1>2, RowsStep DEF DeskInv
<1>5. QED
  BY <1>2, <1>3, <1>4 DEF DeskInv

\* Both invariants, for the desk.
LEMMA DeskInvariance == DeskSpec => []DeskInv
<1>1. DeskInit => DeskInv
  BY FrontDeskAssumption, VerbInit, RowsInit DEF DeskInit, DeskInv
<1>2. QED
  BY <1>1, DeskSteps, PTL DEF DeskSpec

\* No call, answer, row, promise or debt of the guarded routes, and no row or read of
\* the generic ones, is ever outside what the code has a name for.
THEOREM DeskTypeCorrect == DeskSpec => []DeskTypeOK
<1>1. DeskInv => DeskTypeOK
  BY DEF DeskInv, VerbInv, RowsInv, DeskTypeOK
<1>2. QED
  BY <1>1, DeskInvariance, PTL

\* The three families of codes are apart, and each has its status.
LEMMA CodesHaveStatus ==
  /\ \A k \in Verbs!NotFound : Verbs!HttpStatus(k) = 404
  /\ \A k \in Verbs!Internal : Verbs!HttpStatus(k) = 500
  /\ \A k \in Verbs!Refused : Verbs!HttpStatus(k) = 422
<1>1. \A k \in Verbs!Refused : k \notin Verbs!NotFound /\ k \notin Verbs!Internal
  BY DEF Verbs!Refused, Verbs!NotFound, Verbs!Internal
<1>2. \A k \in Verbs!Internal : k \notin Verbs!NotFound
  BY DEF Verbs!NotFound, Verbs!Internal
<1>3. QED
  BY <1>1, <1>2 DEF Verbs!HttpStatus

\* For any clients and order numbers, however calls interleave, fail and vanish: an
\* ok of a verb that writes was earned by this call, an ok of a conversion, a confirm,
\* a cancel or a retry still holds when it is read, a 4xx has committed nothing, and a
\* failed decrease log is reported of an order that is cancelled.
THEOREM AnswersAreTrue == DeskSpec => []AnswersTellTheTruth
<1>1. ASSUME VerbInv PROVE AnswersTellTheTruth
  <2> SUFFICES ASSUME NEW c \in Clients, at[c] = "answer"
      PROVE  /\ Verbs!Answered(c) \in {200, 201} =>
                  /\ call[c] \in Verbs!Committing => did[c]
                  /\ call[c] \in Verbs!Idle => ~did[c]
                  /\ call[c] = "convert" =>
                        quotation = "ordered" /\ Verbs!StatusOf(id[c]) # "none"
                  /\ call[c] = "confirm" => Verbs!StatusOf(id[c]) \notin {"none", "draft"}
                  /\ call[c] \in {"cancel", "retry"} =>
                        Verbs!StatusOf(id[c]) = "cancelled" /\ id[c] \in told
             /\ Verbs!Answered(c) \in {404, 422} /\ reply[c] # "decrease_activity_failed"
                  => ~did[c]
             /\ reply[c] = "decrease_activity_failed" =>
                  /\ Verbs!Answered(c) = 422
                  /\ Verbs!StatusOf(id[c]) = "cancelled"
    BY DEF AnswersTellTheTruth, Verbs!AnswersTellTheTruth
  <2>1. AnswerSound(c)
    BY <1>1 DEF VerbInv, ClientSound
  <2>2. CASE reply[c] = "ok"
    <3>1. Verbs!Answered(c) \in {200, 201} /\ reply[c] # "decrease_activity_failed"
      BY <2>2 DEF Verbs!Answered
    <3>2. OkSound(c)
      BY <2>1, <2>2 DEF AnswerSound
    <3>3. Verbs!Answered(c) \notin {404, 422}
      BY <3>1
    <3>4. \A n \in Numbers : Verbs!StatusOf(n) = orders[n]
      BY FrontDeskAssumption DEF Verbs!SurfaceAssumption, Verbs!StatusOf
    <3>5. QED
      BY <3>1, <3>2, <3>3, <3>4 DEF OkSound
  <2>3. CASE reply[c] # "ok"
    <3>1. reply[c] \in Verbs!NotFound \cup Verbs!Internal \cup Verbs!Refused
      BY <2>1, <2>3 DEF AnswerSound, Verbs!Codes
    <3>2. Verbs!Answered(c) = Verbs!HttpStatus(reply[c])
      BY <2>3 DEF Verbs!Answered
    <3>3. CASE reply[c] \in Verbs!Internal
      <4>1. Verbs!Answered(c) = 500 /\ reply[c] # "decrease_activity_failed"
        BY <3>2, <3>3, CodesHaveStatus DEF Verbs!Internal
      <4>2. QED
        BY <4>1
    <3>4. CASE reply[c] \in Verbs!NotFound \cup Verbs!Refused
      <4>1. Verbs!Answered(c) \in {404, 422}
        BY <3>2, <3>4, CodesHaveStatus
      <4>2. reply[c] # "decrease_activity_failed" => ~did[c]
        BY <2>1, <3>4 DEF AnswerSound
      <4>3. ASSUME reply[c] = "decrease_activity_failed"
            PROVE  Verbs!Answered(c) = 422 /\ Verbs!StatusOf(id[c]) = "cancelled"
        <5>1. "decrease_activity_failed" \in Verbs!Refused
          BY DEF Verbs!Refused
        <5>2. Verbs!Answered(c) = 422
          BY <4>3, <3>2, <5>1, CodesHaveStatus
        <5>3. id[c] \in Numbers /\ orders[id[c]] = "cancelled"
          BY <2>1, <4>3 DEF AnswerSound
        <5>4. id[c] # Unknown
          BY <5>3, FrontDeskAssumption DEF Verbs!SurfaceAssumption
        <5>5. QED
          BY <5>2, <5>3, <5>4 DEF Verbs!StatusOf
      <4>4. Verbs!Answered(c) \notin {200, 201}
        BY <4>1
      <4>5. QED
        BY <4>2, <4>3, <4>4
    <3>5. QED
      BY <3>1, <3>3, <3>4
  <2>4. QED
    BY <2>2, <2>3
<1>2. DeskInv => AnswersTellTheTruth
  BY <1>1 DEF DeskInv
<1>3. QED
  BY <1>2, DeskInvariance, PTL

\* The read that classifies a refusal comes after it and before the answer is read:
\* what the refusal names was of the kind that stays.
THEOREM RefusalsOutliveTheRead == DeskSpec => []RefusalsStand
<1>1. ASSUME VerbInv PROVE RefusalsStand
  <2> SUFFICES ASSUME NEW c \in Clients, at[c] = "answer"
      PROVE /\ reply[c] = "quotation_ordered" => quotation = "ordered"
            /\ reply[c] = "duplicate_number" =>
                  IF call[c] = "quote" THEN quotation # "none" ELSE orders[id[c]] # "none"
            /\ reply[c] = "not_draft" => Verbs!StatusOf(id[c]) # "draft"
            /\ reply[c] = "order_line_frozen" =>
                  Verbs!StatusOf(id[c]) \notin {"none", "draft"}
            /\ reply[c] = "order_billed" =>
                  id[c] \in billed /\ Verbs!StatusOf(id[c]) # "none"
            /\ reply[c] = "invalid_transition" /\ call[c] = "cancel" =>
                  Verbs!StatusOf(id[c]) \in {"completed", "cancelled"}
            /\ reply[c] = "order_not_found" => id[c] = Unknown
    BY DEF RefusalsStand, Verbs!RefusalsStand
  <2>1. RefusalSound(c)
    BY <1>1 DEF VerbInv, ClientSound, AnswerSound
  <2>2. \A n \in Numbers : n # Unknown
    BY FrontDeskAssumption DEF Verbs!SurfaceAssumption
  <2>3. \A n \in Numbers : Verbs!StatusOf(n) = orders[n]
    BY <2>2 DEF Verbs!StatusOf
  <2>4. Verbs!StatusOf(Unknown) = "none"
    BY DEF Verbs!StatusOf
  <2>5. NoDraft(id[c]) => Verbs!StatusOf(id[c]) # "draft"
    BY <2>3, <2>4 DEF NoDraft
  <2>6. QED
    BY <2>1, <2>3, <2>5 DEF RefusalSound
<1>2. DeskInv => RefusalsStand
  BY <1>1 DEF DeskInv
<1>3. QED
  BY <1>2, DeskInvariance, PTL

\* What some client was once answered ok is not taken back by any later call.
THEOREM PromisesAreKept == DeskSpec => []PromisesStand
<1>1. DeskInv => PromisesStand
  BY DEF DeskInv, VerbInv
<1>2. QED
  BY <1>1, DeskInvariance, PTL

\* The rows' theorems hold behind the same door.
THEOREM DeskKeepsRows == DeskSpec => []BreaksAreOld /\ FinishedStays
<1>1. DeskInv => BreaksAreOld
  BY DEF DeskInv, RowsInv
<1>2. DeskInit => Init
  BY DEF DeskInit
<1>3. [DeskNext]_deskVars => [Next]_vars
  BY DEF DeskNext, VerbStep, RowStep, deskVars
<1>4. DeskSpec => Spec
  BY <1>2, <1>3, PTL DEF DeskSpec, Spec
<1>5. QED
  BY <1>1, <1>4, DeskInvariance, FinishedForever, PTL
=============================================================================
