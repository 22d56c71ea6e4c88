---------------------------- MODULE GenericRows ----------------------------
(***************************************************************************)
(* One row of a generated entity under the unguarded generic CRUD surface  *)
(* (all_crud_routes), beside the verbs of SellingWriteService.             *)
(*                                                                         *)
(* backbone's GenericCrudService reads the row, applies the body to it in  *)
(* memory, has RowRules compare the two, and stores the whole row; nothing *)
(* holds the row between the read and the store.  The rules look only at   *)
(* the fields that changed against that read; the table's CHECK, where the *)
(* migration could add it, and the transition trigger see every store.     *)
(*                                                                         *)
(* Rules and CHECKs are per field: one field stands for all, whichever.    *)
(***************************************************************************)
EXTENDS Entities

CONSTANTS
    Callers,
    Watched,    \* pairs of a kind and one of its fields, but the state's
    Fine,       \* values that keep the field's rules
    Broken,     \* values that break one, of a guarded field
    Null, Unreadable

VARIABLES
    kind, field,    \* of which entity, and the field under observation
    checked,        \* does the table have the field's CHECKs?
    writesState,    \* does the framework's UPDATE write the state column too?
    life,           \* "absent", "live" or "trashed"
    value,          \* of the field
    status,         \* of the state machine; "draft" throughout for the other kinds
    seen,           \* per caller, the <<value, status>> its update read, or <<>>
    old             \* history: broken values no rule was asked about

RowsAssumption ==
    /\ \A w \in Watched :
          \E k \in Kinds : \E f \in Fields(Schema[k]) \ {"status"} : w = <<k, f>>
    \* What has been read can be PUT back, and what is PUT, stored.
    /\ \A k \in Kinds : Bodies[k].put \subseteq Shown[k] /\ Shown[k] = Fields(Schema[k])

row == <<life, value, status>>
vars == <<kind, field, checked, writesState, life, value, status, seen, old>>

Values == Fine \cup Broken \cup {Null}

Optional == field \in Schema[kind].optional
HasRule == field \in Guarded(RowRules[kind])
Breaks(v) == HasRule /\ v \in Broken

\* What the column's type holds: NULL is no value of a required or defaulted one.
Column == (Fine \cup Broken) \cup {v \in {Null} : Optional}

-----------------------------------------------------------------------------
(* The state machines and the verbs.                                       *)

QuotationMoves ==
    {<<"accepted", "cancelled">>, <<"accepted", "ordered">>, <<"cancelled", "draft">>,
     <<"draft", "accepted">>, <<"draft", "cancelled">>, <<"draft", "sent">>,
     <<"rejected", "draft">>, <<"sent", "accepted">>, <<"sent", "cancelled">>,
     <<"sent", "draft">>, <<"sent", "rejected">>}

OrderMoves ==
    {<<"draft", "cancelled">>, <<"draft", "to_deliver_and_bill">>,
     <<"to_bill", "cancelled">>, <<"to_bill", "closed">>, <<"to_bill", "completed">>,
     <<"to_bill", "to_deliver">>, <<"to_bill", "to_deliver_and_bill">>,
     <<"to_deliver", "cancelled">>, <<"to_deliver", "completed">>,
     <<"to_deliver", "to_bill">>, <<"to_deliver", "to_deliver_and_bill">>,
     <<"to_deliver_and_bill", "cancelled">>, <<"to_deliver_and_bill", "completed">>,
     <<"to_deliver_and_bill", "to_bill">>, <<"to_deliver_and_bill", "to_deliver">>}

Moves ==
    CASE kind = "quotation" -> QuotationMoves
      [] kind = "sales_order" -> OrderMoves
      [] OTHER -> {}

States == {"draft"} \cup {m[1] : m \in Moves} \cup {m[2] : m \in Moves}

\* Wrong on purpose: the rule on the state field is enough.
TriggerAllowsAll(from, to) == TRUE

\* The trigger on the state column: only its declared moves, and no move at all.
TriggerAllows(from, to) == from = to \/ <<from, to>> \in Moves

-----------------------------------------------------------------------------
TypeOK ==
    /\ <<kind, field>> \in Watched
    /\ checked \in BOOLEAN /\ writesState \in BOOLEAN
    /\ life \in {"absent", "live", "trashed"}
    /\ value \in Column
    /\ status \in States
    /\ seen \in [Callers -> {<<>>} \cup (Column \X States)]
    /\ old \in SUBSET Broken

\* The row may be older than the rules; the CHECKs were added unless it broke them.
Init ==
    /\ \E w \in Watched : kind = w[1] /\ field = w[2]
    /\ writesState \in BOOLEAN
    /\ life \in {"absent", "live"}
    /\ value \in Column
    /\ status = "draft"
    /\ checked \in IF life = "live" /\ Breaks(value) THEN {FALSE} ELSE BOOLEAN
    /\ seen = [c \in Callers |-> <<>>]
    /\ old = Broken \cap {value}

-----------------------------------------------------------------------------
(* The guard of the generic service.                                       *)

\* Wrong on purpose: a created row is compared with itself.
RefusedCreatesUnchecked(v) == FALSE

\* RowRules at a creation: every rule, whatever the body left out.
RefusedAtCreate(v) == Breaks(v)

\* RowRules at an update: the rules of a field that changed, and the state's.
RefusedAtUpdate(before, v, s) ==
    \/ v # before[1] /\ Breaks(v)
    \/ kind \in Machines /\ s # before[2]

\* The table's own word on a whole row.
Stores(v, s) == (checked => ~Breaks(v)) /\ TriggerAllows(status, s)

-----------------------------------------------------------------------------
\* POST: a required field is there, the others may be left out; the state is draft.
Create(v) ==
    /\ life = "absent"
    /\ v \in Column
    /\ field \in Bodies[kind].post
    /\ ~RefusedAtCreate(v)
    /\ checked => ~Breaks(v)
    /\ life' = "live" /\ value' = v /\ status' = "draft"
    /\ UNCHANGED <<kind, field, checked, writesState, seen, old>>

\* PUT or PATCH begins: the stored row, as it is now.
Read(c) ==
    /\ life = "live" /\ seen[c] = <<>>
    /\ seen' = [seen EXCEPT ![c] = <<value, status>>]
    /\ UNCHANGED <<kind, field, checked, writesState, row, old>>

\* Wrong on purpose: what PUT leaves out becomes NULL, whatever the field.
PutResultNulling(given) == {given}

\* What PUT makes of the row read: every field as the body has it, NULL for one
\* that may be left out and was.
PutResult(given) ==
    IF given = Null /\ field \in Bodies[kind].put THEN {} ELSE {given}

\* What PATCH makes of it: a value that does not parse is left out without a word.
PatchResult(before, given) ==
    IF field \notin PatchKeys[kind] \/ given = Unreadable \/ given \notin Column
    THEN before[1] ELSE given

\* The whole row is stored over whatever is there by now.  Whether the statement
\* finds a row that was trashed meanwhile is the framework's affair.
Store(c, v, s) ==
    /\ ~RefusedAtUpdate(seen[c], v, s)
    /\ life # "absent"
    /\ LET stored == IF writesState THEN s ELSE status IN
          /\ Stores(v, stored)
          /\ status' = stored
    /\ value' = v
    /\ life' \in {life, "live"}
    /\ seen' = [seen EXCEPT ![c] = <<>>]
    /\ UNCHANGED <<kind, field, checked, writesState, old>>

\* The state in a PUT's body is the one its client knew, or has just read.
Put(c) ==
    /\ seen[c] # <<>>
    /\ \E given \in Values, s \in {seen[c][2], status} :
          \E v \in PutResult(given) : Store(c, v, s)

Patch(c) ==
    /\ seen[c] # <<>>
    /\ \E given \in Column \cup {Unreadable} :
          Store(c, PatchResult(seen[c], given), seen[c][2])

\* Refused, not found, or the statement failed: nothing is stored.
GiveUp(c) ==
    /\ seen[c] # <<>>
    /\ seen' = [seen EXCEPT ![c] = <<>>]
    /\ UNCHANGED <<kind, field, checked, writesState, row, old>>

Trash ==
    /\ life = "live"
    /\ life' = "trashed"
    /\ UNCHANGED <<kind, field, checked, writesState, value, status, seen, old>>

Restore ==
    /\ life = "trashed"
    /\ life' = "live"
    /\ UNCHANGED <<kind, field, checked, writesState, value, status, seen, old>>

\* Removed from the trash; an update still under way finds nothing to store over.
Purge ==
    /\ life = "trashed"
    /\ life' = "absent"
    /\ old' = {}
    /\ seen' = [c \in Callers |-> <<>>]
    /\ UNCHANGED <<kind, field, checked, writesState, value, status>>

\* A verb: one declared move, or a field stored as it came.
MoveByVerb(from, to) ==
    /\ life = "live"
    /\ status = from
    /\ status' = to
    /\ UNCHANGED <<kind, field, checked, writesState, life, value, seen, old>>

WriteByVerb(v) ==
    /\ life = "live"
    /\ field \in Unvalidated[kind]
    /\ v \in Column
    /\ checked => ~Breaks(v)
    /\ value' = v
    /\ old' = old \cup ({v} \cap Broken)
    /\ UNCHANGED <<kind, field, checked, writesState, life, status, seen>>

Next ==
    \/ \E v \in Values : Create(v) \/ WriteByVerb(v)
    \/ \E c \in Callers : Read(c) \/ Put(c) \/ Patch(c) \/ GiveUp(c)
    \/ Trash \/ Restore \/ Purge
    \/ \E m \in Moves : MoveByVerb(m[1], m[2])

Spec == Init /\ [][Next]_vars

-----------------------------------------------------------------------------
(* Properties.                                                             *)

\* The rules see only what changed against a read that may be out of date.  A break
\* in a stored row is nevertheless one from before the rules or of a verb's making:
\* a late store can bring it back after it was healed, and adds none of its own.
BreaksAreOld ==
    life # "absent" /\ Breaks(value) => value \in old

\* No verb leads out of s.
Finished(s) == \A m \in Moves : m[1] # s

\* An ordered quotation, a cancelled, completed or closed order stays what it is,
\* though an update that read the row long before may still store all of it.
FinishedStays ==
    [][life # "absent" /\ life' # "absent" /\ Finished(status) => status' = status]_vars
=============================================================================
