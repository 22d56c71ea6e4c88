---------------------------- MODULE MCFrontDesk ----------------------------
(***************************************************************************)
(* What a client of the HTTP surface meets: the verbs of the guarded       *)
(* routes, and a row of the unguarded generic CRUD.  The two share nothing *)
(* here; `open' says which one is explored.                                *)
(***************************************************************************)
EXTENDS GenericRows, FiniteSets

CONSTANTS
    Clients, Numbers, Unknown, NoCode, MayFail

VARIABLES
    open,
    quotation, orders, billed, told, at, call, id, did, reply, promised, owed, lost

AllFields == UNION {{k} \X (Fields(Schema[k]) \ {"status"}) : k \in Kinds}

\* What the code knows of a field; fields alike in this are alike.
Sort(w) ==
    <<IF w[1] \in Machines THEN w[1] ELSE "none",
      w[2] \in Guarded(RowRules[w[1]]),
      w[2] \in Schema[w[1]].optional,
      w[2] \in Unvalidated[w[1]]>>

\* One field of each sort.
OfEachSort ==
    {CHOOSE w \in AllFields : Sort(w) = s : s \in {Sort(w) : w \in AllFields}}

Verbs == INSTANCE Surface

ASSUME FrontDeskAssumption == RowsAssumption /\ Verbs!SurfaceAssumption

verbVars == <<quotation, orders, billed, told, at, call, id, did, reply, promised,
              owed, lost>>
deskVars == <<open, verbVars, vars>>

DeskInit ==
    /\ open \in {"verbs", "rows"}
    /\ Verbs!Init
    /\ Init
    /\ open = "verbs" => /\ <<kind, field>> = CHOOSE w \in Watched : TRUE
                         /\ life = "absent" /\ value \in Fine
                         /\ ~checked /\ ~writesState

VerbStep == open = "verbs" /\ Verbs!Next /\ UNCHANGED <<open, vars>>

RowStep == open = "rows" /\ Next /\ UNCHANGED <<open, verbVars>>

DeskNext == VerbStep \/ RowStep

DeskSpec == DeskInit /\ [][DeskNext]_deskVars /\ Verbs!Fairness

-----------------------------------------------------------------------------
(* The verbs' properties, under the names their module gives them.         *)

\* The types of both.
DeskTypeOK ==
    \/ open = "verbs" /\ Verbs!TypeOK
    \/ open = "rows" /\ TypeOK

\* What an answer says was true, and was committed or not as it says.
AnswersTellTheTruth == Verbs!AnswersTellTheTruth

\* A refusal that names a final state still holds when it is read.
RefusalsStand == Verbs!RefusalsStand

\* What an ok stands for is not taken back.
PromisesStand == Verbs!PromisesStand

\* A cancel whose log failed is told to the stock side in the end.
CancelledIsTold == Verbs!CancelledIsTold
=============================================================================
