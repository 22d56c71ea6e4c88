---------------------------- MODULE MCDocuments ----------------------------
(***************************************************************************)
(* The two documents and their clients: a quotation up to the order it is  *)
(* converted to, and an order around its ports up to its confirm or cancel.*)
(* No statement of one reads or writes the other's rows, so each is        *)
(* explored with the other as it was created; `open' says which.           *)
(***************************************************************************)
EXTENDS OrderConfirm

CONSTANTS Numbers, NoNumber

VARIABLES
    open,
    quotation, reasoned, orders, confirmed, announced,
    quotationPc, number, event, withdrawn

Quotes == INSTANCE Quotation
          WITH status <- quotation, heard <- announced, pc <- quotationPc,
               disturbed <- withdrawn

ASSUME DocumentsAssumption == Quotes!QuotationAssumption

quotationVars == <<quotation, reasoned, orders, confirmed, announced,
                   quotationPc, number, event, withdrawn>>
documentVars == <<open, quotationVars, vars>>

DocumentsInit ==
    /\ open \in {"quotation", "order"}
    /\ Quotes!Init
    /\ Init

QuotationStep == open = "quotation" /\ Quotes!Next /\ UNCHANGED <<open, vars>>

OrderStep == open = "order" /\ Next /\ UNCHANGED <<open, quotationVars>>

DocumentsNext == QuotationStep \/ OrderStep

DocumentsSpec == DocumentsInit /\ [][DocumentsNext]_documentVars /\ Quotes!Fairness

-----------------------------------------------------------------------------
(* The quotation's properties, under the names their module gives them.    *)

\* The types of both.
DocumentsTypeOK == Quotes!TypeOK /\ TypeOK

\* A quotation is ordered only once there is an order.
OrderedHasOrder == Quotes!OrderedHasOrder

\* Only a rejected or cancelled quotation has a reason.
ReasonFitsState == Quotes!ReasonFitsState

\* Undisturbed conversions look like one step to whoever reads between calls.
ConvertedTogether == Quotes!ConvertedTogether

\* An undisturbed conversion that has made its order ends with the quotation ordered.
ConvertedIsOrdered == Quotes!ConvertedIsOrdered

\* Whoever counts on events has heard of the acceptance behind an order.
AcceptanceAnnounced == Quotes!AcceptanceAnnounced
=============================================================================
