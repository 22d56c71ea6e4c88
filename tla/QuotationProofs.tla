--------------------------- MODULE QuotationProofs ---------------------------
(***************************************************************************)
(* Proofs about Quotation, for any callers and order numbers, withdrawals, *)
(* racing conversions and crashes included.                                *)
(*                                                                         *)
(* That an ordered quotation has an order is not inductive: the mark only  *)
(* looks at the status.  What carries it is that a call which stands       *)
(* before its mark has created its order (MarksFollowOrders), and that no  *)
(* order is ever taken away.  Where nothing disturbs the conversion, more  *)
(* is needed (Undisturbed): an order not yet marked has a call that is     *)
(* about to mark it, and an acceptance not yet announced one that is about *)
(* to announce it.                                                         *)
(***************************************************************************)
EXTENDS Quotation, TLAPS

MarksFollowOrders == \A c \in Callers : pc[c] = "mark" => orders # {}

\* A call carries what its next step needs: an event to publish, a number to use.
CallsCarry ==
    \A c \in Callers :
        /\ pc[c] = "publish" => event[c] \in Events
        /\ pc[c] = "create" => number[c] \in Numbers

QuotationInv == TypeOK /\ CallsCarry /\ MarksFollowOrders /\ OrderedHasOrder

-----------------------------------------------------------------------------
\* A freshly created quotation is well typed and has no order.
LEMMA InitInv == Init => QuotationInv
BY DEF Init, QuotationInv, TypeOK, CallsCarry, Statuses, MarksFollowOrders, OrderedHasOrder

\* Ending a call keeps the types of the callers' state.
LEMMA ReturnTypes ==
  ASSUME TypeOK, NEW c \in Callers, Return(c)
  PROVE  /\ pc' \in [Callers -> {"idle", "publish", "create", "mark"}]
         /\ number' \in [Callers -> Numbers \cup {NoNumber}]
         /\ event' \in [Callers -> Events \cup {NoEvent}]
         /\ \A d \in Callers : pc'[d] # "idle" => /\ pc'[d] = pc[d]
                                                 /\ number'[d] = number[d]
                                                 /\ event'[d] = event[d]
BY DEF TypeOK, Return

\* A verb of the machine keeps the types, creates no order and never shows
\* `ordered'.
LEMMA FlipKeeps ==
  ASSUME QuotationInv, NEW c \in Callers, NEW from, NEW e \in Events, Flip(c, from, e),
         reasoned' \in BOOLEAN,
         disturbed' \in BOOLEAN
  PROVE  QuotationInv'
<1>1. Shows[e] \in Statuses \ {"ordered"}
  BY DEF Events, Shows, Statuses
<1>2. TypeOK'
  BY <1>1 DEF QuotationInv, TypeOK, Flip
<1>3. CallsCarry' /\ MarksFollowOrders'
  BY DEF QuotationInv, TypeOK, Flip, CallsCarry, MarksFollowOrders
<1>4. OrderedHasOrder'
  BY <1>1 DEF Flip, OrderedHasOrder
<1>5. QED
  BY <1>2, <1>3, <1>4 DEF QuotationInv

\* Every step of every verb and of the conversion keeps the invariant.
LEMMA InvStep == QuotationInv /\ [Next]_vars => QuotationInv'
<1> SUFFICES ASSUME QuotationInv, [Next]_vars PROVE QuotationInv'
  OBVIOUS
<1>0. TypeOK /\ CallsCarry /\ MarksFollowOrders /\ OrderedHasOrder
  BY DEF QuotationInv
<1>1. ASSUME NEW c \in Callers, Verb(c) PROVE QuotationInv'
  <2>1. \E e \in Events, from \in SUBSET Statuses : Flip(c, from, e)
    BY <1>1 DEF Verb, Send, Accept, Reject, Cancel, Redraft, Events, Shows, Statuses
  <2>2. reasoned' \in BOOLEAN
    BY <1>0, <1>1 DEF Verb, Send, Accept, Reject, Cancel, Redraft, TypeOK
  <2>3. disturbed' \in BOOLEAN
    BY <1>0, <1>1 DEF Verb, Send, Accept, Reject, Cancel, Redraft, TypeOK
  <2>4. QED
    BY <2>1, <2>2, <2>3, FlipKeeps
<1>2. ASSUME NEW c \in Callers, NEW n \in Numbers, BeginConvert(c, n) PROVE QuotationInv'
  BY <1>0, <1>2 DEF BeginConvert, QuotationInv, TypeOK, CallsCarry, MarksFollowOrders, OrderedHasOrder
<1>3. ASSUME NEW c \in Callers, CreateOrder(c) PROVE QuotationInv'
  <2>1. number[c] \in Numbers
    BY <1>0, <1>3 DEF CreateOrder, CallsCarry
  <2>2. QED
    BY <1>0, <1>3, <2>1
       DEF CreateOrder, QuotationInv, TypeOK, CallsCarry, MarksFollowOrders, OrderedHasOrder
<1>4. ASSUME NEW c \in Callers, Return(c),
             Publish(c) \/ RefuseNumber(c) \/ MarkRefused(c) \/ Fail(c)
      PROVE  QuotationInv'
  <2>1. UNCHANGED <<status, reasoned, orders, confirmed>>
    BY <1>4 DEF Publish, RefuseNumber, MarkRefused, Fail
  <2>2. heard' \in SUBSET Events /\ disturbed' \in BOOLEAN
    BY <1>0, <1>4 DEF Publish, RefuseNumber, MarkRefused, Fail, TypeOK, CallsCarry
  <2>3. QED
    BY <1>0, <1>4, <2>1, <2>2, ReturnTypes
       DEF QuotationInv, TypeOK, CallsCarry, MarksFollowOrders, OrderedHasOrder
<1>5. ASSUME NEW c \in Callers, MarkOrdered(c) PROVE QuotationInv'
  <2>1. orders # {} /\ orders' = orders
    BY <1>0, <1>5 DEF MarkOrdered, MarksFollowOrders
  <2>2. Return(c)
    BY <1>5 DEF MarkOrdered
  <2>3. QED
    BY <1>0, <1>5, <2>1, <2>2, ReturnTypes
       DEF MarkOrdered, QuotationInv, TypeOK, Statuses, CallsCarry, MarksFollowOrders, OrderedHasOrder
<1>6. ASSUME NEW n \in Numbers, ConfirmOrder(n) PROVE QuotationInv'
  BY <1>0, <1>6 DEF ConfirmOrder, QuotationInv, TypeOK, CallsCarry, MarksFollowOrders, OrderedHasOrder
<1>7. CASE UNCHANGED vars
  BY <1>0, <1>7 DEF vars, QuotationInv, TypeOK, CallsCarry, MarksFollowOrders, OrderedHasOrder
<1>8. ASSUME NEW c \in Callers, Publish(c) \/ RefuseNumber(c) \/ MarkRefused(c) \/ Fail(c)
      PROVE  Return(c)
  BY <1>8 DEF Publish, RefuseNumber, MarkRefused, Fail
<1>9. QED
  BY <1>1, <1>2, <1>3, <1>4, <1>5, <1>6, <1>7, <1>8 DEF Next, Continue

(* Type correctness, for any callers and order numbers.                    *)
THEOREM QuotationTypeCorrect == Spec => []TypeOK
<1>1. QuotationInv => TypeOK
  BY DEF QuotationInv
<1>2. QED
  BY InitInv, InvStep, <1>1, PTL DEF Spec

(* convert_quotation_to_order and mark_ordered: however many conversions    *)
(* race, are withdrawn under or die, an ordered quotation has an order.     *)
THEOREM OrderedIsBacked == Spec => []OrderedHasOrder
<1>1. QuotationInv => OrderedHasOrder
  BY DEF QuotationInv
<1>2. QED
  BY InitInv, InvStep, <1>1, PTL DEF Spec

-----------------------------------------------------------------------------
\* The reason goes with the states it explains.
LEMMA ReasonStep == ReasonFitsState /\ [Next]_vars => ReasonFitsState'
<1> SUFFICES ASSUME ReasonFitsState, [Next]_vars PROVE ReasonFitsState'
  OBVIOUS
<1>1. ASSUME NEW c \in Callers, Verb(c) PROVE ReasonFitsState'
  BY <1>1 DEF Verb, Send, Accept, Reject, Cancel, Redraft, Flip, Shows, ReasonFitsState
<1>2. ASSUME NEW c \in Callers, MarkOrdered(c) PROVE ReasonFitsState'
  BY <1>2 DEF MarkOrdered, ReasonFitsState
<1>3. CASE UNCHANGED <<status, reasoned>>
  BY <1>3 DEF ReasonFitsState
<1>4. QED
  BY <1>1, <1>2, <1>3
     DEF Next, Continue, BeginConvert, Publish, CreateOrder, RefuseNumber, MarkRefused,
         Fail, ConfirmOrder, vars

(* status_reason is cleared by the redraft and never written beside another  *)
(* state: no sequence of verbs, marks and crashes shows it in one.           *)
THEOREM ReasonsFit == Spec => []ReasonFitsState
<1>1. Init => ReasonFitsState
  BY DEF Init, ReasonFitsState
<1>2. QED
  BY <1>1, ReasonStep, PTL DEF Spec

-----------------------------------------------------------------------------
(* The conversion, where nothing disturbs it.                              *)

Converting(c) == pc[c] \in {"create", "mark"}

Undisturbed ==
    ~disturbed =>
        /\ orders # {} \/ (\E c \in Callers : Converting(c)) => status \in {"accepted", "ordered"}
        /\ orders # {} /\ status = "accepted" => \E c \in Callers : pc[c] = "mark"
        /\ status \in {"accepted", "ordered"} =>
              \/ "QuotationAccepted" \in heard
              \/ \E c \in Callers : pc[c] = "publish" /\ event[c] = "QuotationAccepted"

UndisturbedInv == QuotationInv /\ Undisturbed

\* A verb other than the cancel finds no conversion under way, for it starts before
\* the acceptance; the acceptance itself leaves its event to publish.
LEMMA UndisturbedVerb ==
  ASSUME UndisturbedInv, NEW c \in Callers, Verb(c)
  PROVE  Undisturbed'
<1> SUFFICES ASSUME ~disturbed' PROVE Undisturbed'
  BY DEF Undisturbed
<1>1. ~disturbed /\ ~Cancel(c)
  BY DEF Verb, Send, Accept, Reject, Cancel, Redraft
<1>2. TypeOK /\ Undisturbed
  BY DEF UndisturbedInv, QuotationInv
<1>3. status \notin {"accepted", "ordered"}
  BY <1>1 DEF Verb, Send, Accept, Reject, Redraft, Flip
<1>4. orders = {} /\ \A d \in Callers : ~Converting(d)
  BY <1>1, <1>2, <1>3 DEF Undisturbed
<1>5. orders' = {} /\ pc' = [pc EXCEPT ![c] = "publish"]
  BY <1>1, <1>4 DEF Verb, Send, Accept, Reject, Redraft, Flip
<1>6. \A d \in Callers : ~Converting(d)'
  BY <1>2, <1>4, <1>5 DEF TypeOK, Converting
<1>7. ASSUME status' \in {"accepted", "ordered"}
      PROVE  pc'[c] = "publish" /\ event'[c] = "QuotationAccepted"
  <2>1. Accept(c)
    BY <1>1, <1>7 DEF Verb, Send, Accept, Reject, Redraft, Flip, Shows
  <2>2. QED
    BY <1>2, <2>1 DEF Accept, Flip, TypeOK
<1>8. QED
  BY <1>5, <1>6, <1>7 DEF Undisturbed

\* A step of a conversion, a publish or a confirm keeps it too.
LEMMA UndisturbedContinue ==
  ASSUME UndisturbedInv, NEW c \in Callers,
         Continue(c) \/ \E n \in Numbers : BeginConvert(c, n)
  PROVE  Undisturbed'
<1> SUFFICES ASSUME ~disturbed' PROVE Undisturbed'
  BY DEF Undisturbed
<1>1. ~disturbed
  BY DEF Continue, Publish, CreateOrder, RefuseNumber, MarkOrdered, MarkRefused, BeginConvert
<1>2. TypeOK /\ Undisturbed /\ MarksFollowOrders
  BY DEF UndisturbedInv, QuotationInv
<1>3. ASSUME NEW n \in Numbers, BeginConvert(c, n) PROVE Undisturbed'
  BY <1>1, <1>2, <1>3 DEF BeginConvert, Undisturbed, Converting, TypeOK
<1>4. CASE Publish(c)
  BY <1>1, <1>2, <1>4 DEF Publish, Return, Undisturbed, Converting, TypeOK
<1>5. CASE CreateOrder(c)
  BY <1>1, <1>2, <1>5 DEF CreateOrder, Undisturbed, Converting, TypeOK
<1>6. CASE RefuseNumber(c)
  BY <1>1, <1>2, <1>6 DEF RefuseNumber, Return, Undisturbed, Converting, TypeOK
<1>7. CASE MarkOrdered(c)
  BY <1>1, <1>2, <1>7 DEF MarkOrdered, Return, Undisturbed, Converting, TypeOK
<1>8. CASE MarkRefused(c)
  <2>1. status \in {"accepted", "ordered"}
    BY <1>1, <1>2, <1>8 DEF MarkRefused, Undisturbed, Converting
  <2>2. QED
    BY <1>8, <2>1 DEF MarkRefused
<1>9. QED
  BY <1>3, <1>4, <1>5, <1>6, <1>7, <1>8 DEF Continue

LEMMA UndisturbedStep == UndisturbedInv /\ [Next]_vars => UndisturbedInv'
<1> SUFFICES ASSUME UndisturbedInv, [Next]_vars PROVE UndisturbedInv'
  OBVIOUS
<1>1. QuotationInv'
  BY InvStep DEF UndisturbedInv
<1>2. ASSUME NEW c \in Callers, Fail(c) PROVE Undisturbed'
  BY <1>2 DEF Fail, Undisturbed
<1>3. ASSUME NEW n \in Numbers, ConfirmOrder(n) PROVE Undisturbed'
  BY <1>3 DEF ConfirmOrder, Undisturbed, UndisturbedInv, Converting
<1>4. ASSUME UNCHANGED vars PROVE Undisturbed'
  BY <1>4 DEF vars, Undisturbed, UndisturbedInv, Converting
<1>5. Undisturbed'
  BY <1>2, <1>3, <1>4, UndisturbedVerb, UndisturbedContinue DEF Next
<1>6. QED
  BY <1>1, <1>5 DEF UndisturbedInv

LEMMA UndisturbedInit == Init => UndisturbedInv
BY InitInv DEF Init, UndisturbedInv, Undisturbed, Converting

(* convert_quotation_to_order is three steps: where nobody withdraws the     *)
(* quotation and no call dies, any number of racing conversions look to      *)
(* whoever reads with no call in flight like one.                            *)
THEOREM ConversionsLookAtomic == Spec => []ConvertedTogether
<1>1. UndisturbedInv => ConvertedTogether
  <2> SUFFICES ASSUME UndisturbedInv, Quiet, ~disturbed
               PROVE  orders # {} <=> status = "ordered"
    BY DEF ConvertedTogether
  <2>1. \A c \in Callers : pc[c] # "mark"
    BY DEF Quiet
  <2>2. QED
    BY <2>1 DEF UndisturbedInv, Undisturbed, QuotationInv, OrderedHasOrder
<1>2. QED
  BY UndisturbedInit, UndisturbedStep, <1>1, PTL DEF Spec

(* accept_quotation publishes after its flip: under the same conditions, an  *)
(* order's quotation has been announced as accepted when no call is running. *)
THEOREM AcceptancesAreAnnounced == Spec => []AcceptanceAnnounced
<1>1. UndisturbedInv => AcceptanceAnnounced
  BY DEF AcceptanceAnnounced, UndisturbedInv, Undisturbed, Quiet
<1>2. QED
  BY UndisturbedInit, UndisturbedStep, <1>1, PTL DEF Spec

-----------------------------------------------------------------------------
(* The guarded verbs and the unguarded mark: no step of any call, however   *)
(* late, takes a quotation out of `ordered'.                                *)
THEOREM OrderedIsFinal == Spec => OneWayDoor
<1> DEFINE Stays == status = "ordered" => status' = "ordered"
<1>1. [Next]_vars => [Stays]_vars
  <2> SUFFICES ASSUME Next, status = "ordered" PROVE status' = "ordered"
    OBVIOUS
  <2>1. ASSUME NEW c \in Callers PROVE ~Verb(c)
    BY DEF Verb, Send, Accept, Reject, Cancel, Redraft, Flip
  <2>2. QED
    BY <2>1 DEF Next, Continue, BeginConvert, Publish, CreateOrder, RefuseNumber,
                MarkOrdered, MarkRefused, Fail, ConfirmOrder
<1>2. QED
  BY <1>1, PTL DEF Spec, OneWayDoor
=============================================================================
