---------------------------- MODULE MCOrderDesk ----------------------------
(***************************************************************************)
(* The three desks beside an order's life: its delivery requests, its      *)
(* expense links and its carrier.  They meet in the order's status alone;  *)
(* a step of one that leaves the status is a stuttering step of the others.*)
(* So each is explored with the other two at rest, and `open' says which:  *)
(* the behaviours of this module are those of the three, side by side.     *)
(***************************************************************************)
EXTENDS ReinvoiceLinks

CONSTANTS
    Lines, Quantities, MaxRequests,
    Names, PoolSize, MaxRows, NoName, Keep

VARIABLES
    open,
    quantity, delivered, outbox, dispatched, handled, heard,
    requestPc, requestAsked, record,
    decorated, rows, carrier, carrierPc, carrierAsked, raced

Requests == INSTANCE DeliveryOutbox WITH pc <- requestPc, asked <- requestAsked
Carriers == INSTANCE CarrierRegistry WITH pc <- carrierPc, asked <- carrierAsked

ASSUME DeskAssumption ==
    /\ Requests!OutboxAssumption
    /\ ReinvoiceAssumption
    /\ Carriers!RegistryAssumption

requestVars == <<quantity, delivered, outbox, dispatched, handled, heard,
                 requestPc, requestAsked, record>>
reinvoiceVars == <<links, calls, billing, mishaps>>
carrierVars == <<decorated, rows, carrier, carrierPc, carrierAsked, raced>>
deskVars == <<open, status, requestVars, reinvoiceVars, carrierVars>>

DeskInit ==
    /\ open \in {"requests", "reinvoice", "carriers"}
    /\ Requests!Init /\ Init /\ Carriers!Init

RequestStep ==
    /\ open = "requests"
    /\ Requests!Next
    /\ UNCHANGED <<open, reinvoiceVars, carrierVars>>

ReinvoiceStep ==
    /\ open = "reinvoice"
    /\ Next
    /\ UNCHANGED <<open, requestVars, carrierVars>>

CarrierStep ==
    /\ open = "carriers"
    /\ Carriers!Next
    /\ UNCHANGED <<open, requestVars, reinvoiceVars>>

DeskNext == RequestStep \/ ReinvoiceStep \/ CarrierStep

DeskSpec == DeskInit /\ [][DeskNext]_deskVars /\ Requests!Fairness /\ Carriers!Fairness

-----------------------------------------------------------------------------
(* The desks' properties, under the names their modules give them.         *)

\* The types of all three.
DeskTypeOK == Requests!TypeOK /\ TypeOK /\ Carriers!TypeOK

\* A request that was announced or staged reaches the consumer, whoever dies.
AnnouncedIsHandled == Requests!AnnouncedIsHandled

\* The relayed outbox implements requests that are handled exactly once.
ImplementsRequests == Requests!ImplementsRequests

\* Live rows of a kind have names of their own, as far as the code can see to it.
NamesUnique == Carriers!NamesUnique

\* Callers that wait for each other's connections get out by the timeout.
CallsReturn == Carriers!CallsReturn
=============================================================================
