-------------------------- MODULE DeliveryRequests --------------------------
(***************************************************************************)
(* What a confirmed order's delivery requests promise the inventory side:  *)
(* every request that was made is handled, once, whatever became of the    *)
(* call that made it; and it asks, line by line, for at least what is still*)
(* to deliver and at most what was ordered.  DeliveryOutbox implements it. *)
(***************************************************************************)
EXTENDS Naturals, Sequences, SequencesExt

CONSTANTS
    Lines,
    Quantities   \* ordered quantities

VARIABLES status, quantity, delivered, requests, handled

vars == <<status, quantity, delivered, requests, handled>>

Init ==
    /\ status = "draft"
    /\ quantity \in [Lines -> Quantities]
    /\ delivered = [l \in Lines |-> 0]
    /\ requests = <<>>
    /\ handled = <<>>

Edit ==
    /\ status = "draft"
    /\ quantity' \in [Lines -> Quantities]
    /\ UNCHANGED <<status, delivered, requests, handled>>

Move ==
    /\ status' \notin {"draft", status}
    /\ UNCHANGED <<quantity, delivered, requests, handled>>

Deliver ==
    /\ \E l \in Lines : \E q \in 1..(quantity[l] - delivered[l]) :
          delivered' = [delivered EXCEPT ![l] = @ + q]
    /\ UNCHANGED <<status, quantity, requests, handled>>

\* A request covers everything left to deliver and nothing that was not ordered.
Covers(request) ==
    \A l \in Lines : quantity[l] - delivered[l] <= request[l] /\ request[l] <= quantity[l]

Request ==
    /\ status # "draft"
    /\ \E request \in [Lines -> UNION {0..quantity[l] : l \in Lines}] :
          Covers(request) /\ requests' = Append(requests, request)
    /\ UNCHANGED <<status, quantity, delivered, handled>>

Handle(r) ==
    /\ r \in DOMAIN requests
    /\ ~Contains(handled, r)
    /\ handled' = Append(handled, r)
    /\ UNCHANGED <<status, quantity, delivered, requests>>

Next == Edit \/ Move \/ Deliver \/ Request \/ \E r \in DOMAIN requests : Handle(r)

Spec == Init /\ [][Next]_vars
=============================================================================
