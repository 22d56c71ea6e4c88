-------------------------- MODULE MCDocumentTotals --------------------------
(***************************************************************************)
(* Small instances of DocumentTotals for TLC.                              *)
(***************************************************************************)
EXTENDS DocumentTotals, TLC

CONSTANTS c1, c2, v1, k1, k2

Offer(quantity, price, discount, policy) ==
    [quantity |-> quantity, price |-> price, discount |-> discount, policy |-> policy]

\* 0.505 and the discount 0.015 are finer than a cent.
SomeOffers == {Offer(2, 1250, 300, "unset"), Offer(1, 505, 15, "delivery")}

\* The pricer leaves a cent of 3 x 0.335, a rule's price with three decimals.
SomeCartLines == {[quantity |-> 3, price |-> 335, net |-> 1000],
                  [quantity |-> 1, price |-> 335, net |-> 335]}

Patch(quantity, price, discount) ==
    [quantity |-> quantity, price |-> price, discount |-> discount]

\* One figure at a time, a price with three decimals, a discount that is refused,
\* and an edit of the item alone.
SomePatches == {Patch(3, Keep, Keep), Patch(Keep, 755, Keep), Patch(Keep, Keep, 125),
                Patch(Keep, Keep, 9000), Patch(Keep, Keep, Keep)}
=============================================================================
