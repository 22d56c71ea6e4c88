------------------------------ MODULE Pricing ------------------------------
(***************************************************************************)
(* The money rules of quotations and orders.  What a caller asks is in     *)
(* mills, what the NUMERIC(18,2) columns hold is in cents: a mill is the   *)
(* finest step the columns cannot keep.  Quantities are whole.             *)
(***************************************************************************)
EXTENDS Integers, FiniteSets, Functions

CONSTANTS
    NoCost   \* sales_order_items.unit_cost NULL

\* Two decimals, midpoint away from zero; so round the columns, too.
Money(mills) ==
    IF mills >= 0 THEN (mills + 5) \div 10 ELSE -((5 - mills) \div 10)

Mills(cents) == 10 * cents

Fine(mills) == mills % 10 # 0

-----------------------------------------------------------------------------
(* What a caller asks for a line, and what the cart pricer answers: a net  *)
(* that the discounts have brought down from the gross.                    *)

NewLine == [quantity : Nat, price : Nat, discount : Nat,
            policy : {"unset", "order", "delivery"}]

PricedCartLine == {line \in [quantity : Nat, price : Nat, net : Nat] :
                      line.net <= line.quantity * line.price}

-----------------------------------------------------------------------------
(* price_document.                                                         *)

Gross(offer) == Money(offer.quantity * offer.price)

Amount(offer) == Gross(offer) - Money(offer.discount)

\* NegativeQuantity otherwise.
Priceable(offer) == Amount(offer) >= 0

\* The row as it is stored: the amount comes from the price as asked, the price
\* column keeps its cents.
PricedRow(offer) ==
    [quantity |-> offer.quantity,
     price    |-> Money(offer.price),
     discount |-> Money(offer.discount),
     amount   |-> Amount(offer),
     policy   |-> IF offer.policy = "unset" THEN "order" ELSE offer.policy,
     cost     |-> NoCost]

\* What a stored row asks when it is priced again.
AsOffer(row) ==
    [quantity |-> row.quantity, price |-> Mills(row.price),
     discount |-> Mills(row.discount), policy |-> row.policy]

SumOf(amounts) == FoldFunction(LAMBDA a, b : a + b, 0, amounts)

Amounts(rows) == [l \in DOMAIN rows |-> rows[l].amount]

Subtotal(rows) == SumOf(Amounts(rows))

Tax(subtotal, rate) == (subtotal * rate + 50) \div 100

Totals(rows, rate) ==
    [subtotal |-> Subtotal(rows),
     tax      |-> Tax(Subtotal(rows), rate),
     total    |-> Subtotal(rows) + Tax(Subtotal(rows), rate)]

-----------------------------------------------------------------------------
(* The cart pricer's answer, mapped back to a price and a discount.        *)

\* Wrong on purpose: the pricer's net is taken for one of a unit.
CartOfferPerUnit(line) ==
    [quantity |-> line.quantity, price |-> line.price, policy |-> "unset",
     discount |-> IF line.price > line.net THEN line.price - line.net ELSE 0]

\* A net above the gross leaves no discount: the line keeps the gross.
CartOffer(line) ==
    LET gross == Mills(Money(line.quantity * line.price))
    IN  [quantity |-> line.quantity, price |-> line.price, policy |-> "unset",
         discount |-> IF gross > line.net THEN gross - line.net ELSE 0]

RewardOffer(quantity) ==
    [quantity |-> quantity, price |-> 0, discount |-> 0, policy |-> "unset"]

-----------------------------------------------------------------------------
(* The margin, in mills until it is shown.                                 *)

Costed(rows) == {l \in DOMAIN rows : rows[l].cost # NoCost}

LineMargin(row) == Mills(row.amount) - row.cost * row.quantity

\* The sum of what the lines show, and what the order shows.
ShownByLines(rows) == SumOf([l \in Costed(rows) |-> Money(LineMargin(rows[l]))])

ShownByRollup(rows) == Money(SumOf([l \in Costed(rows) |-> LineMargin(rows[l])]))
=============================================================================
