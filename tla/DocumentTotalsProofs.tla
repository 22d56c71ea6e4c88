------------------------ MODULE DocumentTotalsProofs ------------------------
(***************************************************************************)
(* Proofs about DocumentTotals, for every number of lines, of edits and of *)
(* views in flight, every offer and every tax rate.                        *)
(*                                                                         *)
(* That a header is what its lines come to needs no look into SumOf: both  *)
(* are the same sum of the same amounts.  What a cart, the two margins and *)
(* the types say of a sum does, so the sums come first.                    *)
(***************************************************************************)
EXTENDS DocumentTotals, FiniteSetTheorems, TLAPS

-----------------------------------------------------------------------------
(* Sums.  FoldFunction is a recursive function on the subsets of a domain; *)
(* that there is one is a matter of smallest counterexamples (SmallestSet),*)
(* and so is what it comes to.                                             *)

\* Of finitely many elements' subsets that go wrong, one has no smaller that does.
LEMMA SmallestSet ==
    ASSUME NEW D, IsFiniteSet(D), NEW wrong, wrong \subseteq SUBSET D, wrong # {}
    PROVE  \E s \in wrong : \A t \in SUBSET s : t # s => t \notin wrong
<1>1. FiniteSubsetsOf(D) = SUBSET D
  BY FS_FiniteSubsetsOfFinite
<1>2. IsWellFoundedOn(StrictSubsetOrdering(D), SUBSET D)
  BY <1>1, FS_StrictSubsetOrderingWellFounded
<1>3. PICK s \in wrong : \A t \in wrong : ~ (<<t, s>> \in StrictSubsetOrdering(D))
  BY <1>2, WFMin
<1>4. ASSUME NEW t \in SUBSET s, t # s
      PROVE  t \notin wrong
  <2>1. <<t, s>> \in StrictSubsetOrdering(D)
    BY <1>4 DEF StrictSubsetOrdering
  <2> QED
    BY <1>3, <2>1
<1> QED
  BY <1>4

First(s) == CHOOSE x \in s : TRUE

Rest(s) == s \ {First(s)}

\* What a step of the recursion makes of the sums so far.
Step(a, it, s) == IF s = {} THEN 0 ELSE a[First(s)] + it[Rest(s)]

\* The sums of a over the subsets of T.
AreSums(a, T, it) == it = [s \in SUBSET T |-> Step(a, it, s)]

LEMMA FirstIsIn ==
    ASSUME NEW s, s # {}
    PROVE  First(s) \in s /\ Rest(s) \subseteq s /\ Rest(s) # s
BY DEF First, Rest

\* There is one function at most.
LEMMA SumsAgree ==
    ASSUME NEW a, NEW T, IsFiniteSet(T), NEW g, AreSums(a, T, g), NEW h, AreSums(a, T, h)
    PROVE  g = h
<1> DEFINE wrong == {s \in SUBSET T : g[s] # h[s]}
<1>1. ASSUME wrong # {} PROVE FALSE
  <2>0. wrong \subseteq SUBSET T
    OBVIOUS
  <2>1. PICK s \in wrong : \A t \in SUBSET s : t # s => t \notin wrong
    <3> HIDE DEF wrong
    <3> QED
      BY <1>1, <2>0, SmallestSet
  <2>2. g[s] = Step(a, g, s) /\ h[s] = Step(a, h, s)
    BY DEF AreSums
  <2>3. s # {}
    BY <2>1, <2>2 DEF Step
  <2>4. Rest(s) \in SUBSET T /\ g[Rest(s)] = h[Rest(s)]
    BY <2>1, <2>3, FirstIsIn
  <2> QED
    BY <2>1, <2>2, <2>4 DEF Step
<1>2. DOMAIN g = SUBSET T /\ DOMAIN h = SUBSET T
      /\ g = [s \in SUBSET T |-> g[s]] /\ h = [s \in SUBSET T |-> h[s]]
  BY DEF AreSums
<1> QED
  BY <1>1, <1>2

\* The sums over T contain those over its subsets.
LEMMA SumsRestrict ==
    ASSUME NEW a, NEW T, NEW it, AreSums(a, T, it), NEW U \in SUBSET T
    PROVE  AreSums(a, U, [s \in SUBSET U |-> it[s]])
<1> DEFINE cut == [s \in SUBSET U |-> it[s]]
<1>1. ASSUME NEW s \in SUBSET U
      PROVE  cut[s] = Step(a, cut, s)
  <2>1. cut[s] = Step(a, it, s)
    BY DEF AreSums
  <2>2. s # {} => cut[Rest(s)] = it[Rest(s)]
    BY FirstIsIn
  <2> QED
    BY <2>1, <2>2 DEF Step
<1> QED
  BY <1>1 DEF AreSums

\* There is such a function.
LEMMA SumsExist ==
    ASSUME NEW a, NEW D, IsFiniteSet(D)
    PROVE  \E it : AreSums(a, D, it)
<1> DEFINE wrong == {T \in SUBSET D : ~ \E it : AreSums(a, T, it)}
<1>1. ASSUME NEW T \in SUBSET D,
             \A U \in SUBSET T : U # T => \E it : AreSums(a, U, it)
      PROVE  \E it : AreSums(a, T, it)
  <2> DEFINE sumsOf(U) == CHOOSE it : AreSums(a, U, it)
             \* the sum over U, by the sums over U alone
             G(U) == sumsOf(U)[U]
             it == [s \in SUBSET T |-> IF s = {} THEN 0 ELSE a[First(s)] + G(Rest(s))]
  <2>1. \A U \in SUBSET T : U # T => AreSums(a, U, sumsOf(U))
    BY <1>1
  <2>2. ASSUME NEW U \in SUBSET T, U # T
        PROVE  G(U) = IF U = {} THEN 0 ELSE a[First(U)] + G(Rest(U))
    <3> HIDE DEF sumsOf
    <3>1. AreSums(a, U, sumsOf(U)) /\ U \in SUBSET U
      BY <2>1, <2>2
    <3>2. G(U) = Step(a, sumsOf(U), U)
      BY <3>1 DEF AreSums
    <3>3. ASSUME U # {}
          PROVE  sumsOf(U)[Rest(U)] = G(Rest(U))
      <4>1. Rest(U) \in SUBSET U /\ Rest(U) \in SUBSET T /\ Rest(U) # T
        BY <2>2, <3>3, FirstIsIn
      <4>2. AreSums(a, Rest(U), [s \in SUBSET Rest(U) |-> sumsOf(U)[s]])
        BY <3>1, <4>1, SumsRestrict
      <4>3. AreSums(a, Rest(U), sumsOf(Rest(U)))
        BY <2>1, <4>1
      <4>4. IsFiniteSet(Rest(U))
        BY <4>1, FS_Subset
      <4>5. [s \in SUBSET Rest(U) |-> sumsOf(U)[s]] = sumsOf(Rest(U))
        BY <4>2, <4>3, <4>4, SumsAgree
      <4>6. [s \in SUBSET Rest(U) |-> sumsOf(U)[s]][Rest(U)] = sumsOf(U)[Rest(U)]
        OBVIOUS
      <4> QED
        BY <4>5, <4>6
    <3> QED
      BY <3>2, <3>3 DEF Step
  <2> HIDE DEF G
  <2>3. ASSUME NEW s \in SUBSET T
        PROVE  it[s] = Step(a, it, s)
    <3>1. s # {} => Rest(s) \in SUBSET T /\ Rest(s) # T
      BY FirstIsIn
    <3>2. s # {} => it[Rest(s)] = G(Rest(s))
      BY <2>2, <3>1
    <3> QED
      BY <3>2 DEF Step
  <2>4. AreSums(a, T, it)
    BY <2>3 DEF AreSums
  <2> QED
    BY <2>4
<1>2. ASSUME wrong # {} PROVE FALSE
  <2>0. wrong \subseteq SUBSET D
    OBVIOUS
  <2>1. PICK T \in wrong : \A U \in SUBSET T : U # T => U \notin wrong
    <3> HIDE DEF wrong
    <3> QED
      BY <1>2, <2>0, SmallestSet
  <2>2. \A U \in SUBSET T : U # T => \E it : AreSums(a, U, it)
    BY <2>1
  <2> QED
    BY <1>1, <2>1, <2>2
<1> QED
  BY <1>2

\* SumOf adds up, one by one and in an order that depends on the domain alone.
SumsOf(a) == CHOOSE it : AreSums(a, DOMAIN a, it)

LEMMA SumOfIsSum ==
    ASSUME NEW a, IsFiniteSet(DOMAIN a)
    PROVE  /\ SumOf(a) = SumsOf(a)[DOMAIN a]
           /\ SumsOf(a)[{}] = 0
           /\ \A s \in SUBSET DOMAIN a : s # {} =>
                 SumsOf(a)[s] = a[First(s)] + SumsOf(a)[Rest(s)]
<1>1. SumOf(a) = SumsOf(a)[DOMAIN a]
  BY DEF SumOf, FoldFunction, FoldFunctionOnSet, MapThenFoldSet, SumsOf, AreSums, Step,
         First, Rest
<1>2. AreSums(a, DOMAIN a, SumsOf(a))
  BY SumsExist DEF SumsOf
<1> QED
  BY <1>1, <1>2 DEF AreSums, Step

\* A sum of integers is one, and of naturals.
LEMMA SumTypes ==
    ASSUME NEW a, IsFiniteSet(DOMAIN a), NEW N \in {Nat, Int}, \A x \in DOMAIN a : a[x] \in N
    PROVE  SumOf(a) \in N
<1> DEFINE wrong == {s \in SUBSET DOMAIN a : SumsOf(a)[s] \notin N}
<1>1. ASSUME wrong # {} PROVE FALSE
  <2>0. wrong \subseteq SUBSET DOMAIN a
    OBVIOUS
  <2>1. PICK s \in wrong : \A t \in SUBSET s : t # s => t \notin wrong
    <3> HIDE DEF wrong
    <3> QED
      BY <1>1, <2>0, SmallestSet
  <2>2. s # {}
    <3>1. SumsOf(a)[{}] = 0
      BY SumOfIsSum
    <3>2. 0 \in N
      OBVIOUS
    <3>3. s # {} \/ SumsOf(a)[s] \in N
      BY <3>1, <3>2
    <3> QED
      BY <2>1, <3>3
  <2>3. /\ SumsOf(a)[s] = a[First(s)] + SumsOf(a)[Rest(s)]
        /\ a[First(s)] \in N /\ SumsOf(a)[Rest(s)] \in N
    BY <2>1, <2>2, SumOfIsSum, FirstIsIn
  <2> QED
    BY <2>1, <2>3
<1> QED
  BY <1>1, SumOfIsSum

\* Where each of b is within e of a tenth of a's, so is the sum, for each element.
LEMMA SumsWithin ==
    ASSUME NEW D, IsFiniteSet(D), NEW a \in [D -> Int], NEW b \in [D -> Int],
           NEW e \in {0, 5},
           \A x \in D : 10 * b[x] - a[x] <= e /\ a[x] - 10 * b[x] <= e
    PROVE  /\ 10 * SumOf(b) - SumOf(a) <= e * Cardinality(D)
           /\ SumOf(a) - 10 * SumOf(b) <= e * Cardinality(D)
<1> DEFINE A == SumsOf(a)
           B == SumsOf(b)
           near(s) == /\ A[s] \in Int /\ B[s] \in Int
                      /\ 10 * B[s] - A[s] <= e * Cardinality(s)
                      /\ A[s] - 10 * B[s] <= e * Cardinality(s)
           wrong == {s \in SUBSET D : ~ near(s)}
<1>0. DOMAIN a = D /\ DOMAIN b = D
  OBVIOUS
<1>1. ASSUME wrong # {} PROVE FALSE
  <2>0. wrong \subseteq SUBSET D
    OBVIOUS
  <2>1. PICK s \in wrong : \A t \in SUBSET s : t # s => t \notin wrong
    <3> HIDE DEF wrong
    <3> QED
      BY <1>1, <2>0, SmallestSet
  <2>2. s # {}
    <3>1. A[{}] = 0 /\ B[{}] = 0 /\ Cardinality({}) = 0
      BY <1>0, SumOfIsSum, FS_EmptySet
    <3>2. near({})
      BY <3>1
    <3> QED
      BY <2>1, <3>2
  <2>3. /\ A[s] = a[First(s)] + A[Rest(s)] /\ B[s] = b[First(s)] + B[Rest(s)]
        /\ First(s) \in s /\ First(s) \in D /\ Rest(s) \in SUBSET s /\ Rest(s) \in SUBSET D
    <3>1. s \in SUBSET D /\ First(s) \in s /\ Rest(s) \in SUBSET s
      BY <2>1, <2>2, FirstIsIn
    <3> QED
      BY <1>0, <2>2, <3>1, SumOfIsSum
  <2>4. near(Rest(s))
    BY <2>1, <2>2, <2>3, FirstIsIn
  <2>5. /\ Cardinality(s) \in Nat /\ Cardinality(Rest(s)) = Cardinality(s) - 1
    BY <2>1, <2>3, FS_Subset, FS_CardinalityType, FS_RemoveElement DEF Rest
  <2>6. a[First(s)] \in Int /\ b[First(s)] \in Int
        /\ 10 * b[First(s)] - a[First(s)] <= e /\ a[First(s)] - 10 * b[First(s)] <= e
    BY <2>3
  <2> HIDE DEF A, B
  <2>7. CASE e = 0
    BY <2>1, <2>3, <2>4, <2>5, <2>6, <2>7
  <2>8. CASE e = 5
    BY <2>1, <2>3, <2>4, <2>5, <2>6, <2>8
  <2> QED
    BY <2>7, <2>8
<1>2. near(D)
  BY <1>1
<1> QED
  BY <1>0, <1>2, SumOfIsSum
-----------------------------------------------------------------------------
(* The arithmetic of money.                                                *)

\* Money of whole mills is whole cents, and what is whole in cents is kept.
LEMMA MoneyWhole ==
    ASSUME NEW m \in Nat
    PROVE  /\ Money(m) \in Nat
           /\ ~Fine(m) => Mills(Money(m)) = m
BY DEF Money, Fine, Mills

\* A column read back and rounded again is the column.
LEMMA MoneyOfMills ==
    ASSUME NEW cents \in Nat
    PROVE  Mills(cents) \in Nat /\ Money(Mills(cents)) = cents
BY DEF Money, Mills

\* Quantities and prices multiply to an amount.
LEMMA GrossNat ==
    ASSUME NEW quantity \in Nat, NEW price \in Nat
    PROVE  quantity * price \in Nat
BY SMT

-----------------------------------------------------------------------------
(* price_document, line by line.                                           *)

\* The amount follows from the stored figures.
Rederives(row) ==
    row.amount = Money(row.quantity * Mills(row.price)) - row.discount

\* A priced offer is a row that rederives unless its price is finer than a cent.
LEMMA PricedIsRow ==
    ASSUME NEW offer \in NewLine, Priceable(offer)
    PROVE  /\ PricedRow(offer) \in [quantity : Nat, price : Nat, discount : Nat,
                                    amount : Nat, policy : {"order", "delivery"},
                                    cost : {NoCost}]
           /\ ~Fine(offer.price) => Rederives(PricedRow(offer))
<1> DEFINE q == offer.quantity
           p == offer.price
           d == offer.discount
<1>1. q \in Nat /\ p \in Nat /\ d \in Nat
  BY DEF NewLine
<1>2. offer.policy \in {"unset", "order", "delivery"}
  BY DEF NewLine
<1>3. q * p \in Nat
  BY <1>1, GrossNat
<1>4. Money(q * p) \in Nat /\ Money(p) \in Nat /\ Money(d) \in Nat
  BY <1>1, <1>3, MoneyWhole
<1>5. Amount(offer) = Money(q * p) - Money(d)
  BY DEF Amount, Gross
<1>6. Amount(offer) \in Nat
  <2> HIDE DEF q, p, d
  <2>1. Money(q * p) - Money(d) \in Int
    BY <1>4
  <2>2. Amount(offer) >= 0
    BY DEF Priceable
  <2> QED
    BY <1>5, <2>1, <2>2
<1>7. PricedRow(offer) = [quantity |-> q, price |-> Money(p), discount |-> Money(d),
                          amount |-> Amount(offer),
                          policy |-> IF offer.policy = "unset" THEN "order" ELSE offer.policy,
                          cost |-> NoCost]
  BY DEF PricedRow
<1>8. ASSUME ~Fine(p)
      PROVE  Rederives(PricedRow(offer))
  <2>1. Mills(Money(p)) = p
    BY <1>1, <1>8, MoneyWhole
  <2> QED
    BY <1>5, <1>7, <2>1 DEF Rederives
<1> QED
  <2> HIDE DEF q, p, d
  <2>1. PricedRow(offer) \in [quantity : Nat, price : Nat, discount : Nat,
                              amount : Nat, policy : {"order", "delivery"},
                              cost : {NoCost}]
    BY <1>1, <1>2, <1>4, <1>6, <1>7
  <2> QED
    BY <2>1, <1>8 DEF p

\* A row that rederives, asked again from its columns, is the row it was.
LEMMA PricedAgain ==
    ASSUME NEW row \in Row, row.cost = NoCost
    PROVE  /\ AsOffer(row) \in NewLine
           /\ ~Fine(AsOffer(row).price)
           /\ Rederives(row) => PricedRow(AsOffer(row)) = row
<1> DEFINE q == row.quantity
           p == row.price
           d == row.discount
<1>1. q \in Nat /\ p \in Nat /\ d \in Nat /\ row.policy \in {"order", "delivery"}
  BY DEF Row
<1>2. /\ Mills(p) \in Nat /\ Money(Mills(p)) = p
      /\ Mills(d) \in Nat /\ Money(Mills(d)) = d
  BY <1>1, MoneyOfMills
<1>3. AsOffer(row) = [quantity |-> q, price |-> Mills(p), discount |-> Mills(d),
                      policy |-> row.policy]
  BY DEF AsOffer
<1>4. AsOffer(row) \in NewLine
  BY <1>1, <1>2, <1>3 DEF NewLine
<1>5. ~Fine(AsOffer(row).price)
  BY <1>1, <1>3 DEF Fine, Mills
<1>6. ASSUME Rederives(row)
      PROVE  PricedRow(AsOffer(row)) = row
  <2>1. row = [quantity |-> q, price |-> p, discount |-> d, amount |-> row.amount,
               policy |-> row.policy, cost |-> NoCost]
    BY DEF Row
  <2>2. Amount(AsOffer(row)) = row.amount
    BY <1>2, <1>3, <1>6 DEF Amount, Gross, Rederives
  <2>3. PricedRow(AsOffer(row)) = [quantity |-> q, price |-> p, discount |-> d,
                                   amount |-> row.amount, policy |-> row.policy,
                                   cost |-> NoCost]
    BY <1>1, <1>2, <1>3, <2>2 DEF PricedRow
  <2> QED
    BY <2>1, <2>3
<1> QED
  BY <1>4, <1>5, <1>6

\* Documents of the same amounts come to the same totals.
LEMMA SameAmounts ==
    ASSUME NEW one, NEW other, Amounts(one) = Amounts(other)
    PROVE  Totals(one, Rate) = Totals(other, Rate)
BY DEF Totals, Subtotal

-----------------------------------------------------------------------------
(* The inductive invariant.                                                *)

PricedRows == [Lines -> Row]

\* A quotation has no costs, and rederives but for the finer prices.
QuotedSound ==
    /\ quotation # NoRows =>
          /\ quotation \in PricedRows
          /\ offered = Totals(quotation, Rate)
          /\ \A l \in Lines : quotation[l].cost = NoCost
          /\ \A l \in Lines \ quotedFine : Rederives(quotation[l])

OrderSound ==
    /\ status \in {"none", "draft", "to_deliver_and_bill", "cancelled"}
    /\ status = "none" => rows = NoRows
    /\ status # "none" =>
          /\ rows \in PricedRows
          /\ header = Totals(rows, Rate)
          /\ \A l \in Lines \ fine : Rederives(rows[l])

\* The lock: one edit under way, and only on a draft.
OneEdit ==
    /\ DOMAIN pc = Callers /\ DOMAIN edit = Callers /\ DOMAIN summed = Callers
    /\ \A c, d \in Editing : c = d
    /\ Editing # {} => status = "draft"

\* What an edit under way has written, and what its commit will make of the order.
EditSound ==
    \A c \in Editing :
        /\ pc[c] \in {"sum", "commit"}
        /\ edit[c].line \in Lines
        /\ edit[c].row \in Row
        /\ ~edit[c].fine => Rederives(edit[c].row)
        /\ pc[c] = "commit" => summed[c] = Totals(Seen(c), Rate)

\* Where the confirm's event is, and what was made of it.
EventSound ==
    /\ sink = [at |-> sink.at, total |-> sink.total]
    /\ sink.at \in {"none", "pending", "heard"}
    /\ sink.at # "none" => /\ status \notin {"none", "draft"}
                           /\ sink.total = header.total
    /\ breaches = IF sink.at = "heard" THEN {t \in {header.total} : t > CreditLimit} ELSE {}

TotalsInv == QuotedSound /\ OrderSound /\ OneEdit /\ EditSound /\ EventSound

\* An empty database.
LEMMA TotalsInit == Init => TotalsInv
BY DEF Init, TotalsInv, QuotedSound, OrderSound, OneEdit, EditSound, EventSound, Editing,
       NoRows

-----------------------------------------------------------------------------
(* Creation.                                                               *)

\* A document priced from offers.
LEMMA PricedSound ==
    ASSUME NEW offers \in [Lines -> NewLine], \A l \in Lines : Priceable(offers[l])
    PROVE  /\ Priced(offers) \in PricedRows
           /\ \A l \in Lines : Priced(offers)[l].cost = NoCost
           /\ \A l \in Lines \ FineOf(offers) : Rederives(Priced(offers)[l])
<1>1. ASSUME NEW l \in Lines
      PROVE  /\ Priced(offers)[l] \in Row
             /\ Priced(offers)[l].cost = NoCost
             /\ l \notin FineOf(offers) => Rederives(Priced(offers)[l])
  <2>1. offers[l] \in NewLine /\ Priced(offers)[l] = PricedRow(offers[l])
    BY DEF Priced
  <2>2. PricedRow(offers[l]) \in Row /\ PricedRow(offers[l]).cost = NoCost
    BY <2>1, PricedIsRow DEF Row
  <2>3. l \notin FineOf(offers) => Rederives(PricedRow(offers[l]))
    BY <2>1, PricedIsRow DEF FineOf
  <2> QED
    BY <2>1, <2>2, <2>3
<1>2. Priced(offers) \in PricedRows
  <2>1. Priced(offers) = [l \in Lines |-> Priced(offers)[l]]
    BY DEF Priced
  <2> QED
    BY <1>1, <2>1 DEF PricedRows
<1> QED
  BY <1>1, <1>2

\* A quotation is written, and nothing else.
LEMMA CreateQuotationKeeps ==
    ASSUME TotalsInv, TotalsAssumption, CreateQuotation
    PROVE  TotalsInv'
<1>1. PICK offers \in [Lines -> Offers] :
          /\ \A l \in Lines : Priceable(offers[l])
          /\ quotation' = Priced(offers)
          /\ offered' = Totals(Priced(offers), Rate)
          /\ quotedFine' = FineOf(offers)
  BY DEF CreateQuotation
<1>2. offers \in [Lines -> NewLine]
  BY <1>1 DEF TotalsAssumption
<1>3. QuotedSound'
  BY <1>1, <1>2, PricedSound DEF QuotedSound
<1>4. UNCHANGED <<status, rows, header, pc, edit, summed, sink, breaches, fine>>
  BY DEF CreateQuotation, editing, listening
<1>5. Editing' = Editing /\ \A c : Seen(c)' = Seen(c)
  BY <1>4 DEF Editing, Seen
<1>6. OrderSound' /\ OneEdit' /\ EditSound' /\ EventSound'
  BY <1>4, <1>5 DEF TotalsInv, OrderSound, OneEdit, EditSound, EventSound
<1> QED
  BY <1>3, <1>6 DEF TotalsInv

\* An order is written in one transaction: there is no edit of it and no event yet.
LEMMA CreateOrderKeeps ==
    ASSUME TotalsInv, NEW offers \in [Lines -> NewLine], NEW source,
           CreateOrderFrom(offers, source)
    PROVE  TotalsInv'
<1>1. /\ status = "none" /\ status' = "draft"
      /\ \A l \in Lines : Priceable(offers[l])
      /\ rows' = Priced(offers)
      /\ header' = Totals(Priced(offers), Rate)
      /\ fine' = FineOf(offers)
      /\ UNCHANGED <<quotation, offered, quotedFine, pc, edit, summed, sink, breaches>>
  BY DEF CreateOrderFrom, editing, listening
<1>2. QuotedSound'
  BY <1>1 DEF TotalsInv, QuotedSound
<1>3. OrderSound'
  BY <1>1, PricedSound DEF OrderSound
<1>4. Editing = {} /\ Editing' = {}
  BY <1>1 DEF TotalsInv, OneEdit, Editing
<1>5. OneEdit' /\ EditSound'
  BY <1>1, <1>4 DEF TotalsInv, OneEdit, EditSound
<1>6. sink.at = "none"
  BY <1>1 DEF TotalsInv, EventSound
<1>7. EventSound'
  BY <1>1, <1>6 DEF TotalsInv, EventSound
<1> QED
  BY <1>2, <1>3, <1>5, <1>7 DEF TotalsInv

\* What the cart pricer answers makes an offer.
LEMMA CartOffersAreNewLines ==
    /\ \A line \in PricedCartLine : CartOffer(line) \in NewLine
    /\ RewardOffer(1) \in NewLine
<1>1. ASSUME NEW line \in PricedCartLine
      PROVE  CartOffer(line) \in NewLine
  <2> DEFINE gross == Mills(Money(line.quantity * line.price))
  <2>1. line.quantity \in Nat /\ line.price \in Nat /\ line.net \in Nat
    BY DEF PricedCartLine
  <2>2. line.quantity * line.price \in Nat
    BY <2>1, GrossNat
  <2>3. Money(line.quantity * line.price) \in Nat
    BY <2>2, MoneyWhole
  <2>4. gross \in Nat
    BY <2>3, MoneyOfMills
  <2> HIDE DEF gross
  <2>5. (IF gross > line.net THEN gross - line.net ELSE 0) \in Nat
    BY <2>1, <2>4
  <2>6. CartOffer(line) = [quantity |-> line.quantity, price |-> line.price,
                           policy |-> "unset",
                           discount |-> IF gross > line.net THEN gross - line.net ELSE 0]
    BY DEF CartOffer, gross
  <2> QED
    BY <2>1, <2>5, <2>6 DEF NewLine
<1>2. RewardOffer(1) \in NewLine
  BY DEF RewardOffer, NewLine
<1> QED
  BY <1>1, <1>2

\* The four ways to an order or a quotation.
LEMMA CreationKeeps ==
    ASSUME TotalsInv, TotalsAssumption,
           CreateQuotation \/ CreateOrder \/ Convert \/ CreateFromCart
    PROVE  TotalsInv'
<1>1. CASE CreateQuotation
  BY <1>1, CreateQuotationKeeps
<1>2. CASE CreateOrder
  <2>1. PICK offers \in [Lines -> Offers] : CreateOrderFrom(offers, "offer")
    BY <1>2 DEF CreateOrder
  <2>2. offers \in [Lines -> NewLine]
    BY DEF TotalsAssumption
  <2> QED
    BY <2>1, <2>2, CreateOrderKeeps
<1>3. CASE Convert
  <2> DEFINE offers == [l \in Lines |-> AsOffer(quotation[l])]
  <2>1. CreateOrderFrom(offers, "quotation")
    BY <1>3 DEF Convert
  <2>2. \A l \in Lines : quotation[l] \in Row /\ quotation[l].cost = NoCost
    BY <1>3 DEF Convert, TotalsInv, QuotedSound, PricedRows
  <2>3. offers \in [Lines -> NewLine]
    BY <2>2, PricedAgain
  <2> QED
    BY <2>1, <2>3, CreateOrderKeeps
<1>4. CASE CreateFromCart
  <2>1. PICK priced \in (SUBSET Lines) \ {{}} :
            \E cart \in [priced -> CartLines], source \in {"cart", "fine_cart"} :
                CreateOrderFrom([l \in Lines |-> IF l \in priced THEN CartOffer(cart[l])
                                                 ELSE RewardOffer(1)], source)
    BY <1>4 DEF CreateFromCart
  <2>2. PICK cart \in [priced -> CartLines], source \in {"cart", "fine_cart"} :
            CreateOrderFrom([l \in Lines |-> IF l \in priced THEN CartOffer(cart[l])
                                             ELSE RewardOffer(1)], source)
    BY <2>1
  <2> DEFINE offers == [l \in Lines |-> IF l \in priced THEN CartOffer(cart[l])
                                        ELSE RewardOffer(1)]
  <2>3. \A l \in priced : cart[l] \in PricedCartLine
    BY DEF TotalsAssumption
  <2>4. offers \in [Lines -> NewLine]
    BY <2>3, CartOffersAreNewLines
  <2> QED
    BY <2>2, <2>4, CreateOrderKeeps
<1> QED
  BY <1>1, <1>2, <1>3, <1>4

-----------------------------------------------------------------------------
(* update_order_line.                                                      *)

\* A patch laid over a row asks for what a caller might have asked.
LEMMA EffectiveIsNewLine ==
    ASSUME TotalsAssumption, NEW patch \in Patches, NEW row \in Row
    PROVE  /\ Effective(patch, row) \in NewLine
           /\ ~Reprices(patch) => Effective(patch, row) = AsOffer(row)
<1>1. patch \in LinePatch
  BY DEF TotalsAssumption
<1>2. /\ row.quantity \in Nat /\ Mills(row.price) \in Nat /\ Mills(row.discount) \in Nat
      /\ row.policy \in {"order", "delivery"}
  BY MoneyOfMills DEF Row
<1>3. /\ patch.quantity # Keep => patch.quantity \in Nat
      /\ patch.price # Keep => patch.price \in Nat
      /\ patch.discount # Keep => patch.discount \in Nat
  BY <1>1 DEF LinePatch
<1>4. Effective(patch, row) \in NewLine
  BY <1>2, <1>3 DEF Effective, NewLine
<1>5. ~Reprices(patch) => Effective(patch, row) = AsOffer(row)
  BY DEF Reprices, Effective, AsOffer
<1> QED
  BY <1>4, <1>5

\* The row of an edit that prices the line again, or leaves its figures alone.
LEMMA EditedIsRow ==
    ASSUME TotalsAssumption, NEW patch \in Patches, NEW old \in Row,
           Priceable(Effective(patch, old)),
           NEW row, row = [PricedRow(Effective(patch, old)) EXCEPT !.cost = old.cost]
    PROVE  /\ row \in Row
           /\ ~Fine(Effective(patch, old).price) => Rederives(row)
           /\ [row EXCEPT !.amount = old.amount] \in Row
           /\ ~Reprices(patch) /\ Rederives(old)
              => Rederives([row EXCEPT !.amount = old.amount])
<1> DEFINE asked == Effective(patch, old)
<1>1. asked \in NewLine
  BY EffectiveIsNewLine
<1>2. /\ PricedRow(asked) \in [quantity : Nat, price : Nat, discount : Nat, amount : Nat,
                               policy : {"order", "delivery"}, cost : {NoCost}]
      /\ ~Fine(asked.price) => Rederives(PricedRow(asked))
  BY <1>1, PricedIsRow
<1>3. old.cost \in Costs \cup {NoCost} /\ old.amount \in Nat
  BY DEF Row
<1> HIDE DEF asked
<1>4. row = [PricedRow(asked) EXCEPT !.cost = old.cost]
  BY DEF asked
<1>5. row \in Row
  BY <1>2, <1>3, <1>4 DEF Row
<1>6. /\ row.quantity = PricedRow(asked).quantity /\ row.price = PricedRow(asked).price
      /\ row.discount = PricedRow(asked).discount /\ row.amount = PricedRow(asked).amount
  BY <1>2, <1>4
<1>7. ~Fine(asked.price) => Rederives(row)
  BY <1>2, <1>6 DEF Rederives
<1> DEFINE kept == [row EXCEPT !.amount = old.amount]
<1>8. /\ kept \in Row
      /\ kept.amount = old.amount /\ kept.quantity = row.quantity
      /\ kept.price = row.price /\ kept.discount = row.discount
  BY <1>3, <1>5 DEF Row
<1>9. ASSUME ~Reprices(patch), Rederives(old)
      PROVE  Rederives(kept)
  <2>1. asked = AsOffer(old)
    BY <1>9, EffectiveIsNewLine DEF asked
  <2>2. old.quantity \in Nat /\ old.price \in Nat /\ old.discount \in Nat
    BY DEF Row
  <2>3. Money(Mills(old.price)) = old.price /\ Money(Mills(old.discount)) = old.discount
    BY <2>2, MoneyOfMills
  <2>4. /\ PricedRow(asked).quantity = old.quantity /\ PricedRow(asked).price = old.price
        /\ PricedRow(asked).discount = old.discount
    BY <2>1, <2>3 DEF PricedRow, AsOffer
  <2> QED
    BY <1>6, <1>8, <1>9, <2>4 DEF Rederives
<1> QED
  BY <1>5, <1>7, <1>8, <1>9 DEF asked

\* The line is locked, and with it its order.
LEMMA EditLineKeeps ==
    ASSUME TotalsInv, TotalsAssumption, NEW c \in Callers, NEW l \in Lines,
           NEW patch \in Patches, EditLine(c, l, patch)
    PROVE  TotalsInv'
<1> DEFINE old == rows[l]
           asked == Effective(patch, old)
           row == [PricedRow(asked) EXCEPT !.cost = old.cost]
           kept == [row EXCEPT !.amount = old.amount]
<1>1. /\ pc[c] = "idle" /\ Editing \ {c} = {} /\ status = "draft"
      /\ Priceable(asked)
      /\ edit' = [edit EXCEPT ![c] =
                     IF Reprices(patch)
                     THEN [line |-> l, row |-> row, fine |-> Fine(asked.price)]
                     ELSE [line |-> l, row |-> kept, fine |-> l \in fine]]
      /\ pc' = [pc EXCEPT ![c] = IF Reprices(patch) THEN "sum" ELSE "commit"]
      /\ summed' = [summed EXCEPT ![c] = header]
      /\ UNCHANGED <<quotation, offered, status, rows, header, sink, breaches,
                     quotedFine, fine>>
  BY DEF EditLine, Unlocked, document, listening, history
<1>2. /\ rows \in PricedRows /\ header = Totals(rows, Rate)
      /\ l \notin fine => Rederives(old)
  BY <1>1 DEF TotalsInv, OrderSound
<1>3. old \in Row
  BY <1>2 DEF PricedRows
<1>4. /\ row \in Row /\ kept \in Row
      /\ ~Fine(asked.price) => Rederives(row)
      /\ ~Reprices(patch) /\ Rederives(old) => Rederives(kept)
  BY <1>1, <1>3, EditedIsRow
<1>5. DOMAIN pc = Callers /\ DOMAIN edit = Callers /\ DOMAIN summed = Callers
  BY DEF TotalsInv, OneEdit
<1>6. Editing' = {c}
  BY <1>1, <1>5 DEF Editing
<1>7. OneEdit'
  BY <1>1, <1>5, <1>6 DEF OneEdit
<1>8. EditSound'
  <2>1. pc'[c] = (IF Reprices(patch) THEN "sum" ELSE "commit")
    BY <1>1, <1>5
  <2>2. CASE Reprices(patch)
    <3>1. edit'[c] = [line |-> l, row |-> row, fine |-> Fine(asked.price)]
      BY <1>1, <1>5, <2>2
    <3> HIDE DEF asked, row, kept, old
    <3>2. edit'[c].line = l /\ edit'[c].row = row /\ (edit'[c].fine <=> Fine(asked.price))
      BY <3>1
    <3> QED
      BY <1>4, <1>6, <2>1, <2>2, <3>2 DEF EditSound
  <2>3. CASE ~Reprices(patch)
    <3>1. edit'[c] = [line |-> l, row |-> kept, fine |-> l \in fine]
      BY <1>1, <1>5, <2>3
    <3>2. kept.amount = old.amount
      BY <1>4 DEF Row
    <3> HIDE DEF asked, row, kept
    <3>3. edit'[c].line = l /\ edit'[c].row = kept /\ edit'[c].fine = (l \in fine)
      BY <3>1
    <3>4. summed'[c] = Totals(rows, Rate)
      BY <1>1, <1>2, <1>5
    <3>5. Seen(c)' = [rows EXCEPT ![l] = kept]
      BY <1>1, <3>3 DEF Seen
    <3>6. Amounts([rows EXCEPT ![l] = kept]) = Amounts(rows)
      BY <1>2, <3>2 DEF Amounts, PricedRows
    <3>7. summed'[c] = Totals(Seen(c)', Rate)
      BY <3>4, <3>5, <3>6, SameAmounts
    <3> QED
      BY <1>2, <1>4, <1>6, <2>1, <2>3, <3>3, <3>7 DEF EditSound
  <2> QED
    BY <2>2, <2>3
<1>9. QuotedSound' /\ OrderSound' /\ EventSound'
  BY <1>1 DEF TotalsInv, QuotedSound, OrderSound, EventSound
<1> QED
  BY <1>7, <1>8, <1>9 DEF TotalsInv

\* The header is summed up from the lines the transaction sees.
LEMMA SumUpKeeps ==
    ASSUME TotalsInv, NEW c \in Callers, SumUp(c)
    PROVE  TotalsInv'
<1>1. /\ pc[c] = "sum" /\ pc' = [pc EXCEPT ![c] = "commit"]
      /\ summed' = [summed EXCEPT ![c] = Totals(Seen(c), Rate)]
      /\ UNCHANGED <<quotation, offered, status, rows, header, edit, sink, breaches,
                     quotedFine, fine>>
  BY DEF SumUp, document, listening, history
<1>2. DOMAIN pc = Callers /\ DOMAIN edit = Callers /\ DOMAIN summed = Callers
  BY DEF TotalsInv, OneEdit
<1>3. c \in Editing /\ Editing' = Editing
  BY <1>1, <1>2 DEF Editing
<1>4. OneEdit'
  BY <1>1, <1>2, <1>3 DEF TotalsInv, OneEdit
<1>5. \A d \in Editing : d = c
  BY <1>3 DEF TotalsInv, OneEdit
<1>6. Seen(c)' = Seen(c)
  BY <1>1 DEF Seen
<1>7. pc'[c] = "commit" /\ summed'[c] = Totals(Seen(c)', Rate)
  BY <1>1, <1>2, <1>6
<1>8. EditSound'
  BY <1>1, <1>3, <1>5, <1>7 DEF TotalsInv, EditSound
<1>9. QuotedSound' /\ OrderSound' /\ EventSound'
  BY <1>1 DEF TotalsInv, QuotedSound, OrderSound, EventSound
<1> QED
  BY <1>4, <1>8, <1>9 DEF TotalsInv

\* The only caller that holds the lock gives it up.
LEMMA ReturnFrees ==
    ASSUME TotalsInv, NEW c \in Callers, pc[c] # "idle", Return(c)
    PROVE  /\ Editing' = {}
           /\ DOMAIN pc' = Callers /\ DOMAIN edit' = Callers /\ DOMAIN summed' = Callers
BY DEF Return, TotalsInv, OneEdit, Editing

\* The line and the header that came of it are committed together.
LEMMA CommitEditKeeps ==
    ASSUME TotalsInv, NEW c \in Callers, CommitEdit(c)
    PROVE  TotalsInv'
<1>1. /\ pc[c] = "commit" /\ Return(c)
      /\ rows' = Seen(c) /\ header' = summed[c]
      /\ fine' = IF edit[c].fine THEN fine \cup {edit[c].line} ELSE fine \ {edit[c].line}
      /\ UNCHANGED <<quotation, offered, status, sink, breaches, quotedFine>>
  BY DEF CommitEdit, listening
<1>2. c \in Editing
  BY <1>1 DEF Editing
<1>3. /\ edit[c].line \in Lines /\ edit[c].row \in Row
      /\ ~edit[c].fine => Rederives(edit[c].row)
      /\ summed[c] = Totals(Seen(c), Rate)
  BY <1>1, <1>2 DEF TotalsInv, EditSound
<1>4. status = "draft"
  BY <1>2 DEF TotalsInv, OneEdit
<1>5. rows \in PricedRows /\ \A l \in Lines \ fine : Rederives(rows[l])
  BY <1>4 DEF TotalsInv, OrderSound
<1>6. rows' = [rows EXCEPT ![edit[c].line] = edit[c].row]
  BY <1>1 DEF Seen
<1>7. OrderSound'
  <2>1. rows' \in PricedRows
    BY <1>3, <1>5, <1>6 DEF PricedRows
  <2>2. header' = Totals(rows', Rate)
    BY <1>1, <1>3
  <2>3. ASSUME NEW l \in Lines, l \notin fine'
        PROVE  Rederives(rows'[l])
    <3>1. CASE l = edit[c].line
      BY <1>1, <1>3, <1>5, <1>6, <2>3, <3>1 DEF PricedRows
    <3>2. CASE l # edit[c].line
      BY <1>1, <1>5, <1>6, <2>3, <3>2 DEF PricedRows
    <3> QED
      BY <3>1, <3>2
  <2> QED
    BY <1>1, <1>4, <2>1, <2>2, <2>3 DEF OrderSound, Rederives
<1>8. /\ Editing' = {}
      /\ DOMAIN pc' = Callers /\ DOMAIN edit' = Callers /\ DOMAIN summed' = Callers
  BY <1>1, ReturnFrees
<1>9. OneEdit' /\ EditSound'
  BY <1>8 DEF OneEdit, EditSound
<1>10. QuotedSound'
  BY <1>1 DEF TotalsInv, QuotedSound
<1>11. sink.at = "none"
  BY <1>4 DEF TotalsInv, EventSound
<1>12. EventSound'
  BY <1>1, <1>11 DEF TotalsInv, EventSound
<1> QED
  BY <1>7, <1>9, <1>10, <1>12 DEF TotalsInv

\* A rollback frees the lock and leaves the order as it was.
LEMMA RollBackKeeps ==
    ASSUME TotalsInv, NEW c \in Callers, RollBack(c)
    PROVE  TotalsInv'
<1>1. /\ pc[c] # "idle" /\ Return(c)
      /\ UNCHANGED <<quotation, offered, status, rows, header, sink, breaches,
                     quotedFine, fine>>
  BY DEF RollBack, document, listening, history
<1>2. /\ Editing' = {}
      /\ DOMAIN pc' = Callers /\ DOMAIN edit' = Callers /\ DOMAIN summed' = Callers
  BY <1>1, ReturnFrees
<1>3. OneEdit' /\ EditSound'
  BY <1>2 DEF OneEdit, EditSound
<1>4. QuotedSound' /\ OrderSound' /\ EventSound'
  BY <1>1 DEF TotalsInv, QuotedSound, OrderSound, EventSound
<1> QED
  BY <1>3, <1>4 DEF TotalsInv

-----------------------------------------------------------------------------
(* The confirm, its event and the cancel.                                  *)

\* The confirm stamps costs, which no figure depends on, and carries the total.
LEMMA ConfirmKeeps ==
    ASSUME TotalsInv, Confirm
    PROVE  TotalsInv'
<1>1. PICK cost \in [Lines -> Costs \cup {NoCost}] :
          rows' = [l \in Lines |-> [rows[l] EXCEPT !.cost = cost[l]]]
  BY DEF Confirm
<1>2. /\ Editing = {} /\ status = "draft" /\ status' = "to_deliver_and_bill"
      /\ sink' = [at |-> "pending", total |-> header.total]
      /\ UNCHANGED <<quotation, offered, header, pc, edit, summed, breaches,
                     quotedFine, fine>>
  BY DEF Confirm, editing, history
<1>3. /\ rows \in PricedRows /\ header = Totals(rows, Rate)
      /\ \A l \in Lines \ fine : Rederives(rows[l])
  BY <1>2 DEF TotalsInv, OrderSound
<1>4. ASSUME NEW l \in Lines
      PROVE  /\ rows'[l] \in Row /\ rows'[l].amount = rows[l].amount
             /\ Rederives(rows[l]) => Rederives(rows'[l])
  <2>1. rows[l] \in Row /\ cost[l] \in Costs \cup {NoCost}
    BY <1>3 DEF PricedRows
  <2>2. rows'[l] = [rows[l] EXCEPT !.cost = cost[l]]
    BY <1>1
  <2>3. rows'[l] \in Row
    BY <2>1, <2>2 DEF Row
  <2>4. /\ rows'[l].amount = rows[l].amount /\ rows'[l].quantity = rows[l].quantity
        /\ rows'[l].price = rows[l].price /\ rows'[l].discount = rows[l].discount
    BY <2>1, <2>2 DEF Row
  <2> QED
    BY <2>3, <2>4 DEF Rederives
<1>5. rows' \in PricedRows
  <2>1. rows' = [l \in Lines |-> rows'[l]]
    BY <1>1
  <2> QED
    BY <1>4, <2>1 DEF PricedRows
<1>6. Amounts(rows') = Amounts(rows)
  <2>1. DOMAIN rows' = Lines /\ DOMAIN rows = Lines
    BY <1>3, <1>5 DEF PricedRows
  <2> QED
    BY <1>4, <2>1 DEF Amounts
<1>7. header' = Totals(rows', Rate)
  <2>1. Totals(rows', Rate) = Totals(rows, Rate)
    BY <1>6, SameAmounts
  <2> QED
    BY <1>2, <1>3, <2>1
<1>8. OrderSound'
  BY <1>2, <1>3, <1>4, <1>5, <1>7 DEF OrderSound, Rederives
<1>9. Editing' = {}
  BY <1>2 DEF Editing
<1>10. OneEdit' /\ EditSound'
  BY <1>2, <1>9 DEF TotalsInv, OneEdit, EditSound
<1>11. QuotedSound'
  BY <1>2 DEF TotalsInv, QuotedSound
<1>12. EventSound'
  BY <1>2 DEF TotalsInv, EventSound
<1> QED
  BY <1>8, <1>10, <1>11, <1>12 DEF TotalsInv

\* The credit rule hears the total once.
LEMMA PublishKeeps ==
    ASSUME TotalsInv, PublishConfirmed
    PROVE  TotalsInv'
<1>1. /\ sink.at = "pending" /\ sink' = [sink EXCEPT !.at = "heard"]
      /\ breaches' = breaches \cup {t \in {sink.total} : t > CreditLimit}
      /\ UNCHANGED <<quotation, offered, status, rows, header, pc, edit, summed,
                     quotedFine, fine>>
  BY DEF PublishConfirmed, document, editing, history
<1>2. /\ sink = [at |-> sink.at, total |-> sink.total]
      /\ status \notin {"none", "draft"} /\ sink.total = header.total /\ breaches = {}
  BY <1>1 DEF TotalsInv, EventSound
<1>3. sink' = [at |-> "heard", total |-> header.total]
  BY <1>1, <1>2
<1>4. EventSound'
  BY <1>1, <1>2, <1>3 DEF EventSound
<1>5. QuotedSound' /\ OrderSound'
  BY <1>1 DEF TotalsInv, QuotedSound, OrderSound
<1>6. Editing' = Editing /\ \A c : Seen(c)' = Seen(c)
  BY <1>1 DEF Editing, Seen
<1>7. OneEdit' /\ EditSound'
  BY <1>1, <1>6 DEF TotalsInv, OneEdit, EditSound
<1> QED
  BY <1>4, <1>5, <1>7 DEF TotalsInv

\* A cancelled order keeps its figures, and an event on its way is still heard.
LEMMA CancelKeeps ==
    ASSUME TotalsInv, Cancel
    PROVE  TotalsInv'
<1>1. /\ Editing = {} /\ status # "none" /\ status' = "cancelled"
      /\ UNCHANGED <<quotation, offered, rows, header, pc, edit, summed, sink, breaches,
                     quotedFine, fine>>
  BY DEF Cancel, editing, listening, history
<1>2. Editing' = {}
  BY <1>1 DEF Editing
<1>3. OneEdit' /\ EditSound'
  BY <1>1, <1>2 DEF TotalsInv, OneEdit, EditSound
<1>4. QuotedSound' /\ OrderSound' /\ EventSound'
  BY <1>1 DEF TotalsInv, QuotedSound, OrderSound, EventSound
<1> QED
  BY <1>3, <1>4 DEF TotalsInv

\* The views, and steps of others.
LEMMA WatchingKeeps ==
    ASSUME TotalsInv, UNCHANGED <<document, editing, listening, history>>
    PROVE  TotalsInv'
<1>1. UNCHANGED <<quotation, offered, status, rows, header, pc, edit, summed, sink,
                  breaches, quotedFine, fine>>
  BY DEF document, editing, listening, history
<1>2. Editing' = Editing /\ \A c : Seen(c)' = Seen(c)
  BY <1>1 DEF Editing, Seen
<1> QED
  BY <1>1, <1>2 DEF TotalsInv, QuotedSound, OrderSound, OneEdit, EditSound, EventSound

-----------------------------------------------------------------------------
(* Every step.                                                             *)

\* Every step keeps the figures, the lock and the event sound.
LEMMA TotalsStep ==
    ASSUME TotalsInv, TotalsAssumption, [Next]_vars
    PROVE  TotalsInv'
<1>1. CASE CreateQuotation \/ CreateOrder \/ Convert \/ CreateFromCart
  BY <1>1, CreationKeeps
<1>2. CASE Confirm
  BY <1>2, ConfirmKeeps
<1>3. CASE PublishConfirmed
  BY <1>3, PublishKeeps
<1>4. CASE Cancel
  BY <1>4, CancelKeeps
<1>5. ASSUME NEW c \in Callers, NEW l \in Lines, NEW patch \in Patches,
             EditLine(c, l, patch)
      PROVE  TotalsInv'
  BY <1>5, EditLineKeeps
<1>6. ASSUME NEW c \in Callers, SumUp(c)
      PROVE  TotalsInv'
  BY <1>6, SumUpKeeps
<1>7. ASSUME NEW c \in Callers, CommitEdit(c)
      PROVE  TotalsInv'
  BY <1>7, CommitEditKeeps
<1>8. ASSUME NEW c \in Callers, RollBack(c)
      PROVE  TotalsInv'
  BY <1>8, RollBackKeeps
<1>9. ASSUME NEW v \in Viewers, ViewHeader(v) \/ ViewLines(v) \/ ViewRollup(v)
      PROVE  TotalsInv'
  BY <1>9, WatchingKeeps DEF ViewHeader, ViewLines, ViewRollup
<1>10. CASE UNCHANGED vars
  BY <1>10, WatchingKeeps DEF vars
<1> QED
  BY <1>1, <1>2, <1>3, <1>4, <1>5, <1>6, <1>7, <1>8, <1>9, <1>10 DEF Next

\* Whatever races, the figures, the lock and the event stay sound.
THEOREM FiguresSound == Spec => []TotalsInv
<1>1. TotalsInv /\ [Next]_vars => TotalsInv'
  BY TotalsStep, TotalsAssumption
<1> QED
  BY TotalsInit, <1>1, PTL DEF Spec

\* The header of a quotation and of an order is what its lines come to, and each line
\* is what its figures come to, for every document and any sequence of edits.
THEOREM FiguresAlwaysAgree == Spec => []FiguresAgree
<1>1. TotalsInv => FiguresAgree
  BY DEF TotalsInv, QuotedSound, OrderSound, Rederives, PricedRows, NoRows,
         FiguresAgree, TotalsAgree, AmountsRederive
<1> QED
  BY FiguresSound, <1>1, PTL

\* The credit rule flags exactly the orders whose frozen total breaks the limit.
THEOREM CreditIsWatched == Spec => []CreditWatched
<1>1. TotalsInv => CreditWatched
  BY DEF TotalsInv, EventSound, CreditWatched
<1> QED
  BY FiguresSound, <1>1, PTL

\* No step changes a line or the header of an order that is no draft.
LEMMA FrozenStep ==
    ASSUME TotalsInv, [Next]_vars, status \notin {"none", "draft"}
    PROVE  UNCHANGED <<rows, header>>
<1>1. Editing = {}
  BY DEF TotalsInv, OneEdit
<1>2. ~CreateOrder /\ ~Convert /\ ~CreateFromCart /\ ~Confirm
  BY DEF CreateOrder, Convert, CreateFromCart, CreateOrderFrom, Confirm
<1>3. \A c \in Callers : ~CommitEdit(c)
  BY <1>1 DEF CommitEdit, Editing
<1>4. CASE CreateQuotation \/ PublishConfirmed \/ Cancel
  BY <1>4 DEF CreateQuotation, PublishConfirmed, Cancel, document
<1>5. ASSUME NEW c \in Callers,
             \/ \E l \in Lines, patch \in Patches : EditLine(c, l, patch)
             \/ SumUp(c) \/ RollBack(c)
      PROVE  UNCHANGED <<rows, header>>
  BY <1>5 DEF EditLine, SumUp, RollBack, document
<1>6. ASSUME NEW v \in Viewers, ViewHeader(v) \/ ViewLines(v) \/ ViewRollup(v)
      PROVE  UNCHANGED <<rows, header>>
  BY <1>6 DEF ViewHeader, ViewLines, ViewRollup, document
<1>7. CASE UNCHANGED vars
  BY <1>7 DEF vars, document
<1> QED
  BY <1>2, <1>3, <1>4, <1>5, <1>6, <1>7 DEF Next

\* No step of an edit that was in flight changes a confirmed or cancelled order.
THEOREM FiguresFrozen == Spec => FrozenOnceConfirmed
<1>1. TotalsInv /\ [Next]_vars
      => [status \notin {"none", "draft"} => UNCHANGED <<rows, header>>]_vars
  BY FrozenStep
<1> QED
  BY FiguresSound, <1>1, PTL DEF Spec, FrozenOnceConfirmed

\* A quotation converted to an order becomes the same rows and the same totals.
THEOREM QuotedIsOrdered == Spec => ConvertedAsQuoted
<1>1. ASSUME TotalsInv, TotalsAssumption, [Next]_vars,
             origin = "none", origin' = "quotation", quotedFine = {}
      PROVE  rows' = quotation /\ header' = offered
  <2>1. Convert
    BY <1>1 DEF Next, vars, history, CreateQuotation, CreateOrder, CreateFromCart,
           CreateOrderFrom, Confirm, PublishConfirmed, Cancel, EditLine, SumUp,
           CommitEdit, RollBack, ViewHeader, ViewLines, ViewRollup
  <2>2. /\ quotation \in PricedRows /\ offered = Totals(quotation, Rate)
        /\ \A l \in Lines : quotation[l].cost = NoCost /\ Rederives(quotation[l])
    BY <1>1, <2>1 DEF TotalsInv, QuotedSound, Convert
  <2> DEFINE offers == [l \in Lines |-> AsOffer(quotation[l])]
  <2>3. rows' = Priced(offers) /\ header' = Totals(Priced(offers), Rate)
    BY <2>1 DEF Convert, CreateOrderFrom
  <2>4. \A l \in Lines : PricedRow(AsOffer(quotation[l])) = quotation[l]
    BY <2>2, PricedAgain DEF PricedRows
  <2>5. Priced(offers) = quotation
    BY <2>2, <2>4 DEF Priced, PricedRows
  <2> QED
    BY <2>2, <2>3, <2>5
<1>2. TotalsInv /\ [Next]_vars
      => [origin = "none" /\ origin' = "quotation" /\ quotedFine = {}
          => rows' = quotation /\ header' = offered]_vars
  BY <1>1, TotalsAssumption
<1> QED
  BY FiguresSound, <1>2, PTL DEF Spec, ConvertedAsQuoted

-----------------------------------------------------------------------------
(* Types.  A header's are those of a sum.                                  *)

\* The amounts of a document's lines, whoever has written them.
LEMMA AmountsTyped ==
    ASSUME TotalsAssumption, NEW some \in PricedRows
    PROVE  /\ Amounts(some) \in [Lines -> Nat]
           /\ IsFiniteSet(DOMAIN Amounts(some))
           /\ Subtotal(some) \in Nat
           /\ Totals(some, Rate) \in Header
<1>1. Amounts(some) \in [Lines -> Nat]
  BY DEF Amounts, PricedRows, Row
<1>2. IsFiniteSet(DOMAIN Amounts(some))
  BY <1>1 DEF TotalsAssumption
<1>3. Subtotal(some) \in Nat
  BY <1>1, <1>2, SumTypes DEF Subtotal
<1>4. Subtotal(some) * Rate \in Nat
  BY <1>3, GrossNat DEF TotalsAssumption
<1>5. Tax(Subtotal(some), Rate) \in Nat
  BY <1>4 DEF Tax
<1>6. Totals(some, Rate) \in Header
  BY <1>3, <1>5 DEF Totals, Header
<1> QED
  BY <1>1, <1>2, <1>3, <1>6

\* A margin is a number on each costed line, and what is shown of it.
LEMMA MarginsTyped ==
    ASSUME TotalsAssumption, NEW some \in PricedRows
    PROVE  /\ Costed(some) \in SUBSET Lines /\ IsFiniteSet(Costed(some))
           /\ \A l \in Costed(some) : LineMargin(some[l]) \in Int
           /\ \A l \in Costed(some) : Money(LineMargin(some[l])) \in Int
<1>1. Costed(some) \in SUBSET Lines
  BY DEF Costed, PricedRows
<1>2. IsFiniteSet(Costed(some))
  BY <1>1, FS_Subset DEF TotalsAssumption
<1>3. ASSUME NEW l \in Costed(some)
      PROVE  LineMargin(some[l]) \in Int
  <2>1. some[l] \in Row /\ some[l].cost # NoCost
    BY <1>3, <1>1 DEF Costed, PricedRows
  <2>2. some[l].cost \in Nat /\ some[l].quantity \in Nat /\ some[l].amount \in Nat
    BY <2>1 DEF Row, TotalsAssumption
  <2>3. some[l].cost * some[l].quantity \in Nat
    BY <2>2, GrossNat
  <2> QED
    BY <2>2, <2>3 DEF LineMargin, Mills
<1>4. \A m \in Int : Money(m) \in Int
  BY DEF Money
<1> QED
  BY <1>1, <1>2, <1>3, <1>4

\* So is their sum.
LEMMA ShownTyped ==
    ASSUME TotalsAssumption, NEW some \in PricedRows
    PROVE  /\ ShownByLines(some) \in Int /\ ShownByRollup(some) \in Int
           /\ Cardinality(Costed(some)) \in Nat
<1> DEFINE exact == [l \in Costed(some) |-> LineMargin(some[l])]
           shown == [l \in Costed(some) |-> Money(LineMargin(some[l]))]
<1>1. IsFiniteSet(DOMAIN exact) /\ IsFiniteSet(DOMAIN shown)
  BY MarginsTyped
<1>2. SumOf(exact) \in Int /\ SumOf(shown) \in Int
  <2>1. \A l \in DOMAIN exact : exact[l] \in Int
    BY MarginsTyped
  <2>2. \A l \in DOMAIN shown : shown[l] \in Int
    BY MarginsTyped
  <2> HIDE DEF exact, shown
  <2> QED
    BY <1>1, <2>1, <2>2, SumTypes
<1>3. Money(SumOf(exact)) \in Int
  BY <1>2 DEF Money
<1>4. Cardinality(Costed(some)) \in Nat
  BY MarginsTyped, FS_CardinalityType
<1> QED
  BY <1>2, <1>3, <1>4 DEF ShownByLines, ShownByRollup

\* The database before anything was written.
LEMMA TypesInit == Init => TypeOK
BY DEF Init, TypeOK, NoView, NoTotals, NoEdit, Header, Rows

\* A document is created of the types of its columns.
LEMMA CreationTyped ==
    ASSUME TotalsInv, TypeOK, TotalsAssumption,
           CreateQuotation \/ CreateOrder \/ Convert \/ CreateFromCart
    PROVE  TypeOK'
<1>1. CASE CreateQuotation
  <2>1. PICK offers \in [Lines -> Offers] :
            /\ \A l \in Lines : Priceable(offers[l])
            /\ quotation' = Priced(offers)
            /\ offered' = Totals(Priced(offers), Rate)
            /\ quotedFine' = FineOf(offers)
    BY <1>1 DEF CreateQuotation
  <2>2. offers \in [Lines -> NewLine]
    BY <2>1 DEF TotalsAssumption
  <2>3. quotation' \in PricedRows /\ offered' \in Header /\ quotedFine' \in SUBSET Lines
    BY <2>1, <2>2, PricedSound, AmountsTyped DEF FineOf
  <2> QED
    BY <1>1, <2>3
       DEF TypeOK, CreateQuotation, PricedRows, Rows, editing, listening
<1>2. ASSUME NEW offers \in [Lines -> NewLine],
             NEW source \in {"offer", "cart", "fine_cart", "quotation"},
             CreateOrderFrom(offers, source), net' \in Nat
      PROVE  TypeOK'
  <2>1. rows' \in PricedRows /\ header' \in Header /\ fine' \in SUBSET Lines
    BY <1>2, PricedSound, AmountsTyped DEF CreateOrderFrom, FineOf
  <2> QED
    BY <1>2, <2>1 DEF TypeOK, CreateOrderFrom, PricedRows, Rows, editing, listening
<1>3. CASE CreateOrder
  <2>1. PICK offers \in [Lines -> Offers] : CreateOrderFrom(offers, "offer")
    BY <1>3 DEF CreateOrder
  <2>2. offers \in [Lines -> NewLine] /\ net' \in Nat
    BY <1>3 DEF TotalsAssumption, CreateOrder, TypeOK
  <2> QED
    BY <2>1, <2>2, <1>2
<1>4. CASE Convert
  <2> DEFINE offers == [l \in Lines |-> AsOffer(quotation[l])]
  <2>1. CreateOrderFrom(offers, "quotation") /\ net' \in Nat
    BY <1>4 DEF Convert, TypeOK
  <2>2. \A l \in Lines : quotation[l] \in Row /\ quotation[l].cost = NoCost
    BY <1>4 DEF Convert, TotalsInv, QuotedSound, PricedRows
  <2>3. offers \in [Lines -> NewLine]
    BY <2>2, PricedAgain
  <2> QED
    BY <2>1, <2>3, <1>2
<1>5. CASE CreateFromCart
  <2>1. PICK priced \in (SUBSET Lines) \ {{}} :
            \E cart \in [priced -> CartLines], source \in {"cart", "fine_cart"} :
                /\ CreateOrderFrom([l \in Lines |-> IF l \in priced THEN CartOffer(cart[l])
                                                    ELSE RewardOffer(1)], source)
                /\ net' = SumOf([l \in Lines |-> IF l \in priced THEN cart[l].net ELSE 0])
    BY <1>5 DEF CreateFromCart
  <2>2. PICK cart \in [priced -> CartLines], source \in {"cart", "fine_cart"} :
            /\ CreateOrderFrom([l \in Lines |-> IF l \in priced THEN CartOffer(cart[l])
                                                ELSE RewardOffer(1)], source)
            /\ net' = SumOf([l \in Lines |-> IF l \in priced THEN cart[l].net ELSE 0])
    BY <2>1
  <2> DEFINE offers == [l \in Lines |-> IF l \in priced THEN CartOffer(cart[l])
                                        ELSE RewardOffer(1)]
             nets == [l \in Lines |-> IF l \in priced THEN cart[l].net ELSE 0]
  <2>3. \A l \in priced : cart[l] \in PricedCartLine
    BY DEF TotalsAssumption
  <2>4. offers \in [Lines -> NewLine]
    BY <2>3, CartOffersAreNewLines
  <2>5. \A l \in Lines : nets[l] \in Nat
    BY <2>3 DEF PricedCartLine
  <2>6. IsFiniteSet(DOMAIN nets)
    BY DEF TotalsAssumption
  <2>7. net' \in Nat
    <3>1. DOMAIN nets = Lines /\ net' = SumOf(nets)
      BY <2>2
    <3> HIDE DEF nets
    <3> QED
      BY <2>5, <2>6, <3>1, SumTypes
  <2> HIDE DEF offers
  <2>8. CreateOrderFrom(offers, source)
    BY <2>2 DEF offers
  <2> QED
    BY <2>4, <2>7, <2>8, <1>2
<1> QED
  BY <1>1, <1>3, <1>4, <1>5

\* An edit writes a row and a header.
LEMMA EditTyped ==
    ASSUME TotalsInv, TypeOK, TotalsInv', TotalsAssumption, NEW c \in Callers,
           \/ \E l \in Lines, patch \in Patches : EditLine(c, l, patch)
           \/ SumUp(c) \/ CommitEdit(c) \/ RollBack(c)
    PROVE  TypeOK'
<1>1. ASSUME NEW d \in Callers, pc'[d] # "idle"
      PROVE  edit'[d].line \in Lines /\ edit'[d].row \in Row
  BY <1>1 DEF TotalsInv, EditSound, Editing
<1>2. header \in Header /\ NoTotals \in Header
  BY DEF TypeOK, Header, NoTotals
<1>3. ASSUME NEW l \in Lines, NEW patch \in Patches, EditLine(c, l, patch)
      PROVE  TypeOK'
  <2>1. /\ pc' \in [Callers -> {"idle", "sum", "commit"}]
        /\ summed' \in [Callers -> Header]
    BY <1>2, <1>3 DEF EditLine, TypeOK
  <2>2. \A d \in Callers : pc'[d] # "idle" => edit'[d].fine \in BOOLEAN
    <3>1. edit'[c].fine \in BOOLEAN
      <4> DEFINE asked == Effective(patch, rows[l])
                 row == [PricedRow(asked) EXCEPT !.cost = rows[l].cost]
                 kept == [row EXCEPT !.amount = rows[l].amount]
      <4>1. /\ DOMAIN edit = Callers
            /\ edit' = [edit EXCEPT ![c] =
                           IF Reprices(patch)
                           THEN [line |-> l, row |-> row, fine |-> Fine(asked.price)]
                           ELSE [line |-> l, row |-> kept, fine |-> l \in fine]]
        BY <1>3 DEF EditLine, TotalsInv, OneEdit
      <4>2. Fine(asked.price) \in BOOLEAN /\ (l \in fine) \in BOOLEAN
        BY DEF Fine
      <4> HIDE DEF asked, row, kept
      <4>3. \/ edit'[c] = [line |-> l, row |-> row, fine |-> Fine(asked.price)]
            \/ edit'[c] = [line |-> l, row |-> kept, fine |-> l \in fine]
        BY <4>1
      <4>4. edit'[c].fine = Fine(asked.price) \/ edit'[c].fine = (l \in fine)
        BY <4>3
      <4> QED
        BY <4>2, <4>4
    <3>2. \A d \in Callers \ {c} : pc'[d] = pc[d] /\ edit'[d] = edit[d]
      BY <1>3 DEF EditLine, TotalsInv, OneEdit, TypeOK
    <3> QED
      BY <3>1, <3>2 DEF TypeOK
  <2> QED
    BY <1>1, <1>3, <2>1, <2>2
       DEF EditLine, TypeOK, document, listening, history
<1>4. CASE SumUp(c)
  <2>1. Seen(c) \in PricedRows
    BY <1>4 DEF SumUp, Seen, TotalsInv, OneEdit, OrderSound, EditSound, Editing, PricedRows
  <2>2. summed' \in [Callers -> Header] /\ pc' \in [Callers -> {"idle", "sum", "commit"}]
    BY <1>4, <2>1, AmountsTyped DEF SumUp, TypeOK
  <2>3. \A d \in Callers : pc'[d] # "idle" => edit'[d].fine \in BOOLEAN
    BY <1>4 DEF SumUp, TypeOK
  <2> QED
    BY <1>1, <1>4, <2>2, <2>3 DEF SumUp, TypeOK, document, listening, history
<1>5. ASSUME Return(c)
      PROVE  /\ pc' \in [Callers -> {"idle", "sum", "commit"}]
             /\ summed' \in [Callers -> Header]
             /\ \A d \in Callers : pc'[d] # "idle" => edit'[d].fine \in BOOLEAN
  BY <1>2, <1>5 DEF Return, TypeOK, TotalsInv, OneEdit
<1>6. CASE CommitEdit(c)
  <2>1. /\ rows' \in Rows /\ header' \in Header /\ fine' \in SUBSET Lines
        /\ UNCHANGED <<quotation, offered, status, views, sink, breaches, quotedFine,
                       origin, net>>
    <3>1. status # "none"
      BY <1>6 DEF CommitEdit, TotalsInv, OneEdit, Editing
    <3>2. rows' \in PricedRows
      BY <1>6, <3>1 DEF CommitEdit, TotalsInv, OrderSound
    <3> QED
      BY <1>6, <3>2
         DEF CommitEdit, TypeOK, PricedRows, Rows, listening, TotalsInv, EditSound, Editing
  <2> QED
    BY <1>1, <1>5, <1>6, <2>1 DEF CommitEdit, TypeOK
<1>7. CASE RollBack(c)
  BY <1>1, <1>5, <1>7 DEF RollBack, TypeOK, document, listening, history
<1> QED
  BY <1>3, <1>4, <1>6, <1>7

\* The confirm, the event, the cancel.
LEMMA ConfirmTyped ==
    ASSUME TotalsInv, TypeOK, TotalsInv', Confirm \/ PublishConfirmed \/ Cancel
    PROVE  TypeOK'
<1>1. CASE Confirm
  <2>1. rows' \in Rows
    BY <1>1 DEF Confirm, TotalsInv, OrderSound, PricedRows, Rows
  <2>2. sink' \in [at : {"none", "pending", "heard"}, total : Nat]
    BY <1>1 DEF Confirm, TypeOK, Header
  <2> QED
    BY <1>1, <2>1, <2>2 DEF Confirm, TypeOK, editing, history
<1>2. CASE PublishConfirmed
  <2>1. sink' \in [at : {"none", "pending", "heard"}, total : Nat]
        /\ breaches' \in SUBSET Nat
    BY <1>2 DEF PublishConfirmed, TypeOK
  <2> QED
    BY <1>2, <2>1 DEF PublishConfirmed, TypeOK, document, editing, history
<1>3. CASE Cancel
  BY <1>3 DEF Cancel, TypeOK, editing, listening, history
<1> QED
  BY <1>1, <1>2, <1>3

\* What a view reads.
LEMMA ViewTyped ==
    ASSUME TotalsInv, TypeOK, TotalsAssumption, NEW v \in Viewers,
           views[v].at \in {"lines", "rollup"} => status # "none",
           ViewHeader(v) \/ ViewLines(v) \/ ViewRollup(v)
    PROVE  TypeOK'
<1> DEFINE View == [at : {"header", "lines", "rollup", "shown"},
                    status : {"none", "draft", "to_deliver_and_bill", "cancelled"},
                    costed : Nat, shown : Int, rollup : Int, counted : Nat]
<1>1. views \in [Viewers -> View] /\ status \in {"none", "draft", "to_deliver_and_bill", "cancelled"}
  BY DEF TypeOK
<1>2. CASE ViewHeader(v)
  <2>1. views' = [views EXCEPT ![v] = [views[v] EXCEPT !.at = "lines", !.status = status]]
    BY <1>1, <1>2 DEF ViewHeader
  <2>2. [views[v] EXCEPT !.at = "lines", !.status = status] \in View
    BY <1>1
  <2>3. views' \in [Viewers -> View]
    BY <1>1, <2>1, <2>2
  <2> QED
    BY <1>2, <2>3 DEF ViewHeader, TypeOK, document, editing, listening, history
<1>3. CASE ViewLines(v) \/ ViewRollup(v)
  <2>1. rows \in PricedRows
    BY <1>3 DEF ViewLines, ViewRollup, TotalsInv, OrderSound
  <2>2. /\ ShownByLines(rows) \in Int /\ ShownByRollup(rows) \in Int
        /\ Cardinality(Costed(rows)) \in Nat
    BY <2>1, ShownTyped
  <2>3. views' \in [Viewers -> View]
    BY <1>1, <1>3, <2>2 DEF ViewLines, ViewRollup
  <2> QED
    BY <1>3, <2>3 DEF ViewLines, ViewRollup, TypeOK, document, editing, listening, history
<1> QED
  BY <1>2, <1>3

-----------------------------------------------------------------------------
(* The views: what each of the three reads has seen is still what is there.*)

ViewSound(v) ==
    views[v].at # "header" /\ views[v].status # "draft" =>
        /\ status \notin {"none", "draft"}
        /\ views[v].at \in {"rollup", "shown"} =>
              /\ views[v].costed = Cardinality(Costed(rows))
              /\ views[v].shown = ShownByLines(rows)
        /\ views[v].at = "shown" =>
              /\ views[v].counted = Cardinality(Costed(rows))
              /\ views[v].rollup = ShownByRollup(rows)

\* An order that was found is there, draft or not.
ViewsSound ==
    \A v \in Viewers : ViewSound(v) /\ (views[v].at # "header" => status # "none")

FullInv == TotalsInv /\ TypeOK /\ ViewsSound

\* An order that is there stays there, and one that has left draft does not go back.
LEMMA StatusNeverForgets ==
    ASSUME [Next]_vars
    PROVE  /\ status # "none" => status' # "none"
           /\ status \notin {"none", "draft"} => status' \notin {"none", "draft"}
<1>1. CASE CreateOrder \/ Convert \/ CreateFromCart
  BY <1>1 DEF CreateOrder, Convert, CreateFromCart, CreateOrderFrom
<1>2. CASE Confirm \/ Cancel
  BY <1>2 DEF Confirm, Cancel
<1>3. CASE CreateQuotation \/ PublishConfirmed
  BY <1>3 DEF CreateQuotation, PublishConfirmed, document
<1>4. ASSUME NEW c \in Callers,
             \/ \E l \in Lines, patch \in Patches : EditLine(c, l, patch)
             \/ SumUp(c) \/ RollBack(c) \/ CommitEdit(c)
      PROVE  status' = status
  BY <1>4 DEF EditLine, SumUp, RollBack, CommitEdit, document
<1>5. ASSUME NEW v \in Viewers, ViewHeader(v) \/ ViewLines(v) \/ ViewRollup(v)
      PROVE  status' = status
  BY <1>5 DEF ViewHeader, ViewLines, ViewRollup, document
<1>6. CASE UNCHANGED vars
  BY <1>6 DEF vars, document
<1> QED
  BY <1>1, <1>2, <1>3, <1>4, <1>5, <1>6 DEF Next

\* A view that does not read: the freeze keeps what it has seen.
LEMMA ViewStands ==
    ASSUME TotalsInv, TotalsAssumption, [Next]_vars, NEW v \in Viewers, ViewSound(v),
           views[v].at # "header" => status # "none", views'[v] = views[v]
    PROVE  ViewSound(v)' /\ (views'[v].at # "header" => status' # "none")
<1>1. status \notin {"none", "draft"} => status' \notin {"none", "draft"} /\ rows' = rows
  BY FrozenStep, StatusNeverForgets
<1>2. status # "none" => status' # "none"
  BY StatusNeverForgets
<1> QED
  BY <1>1, <1>2 DEF ViewSound

\* A view that reads: what it finds is what is there.
LEMMA ViewReads ==
    ASSUME TypeOK, NEW v \in Viewers, ViewSound(v),
           views[v].at # "header" => status # "none",
           ViewHeader(v) \/ ViewLines(v) \/ ViewRollup(v)
    PROVE  /\ ViewSound(v)' /\ (views'[v].at # "header" => status' # "none")
           /\ \A w \in Viewers \ {v} : views'[w] = views[w]
<1> DEFINE view == views[v]
           View == [at : {"header", "lines", "rollup", "shown"},
                    status : {"none", "draft", "to_deliver_and_bill", "cancelled"},
                    costed : Nat, shown : Int, rollup : Int, counted : Nat]
<1>1. views \in [Viewers -> View] /\ view \in View
  BY DEF TypeOK
<1>2. UNCHANGED <<status, rows>>
  BY DEF ViewHeader, ViewLines, ViewRollup, document
<1>3. CASE ViewHeader(v)
  <2>1. /\ views'[v] = [view EXCEPT !.at = "lines", !.status = status]
        /\ status # "none" /\ \A w \in Viewers \ {v} : views'[w] = views[w]
    BY <1>1, <1>3 DEF ViewHeader
  <2>2. views'[v].at = "lines" /\ views'[v].status = status
    BY <1>1, <2>1
  <2> QED
    BY <1>2, <2>1, <2>2 DEF ViewSound
<1>4. CASE ViewLines(v)
  <2>1. /\ views'[v] = [view EXCEPT !.at = "rollup", !.costed = Cardinality(Costed(rows)),
                                    !.shown = ShownByLines(rows)]
        /\ view.at = "lines" /\ \A w \in Viewers \ {v} : views'[w] = views[w]
    BY <1>1, <1>4 DEF ViewLines
  <2>2. /\ views'[v].at = "rollup" /\ views'[v].status = view.status
        /\ views'[v].costed = Cardinality(Costed(rows))
        /\ views'[v].shown = ShownByLines(rows)
    BY <1>1, <2>1
  <2> QED
    BY <1>2, <2>1, <2>2 DEF ViewSound
<1>5. CASE ViewRollup(v)
  <2>1. /\ views'[v] = [view EXCEPT !.at = "shown", !.counted = Cardinality(Costed(rows)),
                                    !.rollup = ShownByRollup(rows)]
        /\ view.at = "rollup" /\ \A w \in Viewers \ {v} : views'[w] = views[w]
    BY <1>1, <1>5 DEF ViewRollup
  <2>2. /\ views'[v].at = "shown" /\ views'[v].status = view.status
        /\ views'[v].costed = view.costed /\ views'[v].shown = view.shown
        /\ views'[v].counted = Cardinality(Costed(rows))
        /\ views'[v].rollup = ShownByRollup(rows)
    BY <1>1, <2>1
  <2> QED
    BY <1>2, <2>1, <2>2 DEF ViewSound
<1> QED
  BY <1>3, <1>4, <1>5

\* Types and views, with every step.
LEMMA FullStep ==
    ASSUME FullInv, TotalsAssumption, [Next]_vars
    PROVE  FullInv'
<1>1. TotalsInv'
  BY TotalsStep DEF FullInv
<1> USE DEF FullInv
<1>2. ASSUME views' = views
      PROVE  ViewsSound'
  BY <1>2, ViewStands DEF ViewsSound
<1>3. CASE CreateQuotation \/ CreateOrder \/ Convert \/ CreateFromCart
  <2>1. TypeOK'
    BY <1>3, CreationTyped
  <2>2. views' = views
    BY <1>3 DEF CreateQuotation, CreateOrder, Convert, CreateFromCart, CreateOrderFrom
  <2> QED
    BY <1>1, <1>2, <2>1, <2>2
<1>4. CASE Confirm \/ PublishConfirmed \/ Cancel
  <2>1. TypeOK'
    BY <1>1, <1>4, ConfirmTyped
  <2>2. views' = views
    BY <1>4 DEF Confirm, PublishConfirmed, Cancel
  <2> QED
    BY <1>1, <1>2, <2>1, <2>2
<1>5. ASSUME NEW c \in Callers,
             \/ \E l \in Lines, patch \in Patches : EditLine(c, l, patch)
             \/ SumUp(c) \/ CommitEdit(c) \/ RollBack(c)
      PROVE  FullInv'
  <2>1. TypeOK'
    BY <1>1, <1>5, EditTyped
  <2>2. views' = views
    BY <1>5 DEF EditLine, SumUp, CommitEdit, RollBack
  <2> QED
    BY <1>1, <1>2, <2>1, <2>2
<1>6. ASSUME NEW v \in Viewers, ViewHeader(v) \/ ViewLines(v) \/ ViewRollup(v)
      PROVE  FullInv'
  <2>1. TypeOK'
    BY <1>6, ViewTyped DEF ViewsSound
  <2>2. ViewsSound'
    BY <1>6, ViewReads, ViewStands DEF ViewsSound
  <2> QED
    BY <1>1, <2>1, <2>2
<1>7. CASE UNCHANGED vars
  <2>1. TypeOK'
    BY <1>7 DEF TypeOK, vars, document, editing, listening, history
  <2> QED
    BY <1>1, <1>2, <1>7, <2>1 DEF vars
<1> QED
  BY <1>3, <1>4, <1>5, <1>6, <1>7 DEF Next

\* Figures, types and views, for ever.
LEMMA FullInvariance == Spec => []FullInv
<1>1. Init => FullInv
  <2>1. Init => ViewsSound
    BY DEF Init, ViewsSound, ViewSound, NoView
  <2> QED
    BY <2>1, TotalsInit, TypesInit DEF FullInv
<1>2. FullInv /\ [Next]_vars => FullInv'
  BY FullStep, TotalsAssumption
<1> QED
  BY <1>1, <1>2, PTL DEF Spec

\* No column, no header and no view is ever outside its type: no subtotal, tax or
\* amount gets negative, whatever is discounted, patched or summed.
THEOREM TotalsTypeCorrect == Spec => []TypeOK
<1>1. FullInv => TypeOK
  BY DEF FullInv
<1> QED
  BY <1>1, FullInvariance, PTL

\* The rollup of a document is within half a cent, and half a cent for each line that
\* has a cost, of what its lines show.
LEMMA MarginsAgree ==
    ASSUME TotalsAssumption, NEW some \in PricedRows
    PROVE  /\ 2 * (ShownByRollup(some) - ShownByLines(some)) <= Cardinality(Costed(some)) + 1
           /\ 2 * (ShownByLines(some) - ShownByRollup(some)) <= Cardinality(Costed(some)) + 1
<1> DEFINE D == Costed(some)
           exact == [l \in D |-> LineMargin(some[l])]
           shown == [l \in D |-> Money(LineMargin(some[l]))]
           margin == SumOf(exact)
           lines == SumOf(shown)
           rollup == Money(margin)
           n == Cardinality(D)
<1>1. IsFiniteSet(D) /\ exact \in [D -> Int] /\ shown \in [D -> Int]
  BY MarginsTyped
<1>2. \A m \in Int : 10 * Money(m) - m <= 5 /\ m - 10 * Money(m) <= 5
  BY DEF Money
<1>3. \A l \in D : 10 * shown[l] - exact[l] <= 5 /\ exact[l] - 10 * shown[l] <= 5
  BY <1>2, MarginsTyped
<1>4. 10 * lines - margin <= 5 * n /\ margin - 10 * lines <= 5 * n
  <2> HIDE DEF exact, shown, D
  <2> QED
    BY <1>1, <1>3, SumsWithin
<1>5. margin \in Int /\ lines \in Int
  <2>1. DOMAIN exact = D /\ DOMAIN shown = D
    OBVIOUS
  <2>2. \A l \in D : exact[l] \in Int /\ shown[l] \in Int
    BY MarginsTyped
  <2> HIDE DEF exact, shown, D
  <2> QED
    BY <1>1, <2>1, <2>2, SumTypes
<1>6. n \in Nat /\ rollup \in Int
  BY <1>5, ShownTyped DEF Money
<1>7. 10 * rollup - margin <= 5 /\ margin - 10 * rollup <= 5
  BY <1>2, <1>5
<1>8. ShownByRollup(some) = rollup /\ ShownByLines(some) = lines
  BY DEF ShownByRollup, ShownByLines
<1> HIDE DEF n, rollup, margin, lines
<1>9. 2 * (rollup - lines) <= n + 1 /\ 2 * (lines - rollup) <= n + 1
  BY <1>4, <1>5, <1>6, <1>7
<1> QED
  BY <1>8, <1>9 DEF n

\* A view that began on an order that is no draft: its three reads, which no lock holds
\* together, are of the same costs, and its rollup is its lines' but for the rounding.
THEOREM ViewsAgree == Spec => []ViewAgrees
<1>1. ASSUME FullInv, NEW v \in Viewers, views[v].at = "shown", views[v].status # "draft"
      PROVE  /\ views[v].counted = views[v].costed
             /\ 2 * (views[v].rollup - views[v].shown) <= views[v].costed + 1
             /\ 2 * (views[v].shown - views[v].rollup) <= views[v].costed + 1
  <2>1. /\ status \notin {"none", "draft"}
        /\ views[v].costed = Cardinality(Costed(rows)) /\ views[v].shown = ShownByLines(rows)
        /\ views[v].counted = Cardinality(Costed(rows))
        /\ views[v].rollup = ShownByRollup(rows)
    BY <1>1 DEF FullInv, ViewsSound, ViewSound
  <2>2. rows \in PricedRows
    BY <1>1, <2>1 DEF FullInv, TotalsInv, OrderSound
  <2> QED
    BY <2>1, <2>2, MarginsAgree, TotalsAssumption
<1>2. FullInv => ViewAgrees
  BY <1>1 DEF ViewAgrees
<1> QED
  BY <1>2, FullInvariance, PTL

-----------------------------------------------------------------------------
(* The cart.                                                               *)

\* A line that the pricer answered in whole cents comes to the pricer's net, and the
\* free goods to nothing.
LEMMA CartLineReproduced ==
    /\ \A line \in PricedCartLine :
          ~Fine(line.net) => Mills(Amount(CartOffer(line))) = line.net
    /\ Mills(Amount(RewardOffer(1))) = 0
<1>1. ASSUME NEW line \in PricedCartLine, ~Fine(line.net)
      PROVE  Mills(Amount(CartOffer(line))) = line.net
  <2> DEFINE worth == line.quantity * line.price
             gross == Mills(Money(worth))
             discount == IF gross > line.net THEN gross - line.net ELSE 0
  <2>1. line.net \in Nat /\ line.quantity \in Nat /\ line.price \in Nat
        /\ line.net <= worth
    BY DEF PricedCartLine
  <2>2. worth \in Nat
    BY <2>1, GrossNat
  <2>3. Amount(CartOffer(line)) = Money(worth) - Money(discount)
    BY DEF Amount, Gross, CartOffer
  <2> HIDE DEF worth
  <2>4. Money(worth) \in Nat /\ gross >= line.net
    BY <2>1, <2>2, <1>1 DEF Money, Mills, Fine
  <2>5. discount = 10 * Money(worth) - line.net
    BY <2>1, <2>4 DEF Mills
  <2>6. 10 * Money(discount) = discount
    BY <2>1, <2>4, <2>5, <1>1 DEF Money, Fine, Mills
  <2>7. Money(discount) \in Int
    BY <2>1, <2>4, <2>5 DEF Money
  <2> HIDE DEF discount, gross
  <2> QED
    BY <2>1, <2>3, <2>4, <2>5, <2>6, <2>7 DEF Mills
<1>2. Mills(Amount(RewardOffer(1))) = 0
  BY DEF Amount, Gross, RewardOffer, Money, Mills
<1> QED
  BY <1>1, <1>2

\* Of an order made from a cart, the untaxed total is the cart's, to the mill.
THEOREM CartsReproduced == Spec => CartReproduced
<1>1. ASSUME TotalsInv, TotalsAssumption, [Next]_vars, origin = "none", origin' = "cart"
      PROVE  Mills(header'.subtotal) = net'
  <2>1. CreateFromCart
    BY <1>1 DEF Next, vars, history, CreateQuotation, CreateOrder, Convert,
           CreateOrderFrom, Confirm, PublishConfirmed, Cancel, EditLine, SumUp,
           CommitEdit, RollBack, ViewHeader, ViewLines, ViewRollup
  <2>2. PICK priced \in (SUBSET Lines) \ {{}} :
            \E cart \in [priced -> CartLines] :
                /\ CreateOrderFrom([l \in Lines |-> IF l \in priced THEN CartOffer(cart[l])
                                                    ELSE RewardOffer(1)],
                                   IF \E l \in priced : Fine(cart[l].net)
                                   THEN "fine_cart" ELSE "cart")
                /\ net' = SumOf([l \in Lines |-> IF l \in priced THEN cart[l].net ELSE 0])
    BY <2>1 DEF CreateFromCart
  <2>3. PICK cart \in [priced -> CartLines] :
            /\ CreateOrderFrom([l \in Lines |-> IF l \in priced THEN CartOffer(cart[l])
                                                ELSE RewardOffer(1)],
                               IF \E l \in priced : Fine(cart[l].net)
                               THEN "fine_cart" ELSE "cart")
            /\ net' = SumOf([l \in Lines |-> IF l \in priced THEN cart[l].net ELSE 0])
    BY <2>2
  <2> DEFINE offers == [l \in Lines |-> IF l \in priced THEN CartOffer(cart[l])
                                        ELSE RewardOffer(1)]
             nets == [l \in Lines |-> IF l \in priced THEN cart[l].net ELSE 0]
             amounts == Amounts(Priced(offers))
  <2>4. \A l \in priced : cart[l] \in PricedCartLine /\ ~Fine(cart[l].net)
    BY <1>1, <2>3 DEF TotalsAssumption, CreateOrderFrom
  <2>5. offers \in [Lines -> NewLine]
    BY <2>4, CartOffersAreNewLines
  <2>6. header' = Totals(Priced(offers), Rate) /\ \A l \in Lines : Priceable(offers[l])
    BY <2>3 DEF CreateOrderFrom
  <2>7. Priced(offers) \in PricedRows
    <3> HIDE DEF offers
    <3> QED
      BY <2>5, <2>6, PricedSound
  <2>8. \A l \in Lines : amounts[l] = Amount(offers[l])
    BY DEF Amounts, Priced, PricedRow
  <2>9. amounts \in [Lines -> Nat]
    BY <2>7, AmountsTyped, <1>1
  <2>10. ASSUME NEW l \in Lines
         PROVE  10 * amounts[l] = nets[l]
    <3>1. CASE l \in priced
      BY <2>4, <2>8, <3>1, CartLineReproduced DEF Mills
    <3>2. CASE l \notin priced
      BY <2>8, <3>2, CartLineReproduced DEF Mills
    <3> QED
      BY <3>1, <3>2
  <2>11. nets \in [Lines -> Int] /\ amounts \in [Lines -> Int]
    <3>1. \A l \in Lines : nets[l] \in Int
      BY <2>4 DEF PricedCartLine
    <3> QED
      BY <2>9, <3>1
  <2>12. IsFiniteSet(Lines)
    BY <1>1 DEF TotalsAssumption
  <2>13. 10 * SumOf(amounts) = SumOf(nets)
    <3> HIDE DEF amounts, nets
    <3>1. \A l \in Lines : 10 * amounts[l] - nets[l] <= 0 /\ nets[l] - 10 * amounts[l] <= 0
      BY <2>10, <2>11
    <3>2. /\ 10 * SumOf(amounts) - SumOf(nets) <= 0 * Cardinality(Lines)
          /\ SumOf(nets) - 10 * SumOf(amounts) <= 0 * Cardinality(Lines)
      BY <2>11, <2>12, <3>1, SumsWithin
    <3>3. SumOf(amounts) \in Int /\ SumOf(nets) \in Int
      BY <2>11, <2>12, SumTypes
    <3>4. Cardinality(Lines) \in Nat
      BY <2>12, FS_CardinalityType
    <3> QED
      BY <3>2, <3>3, <3>4
  <2>14. header'.subtotal = SumOf(amounts)
    BY <2>6 DEF Totals, Subtotal
  <2>15. net' = SumOf(nets)
    BY <2>3
  <2> QED
    BY <2>13, <2>14, <2>15 DEF Mills
<1>2. TotalsInv /\ [Next]_vars
      => [origin = "none" /\ origin' = "cart" => Mills(header'.subtotal) = net']_vars
  BY <1>1, TotalsAssumption
<1> QED
  BY FiguresSound, <1>2, PTL DEF Spec, CartReproduced
=============================================================================
