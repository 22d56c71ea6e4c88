------------------------ MODULE DeliveryOutboxProofs ------------------------
(***************************************************************************)
(* Proofs about DeliveryOutbox, for any lines, callers and quantities,     *)
(* deaths anywhere, and any number of requests, deliveries and repeats.    *)
(*                                                                         *)
(* A request is made of two reads, and the outbox holds it after a third   *)
(* statement.  That it still covers the order then (RequestsCover) rests   *)
(* on the draft check alone: no call is under way on a draft (NoDraftCall) *)
(* and nothing changes a quantity any more, so what a call has read covers *)
(* the order at any later moment (AskedCovers).                            *)
(***************************************************************************)
EXTENDS DeliveryOutbox, SequenceTheorems, TLAPS

NoDraftCall ==
    status = "draft" => /\ outbox = <<>>
                        /\ \A c \in Callers : pc[c] = "idle"

Covers(request) ==
    \A l \in Lines : quantity[l] - delivered[l] <= request[l] /\ request[l] <= quantity[l]

AskedCovers == \A c \in Callers : pc[c] = "stage" => Covers(asked[c])

\* A call about to publish has its record in the outbox.
RecordStaged == \A c \in Callers : pc[c] = "publish" => record[c] \in DOMAIN outbox

OutboxInv ==
    /\ TypeOK /\ NoDraftCall /\ AskedCovers /\ RecordStaged
    /\ HeardIsStaged /\ RequestsCover

-----------------------------------------------------------------------------
\* Appending a record keeps the earlier ones.
LEMMA AppendRecord ==
  ASSUME TypeOK, NEW r \in [Lines -> Nat], outbox' = Append(outbox, r)
  PROVE  /\ outbox' \in Seq([Lines -> Nat]) /\ Len(outbox') = Len(outbox) + 1
         /\ Len(outbox) \in Nat
         /\ DOMAIN outbox' = DOMAIN outbox \cup {Len(outbox) + 1}
         /\ outbox'[Len(outbox) + 1] = r
         /\ \A j \in DOMAIN outbox : outbox'[j] = outbox[j]
<1>1. outbox \in Seq([Lines -> Nat]) /\ Len(outbox) \in Nat /\ DOMAIN outbox = 1..Len(outbox)
  BY DEF TypeOK
<1>2. /\ outbox' \in Seq([Lines -> Nat]) /\ Len(outbox') = Len(outbox) + 1
      /\ outbox'[Len(outbox) + 1] = r
      /\ \A j \in 1..Len(outbox) : outbox'[j] = outbox[j]
  BY <1>1, AppendProperties
<1>3. DOMAIN outbox' = 1..(Len(outbox) + 1)
  BY <1>2
<1>4. QED
  BY <1>1, <1>2, <1>3

\* What is handled stays among the records.
LEMMA HandledGrows ==
  ASSUME NEW S, NEW T, S \subseteq T, NEW s \in Seq(S)
  PROVE  s \in Seq(T)
OBVIOUS

LEMMA OneMore ==
  ASSUME NEW S, NEW s \in Seq(S), NEW e \in S
  PROVE  Append(s, e) \in Seq(S)
OBVIOUS

LEMMA OutboxInit == OutboxAssumption /\ Init => OutboxInv
<1> SUFFICES ASSUME OutboxAssumption, Init PROVE OutboxInv
  OBVIOUS
<1>0. quantity \in [Lines -> Nat]
  BY DEF Init, OutboxAssumption
<1>e. DOMAIN outbox = {}
  BY DEF Init
<1>1. DOMAIN outbox = {} /\ quantity \in [Lines -> Nat]
  BY <1>0, <1>e
<1>2. TypeOK
  <2>1. outbox \in Seq([Lines -> Nat]) /\ handled \in Seq(DOMAIN outbox)
    BY DEF Init
  <2>2. dispatched \in SUBSET (DOMAIN outbox)
    BY DEF Init
  <2>3. Nothing \in [Lines -> Nat]
    BY DEF Nothing
  <2>4. QED
    BY <2>1, <2>2, <2>3 DEF Init, TypeOK, Statuses
<1>3. NoDraftCall /\ AskedCovers /\ RecordStaged /\ HeardIsStaged /\ RequestsCover
  BY <1>1 DEF Init, NoDraftCall, AskedCovers, RecordStaged, HeardIsStaged, RequestsCover
<1>4. QED
  BY <1>2, <1>3 DEF OutboxInv

\* The order's own verbs: edits come before every request, and deliveries only
\* take away from what is left.
LEMMA OrderKeeps ==
  ASSUME OutboxAssumption, OutboxInv,
         Confirm \/ Cancel \/ \E l \in Lines : EditLine(l) \/ Deliver(l)
  PROVE  OutboxInv'
<1>0. /\ TypeOK /\ quantity \in [Lines -> Nat] /\ delivered \in [Lines -> Nat]
      /\ asked \in [Callers -> [Lines -> Nat]]
      /\ \A r \in DOMAIN outbox : outbox[r] \in [Lines -> Nat]
  <2>1. TypeOK
    BY DEF OutboxInv
  <2>2. outbox \in Seq([Lines -> Nat])
    BY <2>1 DEF TypeOK
  <2>3. \A r \in DOMAIN outbox : outbox[r] \in [Lines -> Nat]
    BY <2>2
  <2>4. QED
    BY <2>1, <2>3 DEF TypeOK, OutboxAssumption
<1>1. UNCHANGED <<outbox, dispatched, handled, heard, pc, asked, record>>
  BY DEF Confirm, Cancel, EditLine, Deliver, calls
<1>2. CASE Confirm \/ Cancel
  BY <1>1, <1>2 DEF Confirm, Cancel, OutboxInv, TypeOK, Statuses, NoDraftCall,
     AskedCovers, Covers, RecordStaged, HeardIsStaged, RequestsCover
<1>3. ASSUME NEW l \in Lines, EditLine(l) PROVE OutboxInv'
  <2>1. /\ status = "draft" /\ status' = status /\ delivered' = delivered
        /\ quantity' \in [Lines -> Quantities]
    BY <1>0, <1>3 DEF EditLine, TypeOK
  <2>2. DOMAIN outbox = {} /\ \A c \in Callers : pc[c] = "idle"
    BY <2>1 DEF OutboxInv, NoDraftCall
  <2>3. TypeOK'
    BY <1>0, <1>1, <2>1 DEF TypeOK
  <2>4. QED
    BY <1>1, <2>1, <2>2, <2>3
       DEF OutboxInv, NoDraftCall, AskedCovers, RecordStaged, HeardIsStaged, RequestsCover
<1>4. ASSUME NEW l \in Lines, Deliver(l) PROVE OutboxInv'
  <2>1. PICK q \in 1..(quantity[l] - delivered[l]) :
            delivered' = [delivered EXCEPT ![l] = delivered[l] + q]
    BY <1>4 DEF Deliver
  <2>2. UNCHANGED <<status, quantity>>
    BY <1>4 DEF Deliver
  <2>3. /\ delivered' \in [Lines -> Nat]
        /\ \A k \in Lines : delivered[k] <= delivered'[k]
    BY <1>0, <2>1
  <2>4. TypeOK'
    BY <1>0, <1>1, <2>2, <2>3 DEF TypeOK
  <2>5. \A c \in Callers : Covers(asked[c]) => Covers(asked[c])'
    BY <1>0, <1>1, <2>2, <2>3 DEF Covers
  <2>6. AskedCovers' /\ RequestsCover'
    BY <1>0, <1>1, <2>2, <2>3, <2>5 DEF OutboxInv, AskedCovers, RequestsCover
  <2>7. QED
    BY <1>1, <2>2, <2>4, <2>6 DEF OutboxInv, NoDraftCall, RecordStaged, HeardIsStaged
<1>5. QED
  BY <1>2, <1>3, <1>4

\* The two reads of a call, and its end.
LEMMA ReadsKeep ==
  ASSUME OutboxAssumption, OutboxInv, NEW c \in Callers,
         ReadHeader(c) \/ ReadRemainders(c) \/ Publish(c) \/ Fail(c)
  PROVE  OutboxInv'
<1>0. /\ TypeOK /\ quantity \in [Lines -> Nat] /\ delivered \in [Lines -> Nat]
      /\ asked \in [Callers -> [Lines -> Nat]] /\ Nothing \in [Lines -> Nat]
      /\ \A r \in DOMAIN outbox : r \in Nat
  <2>1. TypeOK /\ Nothing \in [Lines -> Nat]
    BY DEF OutboxInv, Nothing
  <2>2. DOMAIN outbox = 1..Len(outbox)
    BY <2>1 DEF TypeOK
  <2>3. \A r \in DOMAIN outbox : r \in Nat
    BY <2>2
  <2>4. quantity \in [Lines -> Nat] /\ delivered \in [Lines -> Nat]
        /\ asked \in [Callers -> [Lines -> Nat]]
    BY <2>1 DEF TypeOK, OutboxAssumption
  <2>5. QED
    BY <2>1, <2>3, <2>4
<1>1. /\ status' = status /\ quantity' = quantity /\ delivered' = delivered
      /\ outbox' = outbox /\ dispatched' = dispatched /\ handled' = handled
  BY DEF ReadHeader, ReadRemainders, Publish, Fail, Return, order
<1>2. RequestsCover'
  BY <1>1 DEF OutboxInv, RequestsCover
<1>3. CASE ReadHeader(c)
  <2>1. /\ status # "draft" /\ pc' = [pc EXCEPT ![c] = "remainders"]
        /\ heard' = heard /\ asked' = asked /\ record' = record
    BY <1>3 DEF ReadHeader, Goto
  <2>2. TypeOK'
    BY <1>0, <1>1, <2>1 DEF TypeOK
  <2>3. QED
    BY <1>0, <1>1, <1>2, <2>1, <2>2
       DEF OutboxInv, TypeOK, NoDraftCall, AskedCovers, Covers, RecordStaged, HeardIsStaged
<1>4. CASE ReadRemainders(c)
  <2> DEFINE rest == [l \in Lines |-> Remainder(l)]
  <2>1. /\ pc[c] = "remainders" /\ pc' = [pc EXCEPT ![c] = "stage"]
        /\ asked' = [asked EXCEPT ![c] = rest]
        /\ heard' = heard /\ record' = record
    BY <1>4 DEF ReadRemainders, Goto
  <2>2. status # "draft"
    BY <2>1 DEF OutboxInv, NoDraftCall
  <2>3. \A l \in Lines : /\ Remainder(l) \in Nat /\ Remainder(l) <= quantity[l]
                         /\ quantity[l] - delivered[l] <= Remainder(l)
    BY <1>0 DEF Remainder
  <2>4. rest \in [Lines -> Nat]
    BY <2>3
  <2>5. Covers(rest)
    BY <2>3 DEF Covers
  <2>6. TypeOK'
    <3>1. asked' \in [Callers -> [Lines -> Nat]]
      BY <1>0, <2>1, <2>4
    <3>2. pc' \in [Callers -> {"idle", "remainders", "stage", "publish"}]
      BY <1>0, <2>1 DEF TypeOK
    <3>3. QED
      BY <1>0, <1>1, <2>1, <3>1, <3>2 DEF TypeOK
  <2>7. AskedCovers'
    <3>1. ASSUME NEW d \in Callers, pc'[d] = "stage" PROVE Covers(asked'[d])
      <4>1. CASE d = c
        <5>1. asked'[d] = rest
          BY <1>0, <2>1, <4>1
        <5>2. QED
          BY <2>5, <5>1
      <4>2. CASE d # c
        BY <1>0, <2>1, <3>1, <4>2 DEF OutboxInv, AskedCovers, TypeOK
      <4>3. QED
        BY <4>1, <4>2
    <3>2. QED
      BY <1>1, <3>1 DEF AskedCovers, Covers
  <2>8. QED
    BY <1>0, <1>1, <1>2, <2>1, <2>2, <2>6, <2>7
       DEF OutboxInv, TypeOK, NoDraftCall, RecordStaged, HeardIsStaged
<1>5. CASE Publish(c) \/ Fail(c)
  <2>1. /\ pc[c] # "idle" /\ pc' = [pc EXCEPT ![c] = "idle"]
        /\ asked' = [asked EXCEPT ![c] = Nothing] /\ record' = [record EXCEPT ![c] = 0]
    BY <1>5 DEF Publish, Fail, Return
  <2>2. status # "draft"
    BY <2>1 DEF OutboxInv, NoDraftCall
  <2>3. heard' = heard \/ (pc[c] = "publish" /\ heard' = heard \cup {record[c]})
    BY <1>5 DEF Publish, Fail
  <2>4. HeardIsStaged'
    BY <1>1, <2>3 DEF OutboxInv, HeardIsStaged, RecordStaged
  <2>5. TypeOK'
    <3>1. asked' \in [Callers -> [Lines -> Nat]] /\ record' \in [Callers -> Nat]
      BY <1>0, <2>1 DEF TypeOK
    <3>2. pc' \in [Callers -> {"idle", "remainders", "stage", "publish"}]
      BY <1>0, <2>1 DEF TypeOK
    <3>3. heard' \in SUBSET Nat
      BY <1>0, <1>1, <2>4 DEF HeardIsStaged
    <3>4. QED
      BY <1>0, <1>1, <3>1, <3>2, <3>3 DEF TypeOK
  <2>6. AskedCovers' /\ RecordStaged'
    BY <1>0, <1>1, <2>1 DEF OutboxInv, TypeOK, AskedCovers, Covers, RecordStaged
  <2>7. NoDraftCall'
    BY <1>1, <2>2 DEF NoDraftCall
  <2>8. QED
    BY <1>2, <2>4, <2>5, <2>6, <2>7 DEF OutboxInv
<1>6. QED
  BY <1>3, <1>4, <1>5

\* The outbox transaction.
LEMMA StageKeeps ==
  ASSUME OutboxAssumption, OutboxInv, NEW c \in Callers, Stage(c)
  PROVE  OutboxInv'
<1>0. /\ TypeOK /\ quantity \in [Lines -> Nat] /\ delivered \in [Lines -> Nat]
      /\ asked[c] \in [Lines -> Nat]
  BY DEF OutboxInv, TypeOK, OutboxAssumption
<1>1. /\ status' = status /\ quantity' = quantity /\ delivered' = delivered
      /\ dispatched' = dispatched /\ handled' = handled /\ heard' = heard
      /\ asked' = asked /\ outbox' = Append(outbox, asked[c])
      /\ pc[c] = "stage" /\ pc' = [pc EXCEPT ![c] = "publish"]
      /\ record' = [record EXCEPT ![c] = Len(outbox')]
  BY DEF Stage, Goto, order
<1>2. /\ outbox' \in Seq([Lines -> Nat]) /\ Len(outbox') = Len(outbox) + 1
      /\ Len(outbox) \in Nat
      /\ DOMAIN outbox' = DOMAIN outbox \cup {Len(outbox) + 1}
      /\ outbox'[Len(outbox) + 1] = asked[c]
      /\ \A j \in DOMAIN outbox : outbox'[j] = outbox[j]
  BY <1>0, <1>1, AppendRecord
<1>3. TypeOK'
  <2>1. DOMAIN outbox \subseteq DOMAIN outbox'
    BY <1>2
  <2>2. handled' \in Seq(DOMAIN outbox')
    BY <1>0, <1>1, <2>1, HandledGrows DEF TypeOK
  <2>3. dispatched' \in SUBSET (DOMAIN outbox')
    BY <1>0, <1>1, <2>1 DEF TypeOK
  <2>4. record' \in [Callers -> Nat]
    BY <1>0, <1>1, <1>2 DEF TypeOK
  <2>5. pc' \in [Callers -> {"idle", "remainders", "stage", "publish"}]
    BY <1>0, <1>1 DEF TypeOK
  <2>6. QED
    BY <1>0, <1>1, <1>2, <2>2, <2>3, <2>4, <2>5 DEF TypeOK
<1>4. status # "draft"
  BY <1>1 DEF OutboxInv, NoDraftCall
<1>5. Covers(asked[c])
  BY <1>1 DEF OutboxInv, AskedCovers
<1>6. RequestsCover'
  BY <1>1, <1>2, <1>5 DEF OutboxInv, RequestsCover, Covers
<1>7. AskedCovers'
  BY <1>0, <1>1 DEF OutboxInv, TypeOK, AskedCovers, Covers
<1>8. RecordStaged'
  <2>1. ASSUME NEW d \in Callers, pc'[d] = "publish" PROVE record'[d] \in DOMAIN outbox'
    <3>1. CASE d = c
      <4>1. record'[d] = Len(outbox) + 1
        BY <1>0, <1>1, <1>2, <3>1 DEF TypeOK
      <4>2. QED
        BY <1>2, <4>1
    <3>2. CASE d # c
      <4>1. pc[d] = "publish" /\ record'[d] = record[d]
        BY <1>0, <1>1, <2>1, <3>2 DEF TypeOK
      <4>2. QED
        BY <1>2, <4>1 DEF OutboxInv, RecordStaged
    <3>3. QED
      BY <3>1, <3>2
  <2>2. QED
    BY <2>1 DEF RecordStaged
<1>9. HeardIsStaged' /\ NoDraftCall'
  BY <1>1, <1>2, <1>4 DEF OutboxInv, HeardIsStaged, NoDraftCall
<1>10. QED
  BY <1>3, <1>6, <1>7, <1>8, <1>9 DEF OutboxInv

\* The relay moves neither the order nor the records.
LEMMA RelayKeeps ==
  ASSUME OutboxAssumption, OutboxInv, NEW r \in DOMAIN outbox, Relay(r)
  PROVE  OutboxInv'
<1>1. /\ status' = status /\ quantity' = quantity /\ delivered' = delivered
      /\ outbox' = outbox /\ heard' = heard /\ pc' = pc /\ asked' = asked /\ record' = record
  BY DEF Relay, HandOver, MarkDispatched, order, calls
<1>2. dispatched' = dispatched \/ dispatched' = dispatched \cup {r}
  BY DEF Relay, HandOver, MarkDispatched
<1>3. handled' = handled \/ handled' = Append(handled, r)
  BY DEF Relay, HandOver, MarkDispatched
<1>4. handled' \in Seq(DOMAIN outbox)
  <2>1. handled \in Seq(DOMAIN outbox)
    BY DEF OutboxInv, TypeOK
  <2>2. Append(handled, r) \in Seq(DOMAIN outbox)
    BY <2>1, OneMore
  <2>3. QED
    BY <1>3, <2>1, <2>2
<1>5. TypeOK'
  BY <1>1, <1>2, <1>4 DEF OutboxInv, TypeOK
<1>6. QED
  BY <1>1, <1>5 DEF OutboxInv, NoDraftCall, AskedCovers, Covers, RecordStaged,
                    HeardIsStaged, RequestsCover

LEMMA OutboxStep == OutboxAssumption /\ OutboxInv /\ [Next]_vars => OutboxInv'
<1> SUFFICES ASSUME OutboxAssumption, OutboxInv, [Next]_vars PROVE OutboxInv'
  OBVIOUS
<1>1. CASE Confirm \/ Cancel \/ \E l \in Lines : EditLine(l) \/ Deliver(l)
  BY <1>1, OrderKeeps
<1>2. CASE \E c \in Callers : ReadHeader(c) \/ ReadRemainders(c) \/ Publish(c) \/ Fail(c)
  BY <1>2, ReadsKeep
<1>3. CASE \E c \in Callers : Stage(c)
  BY <1>3, StageKeeps
<1>4. CASE \E r \in DOMAIN outbox : Relay(r)
  BY <1>4, RelayKeeps
<1>5. CASE UNCHANGED vars
  <2>1. UNCHANGED <<status, quantity, delivered, outbox, dispatched, handled, heard,
                    pc, asked, record>>
    BY <1>5 DEF vars, order, calls
  <2>2. QED
    BY <2>1 DEF OutboxInv, TypeOK, NoDraftCall, AskedCovers, Covers, RecordStaged,
                HeardIsStaged, RequestsCover
<1>6. QED
  BY <1>1, <1>2, <1>3, <1>4, <1>5 DEF Next, Continue

LEMMA OutboxInvariant ==
  ASSUME OutboxAssumption PROVE Spec => []OutboxInv
<1>1. Init => OutboxInv
  BY OutboxInit
<1>2. OutboxInv /\ [Next]_vars => OutboxInv'
  BY OutboxStep
<1>3. QED
  BY <1>1, <1>2, PTL DEF Spec

\* The types, for any number of callers, records and deaths: what a request asks
\* for is never negative, and only staged records are handled or marked.
THEOREM OutboxTypeCorrect ==
  ASSUME OutboxAssumption PROVE Spec => []TypeOK
<1>1. OutboxInv => TypeOK
  BY DEF OutboxInv
<1>2. QED
  BY <1>1, OutboxInvariant, PTL

\* "a crash between here and the in-proc publish must not drop it": what the fast
\* path has announced is staged, with the record it announced, wherever a call dies.
THEOREM AnnouncedIsStaged ==
  ASSUME OutboxAssumption PROVE Spec => []HeardIsStaged
<1>1. OutboxInv => HeardIsStaged
  BY DEF OutboxInv
<1>2. QED
  BY <1>1, OutboxInvariant, PTL

\* The header and the remainders are read apart, while deliveries go on: every
\* staged request still covers what is left of the order, and never more than it.
THEOREM RequestsCoverTheOrder ==
  ASSUME OutboxAssumption PROVE Spec => []RequestsCover
<1>1. OutboxInv => RequestsCover
  BY DEF OutboxInv
<1>2. QED
  BY <1>1, OutboxInvariant, PTL

-----------------------------------------------------------------------------
(* The refinement: the call's three statements are one Request, which      *)
(* happens when the record commits; the relay's marks and the in-process   *)
(* publish are stutters.                                                   *)

LEMMA PromisedInit == Init => Promised!Init
BY DEF Init, Promised!Init, Nothing

\* A verb of the order.
LEMMA PromisedOrder ==
  ASSUME OutboxAssumption, OutboxInv,
         Confirm \/ Cancel \/ \E l \in Lines : EditLine(l) \/ Deliver(l)
  PROVE  Promised!Next
<1>1. outbox' = outbox /\ handled' = handled
  BY DEF Confirm, Cancel, EditLine, Deliver
<1>2. CASE Confirm \/ Cancel
  BY <1>1, <1>2 DEF Confirm, Cancel, Promised!Next, Promised!Move
<1>3. ASSUME NEW l \in Lines, EditLine(l) PROVE Promised!Next
  <2>1. quantity' \in [Lines -> Quantities]
    BY <1>3 DEF EditLine, OutboxInv, TypeOK
  <2>2. QED
    BY <1>1, <1>3, <2>1 DEF EditLine, Promised!Next, Promised!Edit
<1>4. ASSUME NEW l \in Lines, Deliver(l) PROVE Promised!Next
  BY <1>1, <1>4 DEF Deliver, Promised!Next, Promised!Deliver
<1>5. QED
  BY <1>2, <1>3, <1>4

\* The outbox transaction: what the call read is a request that covers the order.
LEMMA PromisedStage ==
  ASSUME OutboxAssumption, OutboxInv, NEW c \in Callers, Stage(c)
  PROVE  Promised!Next
<1>1. /\ pc[c] = "stage" /\ outbox' = Append(outbox, asked[c])
      /\ status' = status /\ quantity' = quantity /\ delivered' = delivered
      /\ handled' = handled
  BY DEF Stage, order
<1>2. status # "draft" /\ Covers(asked[c])
  BY <1>1 DEF OutboxInv, NoDraftCall, AskedCovers
<1>3. asked[c] \in [Lines -> Nat] /\ quantity \in [Lines -> Nat]
  BY DEF OutboxInv, TypeOK, OutboxAssumption
<1>4. \A l \in Lines : asked[c][l] \in 0..quantity[l]
  BY <1>2, <1>3 DEF Covers
<1>5. asked[c] \in [Lines -> UNION {0..quantity[l] : l \in Lines}]
  BY <1>3, <1>4
<1>6. Promised!Covers(asked[c])
  BY <1>2 DEF Covers, Promised!Covers
<1>7. Promised!Request
  BY <1>1, <1>2, <1>5, <1>6 DEF Promised!Request
<1>8. QED
  BY <1>7 DEF Promised!Next

\* The relay: a record is handed over for the first time, or only marked.
LEMMA PromisedRelay ==
  ASSUME NEW r \in DOMAIN outbox, Relay(r)
  PROVE  Promised!Next \/ UNCHANGED Promised!vars
<1>1. CASE HandOver(r)
  <2>1. Promised!Handle(r)
    BY <1>1 DEF HandOver, order, Promised!Handle, Contains, Promised!Contains
  <2>2. QED
    BY <2>1 DEF Promised!Next
<1>2. CASE MarkDispatched(r)
  BY <1>2 DEF MarkDispatched, order, Promised!vars
<1>3. QED
  BY <1>1, <1>2 DEF Relay

\* The relayed outbox implements requests that are each handled once and that
\* cover the order when they are made.
THEOREM OutboxImplementsRequests ==
  ASSUME OutboxAssumption PROVE Spec => ImplementsRequests
<1>1. Init => Promised!Init
  BY PromisedInit
<1>2. OutboxInv /\ [Next]_vars => [Promised!Next]_Promised!vars
  <2> SUFFICES ASSUME OutboxInv, [Next]_vars PROVE Promised!Next \/ UNCHANGED Promised!vars
    OBVIOUS
  <2>1. CASE Confirm \/ Cancel \/ \E l \in Lines : EditLine(l) \/ Deliver(l)
    BY <2>1, PromisedOrder
  <2>2. CASE \E c \in Callers : Stage(c)
    BY <2>2, PromisedStage
  <2>3. CASE \E r \in DOMAIN outbox : Relay(r)
    BY <2>3, PromisedRelay
  <2>4. CASE \E c \in Callers : ReadHeader(c) \/ ReadRemainders(c) \/ Publish(c) \/ Fail(c)
    BY <2>4 DEF ReadHeader, ReadRemainders, Publish, Fail, order, Promised!vars
  <2>5. CASE UNCHANGED vars
    BY <2>5 DEF vars, order, Promised!vars
  <2>6. QED
    BY <2>1, <2>2, <2>3, <2>4, <2>5 DEF Next, Continue
<1>3. QED
  BY <1>1, <1>2, OutboxInvariant, PTL DEF Spec, ImplementsRequests, Promised!Spec
=============================================================================
