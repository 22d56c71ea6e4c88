----------------------- MODULE CarrierRegistryProofs -----------------------
(***************************************************************************)
(* Proofs about CarrierRegistry, for any callers, names, pool and number   *)
(* of rows.                                                                *)
(*                                                                         *)
(* With the decorator the index alone keeps names apart.  Without it, what *)
(* a creation has read stays true until its insert only because nobody     *)
(* else is creating, renaming or restoring meanwhile (Lone), which is what *)
(* ~raced says.                                                            *)
(***************************************************************************)
EXTENDS CarrierRegistry, SequenceTheorems, FiniteSetTheorems, TLAPS

Apart ==
    \A i, j \in DOMAIN rows :
        /\ rows[i].live /\ rows[j].live
        /\ rows[i].kind = rows[j].kind /\ rows[i].name = rows[j].name
        => i = j

Inserting(c) == pc[c] = "insert"

\* No live row has the name.
Unused(kind, name) ==
    \A i \in DOMAIN rows : ~(rows[i].live /\ rows[i].kind = kind /\ rows[i].name = name)

Lone ==
    \A c \in Callers : Inserting(c) =>
        /\ \A d \in Callers : Inserting(d) => d = c
        /\ Unused(asked[c].kind, asked[c].name)

NamesHold == (decorated \/ ~raced => Apart) /\ (~decorated /\ ~raced => Lone)

IsCarrier(id) == id \in DOMAIN rows /\ rows[id].kind = "carrier"

\* What a set-delivery call carries across its transaction is still a carrier.
AskedIsCarrier ==
    \A c \in Callers : pc[c] \in {"begin", "write"} =>
        asked[c].carrier \in {0, Keep} \/ IsCarrier(asked[c].carrier)

\* What a creation is about to insert has a name.
AskedIsNamed == \A c \in Callers : Inserting(c) => asked[c].name \in Names

RegistryInv == TypeOK /\ NamesHold /\ CarrierIsCarrier /\ AskedIsCarrier /\ AskedIsNamed

-----------------------------------------------------------------------------
LEMMA TakenIsUsed ==
  ASSUME NEW kind, NEW name
  PROVE  Taken(kind, name) <=> ~Unused(kind, name)
BY DEF Taken, LiveRows, Unused

\* Apart, as the run's property counts it.
LEMMA ApartCounts ==
  ASSUME Apart, NEW kind, NEW name
  PROVE  Cardinality(LiveRows(kind, name)) <= 1
<1>1. CASE LiveRows(kind, name) = {}
  BY <1>1, FS_EmptySet
<1>2. CASE LiveRows(kind, name) # {}
  <2>1. PICK i \in LiveRows(kind, name) : TRUE
    BY <1>2
  <2>2. LiveRows(kind, name) = {i}
    BY <2>1 DEF LiveRows, Apart
  <2>3. Cardinality({i}) = 1
    BY FS_Singleton
  <2>4. Cardinality(LiveRows(kind, name)) = 1
    BY <2>2, <2>3, Zenon
  <2>5. QED
    BY <2>4
<1>3. QED
  BY <1>1, <1>2

LEMMA RegistryInit == RegistryAssumption /\ Init => RegistryInv
<1> SUFFICES ASSUME RegistryAssumption, Init PROVE RegistryInv
  OBVIOUS
<1>1. DOMAIN rows = {} /\ Len(rows) = 0 /\ rows \in Seq(Row)
  BY DEF Init
<1>2. Nothing \in Asked
  BY DEF Nothing, Asked, Kinds
<1>3. TypeOK
  <2>1. asked \in [Callers -> Asked]
    BY <1>2 DEF Init
  <2>2. pc \in [Callers -> Steps] /\ carrier \in 0..Len(rows)
    BY <1>1 DEF Init, Steps
  <2>3. QED
    BY <1>1, <2>1, <2>2 DEF Init, TypeOK
<1>4. NamesHold /\ CarrierIsCarrier /\ AskedIsCarrier /\ AskedIsNamed
  BY <1>1 DEF Init, NamesHold, Apart, Lone, Inserting, CarrierIsCarrier, AskedIsCarrier, AskedIsNamed
<1>5. QED
  BY <1>3, <1>4 DEF RegistryInv

\* The order's own verbs.
LEMMA VerbsKeep ==
  ASSUME RegistryInv, Confirm \/ Cancel
  PROVE  RegistryInv'
<1>1. /\ decorated' = decorated /\ rows' = rows /\ carrier' = carrier /\ pc' = pc
      /\ asked' = asked /\ raced' = raced
      /\ status' \in {"draft", "to_deliver_and_bill", "cancelled"}
  BY DEF Confirm, Cancel, calls
<1>2. QED
  BY <1>1 DEF RegistryInv, TypeOK, NamesHold, Apart, Lone, Inserting, Unused, CarrierIsCarrier,
              AskedIsCarrier, IsCarrier, AskedIsNamed

\* A call that ends, or moves on with what it asked, writes no row.
LEMMA CallMoves ==
  ASSUME RegistryInv, NEW c \in Callers, NEW step \in Steps \ {"insert"},
         pc' = [pc EXCEPT ![c] = step],
         \/ asked' = [asked EXCEPT ![c] = Nothing] /\ step = "idle"
         \/ asked' = asked /\ (pc[c] = "begin" \/ step = "classify"),
         UNCHANGED <<decorated, rows, order, raced>>
  PROVE  RegistryInv'
<1>1. /\ decorated' = decorated /\ rows' = rows /\ carrier' = carrier /\ raced' = raced
      /\ status' = status
  BY DEF order
<1>2. Nothing \in Asked
  BY DEF Nothing, Asked, Kinds
<1>3. TypeOK'
  <2>1. pc' \in [Callers -> Steps]
    BY DEF RegistryInv, TypeOK
  <2>2. asked' \in [Callers -> Asked]
    BY <1>2 DEF RegistryInv, TypeOK
  <2>3. QED
    BY <1>1, <2>1, <2>2 DEF RegistryInv, TypeOK
<1>4. \A d \in Callers : pc'[d] = IF d = c THEN step ELSE pc[d]
  BY DEF RegistryInv, TypeOK
<1>5. \A d \in Callers \ {c} : asked'[d] = asked[d]
  BY DEF RegistryInv, TypeOK
<1>6. NamesHold'
  BY <1>1, <1>4, <1>5 DEF RegistryInv, NamesHold, Apart, Lone, Inserting, Unused
<1>7. AskedIsCarrier'
  BY <1>1, <1>4, <1>5 DEF RegistryInv, AskedIsCarrier, IsCarrier
<1>8. CarrierIsCarrier' /\ AskedIsNamed'
  BY <1>1, <1>4, <1>5 DEF RegistryInv, CarrierIsCarrier, AskedIsNamed, Inserting
<1>9. QED
  BY <1>3, <1>6, <1>7, <1>8 DEF RegistryInv

LEMMA EndsKeep ==
  ASSUME RegistryInv, NEW c \in Callers,
         \/ InsertRefused(c) \/ BeginTransaction(c) \/ WriteRefused(c)
         \/ Classify(c) \/ AcquireTimeout(c)
  PROVE  RegistryInv'
<1>1. CASE InsertRefused(c) \/ Classify(c) \/ AcquireTimeout(c)
  BY <1>1, CallMoves DEF InsertRefused, Classify, AcquireTimeout, Return, Steps, order
<1>2. CASE BeginTransaction(c)
  BY <1>2, CallMoves DEF BeginTransaction, Goto, Steps, order
<1>3. CASE WriteRefused(c)
  BY <1>3, CallMoves DEF WriteRefused, Goto, Steps, order
<1>4. QED
  BY <1>1, <1>2, <1>3

\* The pre-read of a creation: without the decorator and without a race it is the
\* only one under way, and its name is unused.
LEMMA CreateKeeps ==
  ASSUME RegistryInv, NEW c \in Callers, NEW kind \in Kinds, NEW name \in Names,
         BeginCreate(c, kind, name)
  PROVE  RegistryInv'
<1> DEFINE wanted == [Nothing EXCEPT !.kind = kind, !.name = name]
<1>1. /\ decorated' = decorated /\ rows' = rows /\ carrier' = carrier /\ status' = status
      /\ pc' = [pc EXCEPT ![c] = "insert"] /\ asked' = [asked EXCEPT ![c] = wanted]
      /\ raced' = (raced \/ \E d \in Callers \ {c} : pc[d] = "insert")
      /\ ~Taken(kind, name)
  BY DEF BeginCreate, Goto, order
<1>2. wanted \in Asked /\ wanted.kind = kind /\ wanted.name = name
  BY DEF Nothing, Asked
<1>3. TypeOK'
  <2>1. pc' \in [Callers -> Steps]
    BY <1>1 DEF RegistryInv, TypeOK, Steps
  <2>2. asked' \in [Callers -> Asked]
    BY <1>1, <1>2 DEF RegistryInv, TypeOK
  <2>3. raced' \in BOOLEAN
    BY <1>1 DEF RegistryInv, TypeOK
  <2>4. QED
    BY <1>1, <2>1, <2>2, <2>3 DEF RegistryInv, TypeOK
<1>4. \A d \in Callers : pc'[d] = IF d = c THEN "insert" ELSE pc[d]
  BY <1>1 DEF RegistryInv, TypeOK
<1>5. \A d \in Callers : asked'[d] = IF d = c THEN wanted ELSE asked[d]
  BY <1>1 DEF RegistryInv, TypeOK
<1>6. ~raced' => ~raced /\ \A d \in Callers : pc'[d] = "insert" => d = c
  BY <1>1, <1>4
<1>7. Unused(kind, name)
  BY <1>1, TakenIsUsed
<1>8. NamesHold'
  <2>1. (decorated' \/ ~raced' => Apart')
    BY <1>1, <1>6 DEF RegistryInv, NamesHold, Apart
  <2>2. ASSUME ~decorated', ~raced' PROVE Lone'
    <3>1. asked'[c].kind = kind /\ asked'[c].name = name
      BY <1>2, <1>5
    <3>2. ASSUME NEW d \in Callers, pc'[d] = "insert"
          PROVE  d = c /\ Unused(asked'[d].kind, asked'[d].name)
      <4>1. d = c
        BY <1>6, <2>2, <3>2
      <4>2. QED
        BY <1>7, <3>1, <4>1
    <3>3. QED
      BY <1>1, <3>2 DEF Lone, Inserting, Unused
  <2>3. QED
    BY <2>1, <2>2 DEF NamesHold
<1>9. AskedIsCarrier'
  BY <1>1, <1>4, <1>5 DEF RegistryInv, AskedIsCarrier, IsCarrier
<1>10. CarrierIsCarrier' /\ AskedIsNamed'
  BY <1>1, <1>2, <1>4, <1>5 DEF RegistryInv, CarrierIsCarrier, AskedIsNamed, Inserting
<1>11. QED
  BY <1>3, <1>8, <1>9, <1>10 DEF RegistryInv

\* The insert: by the index or by the pre-read, no live row has its name.
LEMMA InsertKeeps ==
  ASSUME RegistryInv, NEW c \in Callers, Insert(c)
  PROVE  RegistryInv'
<1> DEFINE row == [kind |-> asked[c].kind, name |-> asked[c].name, live |-> TRUE]
           last == Len(rows) + 1
<1>1. /\ decorated' = decorated /\ rows' = Append(rows, row) /\ carrier' = carrier
      /\ status' = status /\ raced' = raced
      /\ pc[c] = "insert" /\ pc' = [pc EXCEPT ![c] = "idle"]
      /\ asked' = [asked EXCEPT ![c] = Nothing]
  BY DEF Insert, Return, order
<1>2. decorated \/ ~raced => Unused(asked[c].kind, asked[c].name)
  <2>1. CASE decorated
    BY <2>1, TakenIsUsed DEF Insert
  <2>2. CASE ~decorated /\ ~raced
    BY <1>1, <2>2 DEF RegistryInv, NamesHold, Lone, Inserting
  <2>3. QED
    BY <2>1, <2>2
<1>3. row \in Row
  BY <1>1 DEF RegistryInv, TypeOK, Asked, AskedIsNamed, Inserting, Row
<1>4. rows \in Seq(Row) /\ Len(rows) \in Nat /\ DOMAIN rows = 1..Len(rows)
  BY DEF RegistryInv, TypeOK
<1>5. /\ rows' \in Seq(Row) /\ Len(rows') = last /\ rows'[last] = row
      /\ \A i \in 1..Len(rows) : rows'[i] = rows[i]
  BY <1>1, <1>3, <1>4, AppendProperties
<1>6. DOMAIN rows' = DOMAIN rows \cup {last}
  <2>1. DOMAIN rows' = 1..last
    BY <1>5
  <2>2. QED
    BY <1>4, <2>1
<1>7. TypeOK'
  <2>1. pc' \in [Callers -> Steps]
    BY <1>1 DEF RegistryInv, TypeOK, Steps
  <2>2. asked' \in [Callers -> Asked]
    <3>1. Nothing \in Asked
      BY DEF Nothing, Asked, Kinds
    <3>2. QED
      BY <1>1, <3>1 DEF RegistryInv, TypeOK
  <2>3. carrier' \in 0..Len(rows')
    BY <1>1, <1>4, <1>5 DEF RegistryInv, TypeOK
  <2>4. QED
    BY <1>1, <1>5, <2>1, <2>2, <2>3 DEF RegistryInv, TypeOK
<1>8. \A d \in Callers : pc'[d] = IF d = c THEN "idle" ELSE pc[d]
  BY <1>1 DEF RegistryInv, TypeOK
<1>9. \A d \in Callers \ {c} : asked'[d] = asked[d]
  BY <1>1 DEF RegistryInv, TypeOK
<1>10. NamesHold'
  <2>1. ASSUME decorated' \/ ~raced' PROVE Apart'
    <3>1. Apart /\ Unused(row.kind, row.name)
      BY <1>1, <1>2, <2>1 DEF RegistryInv, NamesHold
    <3>2. QED
      BY <1>4, <1>5, <1>6, <3>1 DEF Apart, Unused
  <2>2. ASSUME ~decorated', ~raced' PROVE Lone'
    <3>1. \A d \in Callers : pc[d] = "insert" => d = c
      BY <1>1, <2>2 DEF RegistryInv, NamesHold, Lone, Inserting
    <3>2. \A d \in Callers : pc'[d] # "insert"
      BY <1>8, <3>1
    <3>3. QED
      BY <3>2 DEF Lone, Inserting
  <2>3. QED
    BY <2>1, <2>2 DEF NamesHold
<1>11. AskedIsCarrier'
  BY <1>4, <1>5, <1>6, <1>8, <1>9 DEF RegistryInv, AskedIsCarrier, IsCarrier
<1>12. CarrierIsCarrier' /\ AskedIsNamed'
  BY <1>1, <1>4, <1>5, <1>8, <1>9 DEF RegistryInv, TypeOK, CarrierIsCarrier, AskedIsNamed, Inserting
<1>13. QED
  BY <1>7, <1>10, <1>11, <1>12 DEF RegistryInv

\* A row is renamed, deleted or restored: no kind changes, and a name is taken
\* over only where no index refuses, as a race.
LEMMA RowsKeep ==
  ASSUME RegistryInv, NEW i \in DOMAIN rows,
         \/ \E name \in Names : Rename(i, name)
         \/ SoftDelete(i) \/ Restore(i)
  PROVE  RegistryInv'
<1>1. /\ decorated' = decorated /\ carrier' = carrier /\ status' = status
      /\ pc' = pc /\ asked' = asked
  BY DEF Rename, SoftDelete, Restore, order, calls
<1>2. rows \in Seq(Row) /\ Len(rows) \in Nat /\ DOMAIN rows = 1..Len(rows)
      /\ \A j \in DOMAIN rows : rows[j] \in Row
  BY DEF RegistryInv, TypeOK
<1>3. PICK row \in Row :
          /\ rows' = [rows EXCEPT ![i] = row] /\ row.kind = rows[i].kind
          /\ \/ ~row.live /\ row.name = rows[i].name /\ raced' = raced
             \/ /\ row.live
                /\ decorated => ~Taken(row.kind, row.name)
                /\ raced' = (raced \/ Taken(row.kind, row.name)
                                   \/ \E c \in Callers : pc[c] = "insert")
  <2>1. CASE \E name \in Names : Rename(i, name)
    <3>1. PICK name \in Names : Rename(i, name)
      BY <2>1
    <3>2. rows' = [rows EXCEPT ![i] = [rows[i] EXCEPT !.name = name]]
      BY <3>1 DEF Rename
    <3>3. [rows[i] EXCEPT !.name = name] \in Row
      BY <1>2 DEF Row
    <3>4. /\ [rows[i] EXCEPT !.name = name].kind = "carrier"
          /\ [rows[i] EXCEPT !.name = name].name = name
          /\ [rows[i] EXCEPT !.name = name].live
          /\ rows[i].kind = "carrier"
      BY <1>2, <3>1 DEF Row, Rename
    <3>5. QED
      BY <3>1, <3>2, <3>3, <3>4 DEF Rename
  <2>2. CASE SoftDelete(i)
    <3>1. rows' = [rows EXCEPT ![i] = [rows[i] EXCEPT !.live = FALSE]] /\ raced' = raced
      BY <2>2 DEF SoftDelete
    <3>2. /\ [rows[i] EXCEPT !.live = FALSE] \in Row
          /\ [rows[i] EXCEPT !.live = FALSE].kind = rows[i].kind
          /\ [rows[i] EXCEPT !.live = FALSE].name = rows[i].name
          /\ ~[rows[i] EXCEPT !.live = FALSE].live
      BY <1>2 DEF Row
    <3>3. QED
      BY <3>1, <3>2
  <2>3. CASE Restore(i)
    <3>1. rows' = [rows EXCEPT ![i] = [rows[i] EXCEPT !.live = TRUE]]
      BY <2>3 DEF Restore
    <3>2. /\ [rows[i] EXCEPT !.live = TRUE] \in Row
          /\ [rows[i] EXCEPT !.live = TRUE].kind = rows[i].kind
          /\ [rows[i] EXCEPT !.live = TRUE].name = rows[i].name
          /\ [rows[i] EXCEPT !.live = TRUE].live
      BY <1>2 DEF Row
    <3>3. QED
      BY <2>3, <3>1, <3>2 DEF Restore
  <2>4. QED
    BY <2>1, <2>2, <2>3
<1>4. /\ rows' \in Seq(Row) /\ Len(rows') = Len(rows) /\ DOMAIN rows' = DOMAIN rows
      /\ \A j \in DOMAIN rows : rows'[j] = IF j = i THEN row ELSE rows[j]
  BY <1>2, <1>3
<1>5. TypeOK'
  <2>1. raced' \in BOOLEAN
    BY <1>3 DEF RegistryInv, TypeOK
  <2>2. QED
    BY <1>1, <1>4, <2>1 DEF RegistryInv, TypeOK
<1>6. ~raced' => ~raced
  BY <1>3
<1>7. decorated \/ ~raced' => (row.live => Unused(row.kind, row.name))
  BY <1>3, TakenIsUsed
<1>8. ASSUME decorated' \/ ~raced' PROVE Apart'
  <2>1. Apart
    BY <1>1, <1>6, <1>8 DEF RegistryInv, NamesHold
  <2>2. row.live => Unused(row.kind, row.name)
    BY <1>1, <1>7, <1>8
  <2>3. QED
    BY <1>4, <2>1, <2>2 DEF Apart, Unused
<1>9. ASSUME ~decorated', ~raced' PROVE Lone'
  <2>1. Lone
    BY <1>1, <1>6, <1>9 DEF RegistryInv, NamesHold
  <2>2. CASE \E c \in Callers : pc[c] = "insert"
    <3>1. ~row.live
      BY <1>3, <1>9, <2>2
    <3>2. QED
      BY <1>1, <1>4, <2>1, <3>1 DEF Lone, Inserting, Unused
  <2>3. CASE \A c \in Callers : pc[c] # "insert"
    BY <1>1, <2>3 DEF Lone, Inserting
  <2>4. QED
    BY <2>2, <2>3
<1>10. NamesHold'
  BY <1>8, <1>9 DEF NamesHold
<1>11. \A id : IsCarrier(id) => IsCarrier(id)'
  BY <1>3, <1>4 DEF IsCarrier
<1>12. AskedIsCarrier'
  BY <1>1, <1>11 DEF RegistryInv, AskedIsCarrier
<1>13. CarrierIsCarrier'
  <2>1. carrier # 0 => carrier \in DOMAIN rows
    BY <1>2 DEF RegistryInv, TypeOK
  <2>2. QED
    BY <1>1, <1>3, <1>4, <2>1 DEF RegistryInv, CarrierIsCarrier
<1>14. AskedIsNamed'
  BY <1>1 DEF RegistryInv, AskedIsNamed, Inserting
<1>15. QED
  BY <1>5, <1>10, <1>12, <1>13, <1>14 DEF RegistryInv

\* The carrier's pre-read.
LEMMA ReadsCarrier ==
  ASSUME RegistryAssumption, RegistryInv, NEW c \in Callers,
         NEW id \in (0..Len(rows)) \cup {Keep}, BeginSetDelivery(c, id)
  PROVE  RegistryInv'
<1> DEFINE wanted == [Nothing EXCEPT !.carrier = id]
<1>1. /\ decorated' = decorated /\ rows' = rows /\ carrier' = carrier /\ status' = status
      /\ raced' = raced /\ Acceptable(id)
      /\ pc' = [pc EXCEPT ![c] = "begin"] /\ asked' = [asked EXCEPT ![c] = wanted]
  BY DEF BeginSetDelivery, Goto, order
<1>2. wanted \in Asked /\ wanted.carrier = id
  BY DEF Nothing, Asked, Kinds, RegistryInv, TypeOK
<1>3. TypeOK'
  <2>1. pc' \in [Callers -> Steps]
    BY <1>1 DEF RegistryInv, TypeOK, Steps
  <2>2. asked' \in [Callers -> Asked]
    BY <1>1, <1>2 DEF RegistryInv, TypeOK
  <2>3. QED
    BY <1>1, <2>1, <2>2 DEF RegistryInv, TypeOK
<1>4. \A d \in Callers : pc'[d] = IF d = c THEN "begin" ELSE pc[d]
  BY <1>1 DEF RegistryInv, TypeOK
<1>5. \A d \in Callers : asked'[d] = IF d = c THEN wanted ELSE asked[d]
  BY <1>1 DEF RegistryInv, TypeOK
<1>6. NamesHold'
  BY <1>1, <1>4, <1>5 DEF RegistryInv, NamesHold, Apart, Lone, Inserting, Unused
<1>7. id \in {0, Keep} \/ IsCarrier(id)
  BY <1>1 DEF Acceptable, Known, IsCarrier
<1>8. AskedIsCarrier'
  <2>1. ASSUME NEW d \in Callers, pc'[d] \in {"begin", "write"}
        PROVE  asked'[d].carrier \in {0, Keep} \/ IsCarrier(asked'[d].carrier)
    <3>1. CASE d = c
      <4>1. asked'[d].carrier = id
        BY <1>2, <1>5, <3>1
      <4>2. QED
        BY <1>7, <4>1
    <3>2. CASE d # c
      <4>1. pc[d] \in {"begin", "write"} /\ asked'[d] = asked[d]
        BY <1>4, <1>5, <2>1, <3>2
      <4>2. QED
        BY <4>1 DEF RegistryInv, AskedIsCarrier
    <3>3. QED
      BY <3>1, <3>2
  <2>2. QED
    BY <1>1, <2>1 DEF AskedIsCarrier, IsCarrier
<1>9. CarrierIsCarrier' /\ AskedIsNamed'
  BY <1>1, <1>4, <1>5 DEF RegistryInv, CarrierIsCarrier, AskedIsNamed, Inserting
<1>10. QED
  BY <1>3, <1>6, <1>8, <1>9 DEF RegistryInv

\* The guarded write of what the pre-read accepted.
LEMMA WriteKeeps ==
  ASSUME RegistryAssumption, RegistryInv, NEW c \in Callers, WriteDelivery(c)
  PROVE  RegistryInv'
<1>1. /\ decorated' = decorated /\ rows' = rows /\ status' = status /\ raced' = raced
      /\ carrier' = (IF asked[c].carrier = Keep THEN carrier ELSE asked[c].carrier)
      /\ pc[c] = "write" /\ pc' = [pc EXCEPT ![c] = "idle"]
      /\ asked' = [asked EXCEPT ![c] = Nothing]
  BY DEF WriteDelivery, Patched, Return
<1>2. asked[c].carrier \in {0, Keep} \/ IsCarrier(asked[c].carrier)
  BY <1>1 DEF RegistryInv, AskedIsCarrier
<1>3. carrier' \in 0..Len(rows) /\ CarrierIsCarrier'
  <2>1. DOMAIN rows = 1..Len(rows) /\ Len(rows) \in Nat /\ carrier \in 0..Len(rows)
    BY DEF RegistryInv, TypeOK
  <2>2. CASE asked[c].carrier = Keep
    BY <1>1, <2>1, <2>2 DEF RegistryInv, CarrierIsCarrier
  <2>3. CASE asked[c].carrier # Keep
    BY <1>1, <1>2, <2>1, <2>3 DEF IsCarrier, CarrierIsCarrier
  <2>4. QED
    BY <2>2, <2>3
<1>4. TypeOK'
  <2>1. pc' \in [Callers -> Steps]
    BY <1>1 DEF RegistryInv, TypeOK, Steps
  <2>2. Nothing \in Asked
    BY DEF Nothing, Asked, Kinds
  <2>3. asked' \in [Callers -> Asked]
    BY <1>1, <2>2 DEF RegistryInv, TypeOK
  <2>4. QED
    BY <1>1, <1>3, <2>1, <2>3 DEF RegistryInv, TypeOK
<1>5. \A d \in Callers : pc'[d] = IF d = c THEN "idle" ELSE pc[d]
  BY <1>1 DEF RegistryInv, TypeOK
<1>6. \A d \in Callers \ {c} : asked'[d] = asked[d]
  BY <1>1 DEF RegistryInv, TypeOK
<1>7. NamesHold'
  BY <1>1, <1>5, <1>6 DEF RegistryInv, NamesHold, Apart, Lone, Inserting, Unused
<1>8. AskedIsCarrier' /\ AskedIsNamed'
  BY <1>1, <1>5, <1>6 DEF RegistryInv, AskedIsCarrier, IsCarrier, AskedIsNamed, Inserting
<1>9. QED
  BY <1>3, <1>4, <1>7, <1>8 DEF RegistryInv

LEMMA RegistryStep == RegistryAssumption /\ RegistryInv /\ [Next]_vars => RegistryInv'
<1> SUFFICES ASSUME RegistryAssumption, RegistryInv, [Next]_vars PROVE RegistryInv'
  OBVIOUS
<1>1. CASE Confirm \/ Cancel
  BY <1>1, VerbsKeep
<1>2. ASSUME NEW c \in Callers, NEW name \in Names,
             CreateCarrier(c, name) \/ CreateTemplate(c, name)
      PROVE  RegistryInv'
  BY <1>2, CreateKeeps DEF CreateCarrier, CreateTemplate, Kinds
<1>3. ASSUME NEW c \in Callers, NEW id \in (0..Len(rows)) \cup {Keep}, BeginSetDelivery(c, id)
      PROVE  RegistryInv'
  BY <1>3, ReadsCarrier
<1>4. ASSUME NEW c \in Callers, Continue(c) PROVE RegistryInv'
  BY <1>4, InsertKeeps, EndsKeep, WriteKeeps DEF Continue
<1>5. ASSUME NEW i \in DOMAIN rows,
             (\E name \in Names : Rename(i, name)) \/ SoftDelete(i) \/ Restore(i)
      PROVE  RegistryInv'
  BY <1>5, RowsKeep
<1>6. CASE UNCHANGED vars
  <2>1. UNCHANGED <<decorated, rows, status, carrier, pc, asked, raced>>
    BY <1>6 DEF vars, order, calls
  <2>2. QED
    BY <2>1 DEF RegistryInv, TypeOK, NamesHold, Apart, Lone, Inserting, Unused,
                CarrierIsCarrier, AskedIsCarrier, IsCarrier, AskedIsNamed
<1>7. QED
  BY <1>1, <1>2, <1>3, <1>4, <1>5, <1>6 DEF Next

LEMMA RegistryInvariant ==
  ASSUME RegistryAssumption PROVE Spec => []RegistryInv
<1>1. Init => RegistryInv
  BY RegistryInit
<1>2. RegistryInv /\ [Next]_vars => RegistryInv'
  BY RegistryStep
<1>3. QED
  BY <1>1, <1>2, PTL DEF Spec

\* "the decorator's per-unit unique is the hard backstop": with it two live rows
\* never share a kind and a name, however calls interleave; without it, not until
\* two creations overlap or a name is taken over by a rename or a restore.
THEOREM NamesStayUnique ==
  ASSUME RegistryAssumption PROVE Spec => []NamesUnique
<1>1. RegistryInv => NamesUnique
  BY ApartCounts DEF RegistryInv, NamesHold, NamesUnique
<1>2. QED
  BY <1>1, RegistryInvariant, PTL

\* "verified by a pre-read on every path that names one": the carrier of an order is
\* a row of the carrier registry, across the transaction between the read and the
\* write, and never a template's.
THEOREM CarriersAreCarriers ==
  ASSUME RegistryAssumption PROVE Spec => []CarrierIsCarrier
<1>1. RegistryInv => CarrierIsCarrier
  BY DEF RegistryInv
<1>2. QED
  BY <1>1, RegistryInvariant, PTL
=============================================================================
