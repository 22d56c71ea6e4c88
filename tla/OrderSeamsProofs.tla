-------------------------- MODULE OrderSeamsProofs --------------------------
(***************************************************************************)
(* Proofs about OrderSeams, for every set of lines, requests and callers.  *)
(*                                                                         *)
(* The argument.  Row locks exclude each other (LockInv), so the room an   *)
(* allocation read stays there until its transaction commits (AddedFits):  *)
(* that bounds both watermarks.  Drafts are delivered, billed and edited   *)
(* at any time; on a line that no edit has undercut, what a sync clamps at *)
(* is still ordered when it writes (WatermarkInv).  Where watermarks only  *)
(* rise, a status computed by a stale rollup still holds when it is        *)
(* written, unless an edit has raised a line in between (RisingInv), and   *)
(* no line is billed past its basis, unless undercut (BasisInv).  IInv is  *)
(* the conjunction.                                                        *)
(***************************************************************************)
EXTENDS OrderSeams, TLAPS

-----------------------------------------------------------------------------
(* The transactions' part of the inductive invariant: row locks exclude    *)
(* each other, nothing uncommitted outlives its transaction, and every     *)
(* uncommitted increment sits on a row its transaction has locked.         *)

LocksExclusive == \A c, d \in Callers : c # d => held[c] \cap held[d] = {}

CleanOutside == \A c \in Callers : pc[c] # "allocate" => added[c] = NoQty /\ held[c] = {}

AddedLocked == \A c \in Callers, l \in Lines : added[c][l] > 0 => l \in held[c]

LockInv == LocksExclusive /\ CleanOutside /\ AddedLocked

\* A freshly created order, with no call in flight, is well typed.
LEMMA InitTypeOK == Init => TypeOK
<1> SUFFICES ASSUME Init PROVE TypeOK
  OBVIOUS
<1>1. NoQty \in [Lines -> Nat] /\ NoQty \in [Lines -> Qty]
  BY LinesAssumption DEF NoQty, Qty
<1>2. quantity \in [Lines -> Qty]
  BY CallsAssumption DEF Init
<1>3. <<>> \in Seq([item : Items, qty : Int])
  OBVIOUS
<1>4. QED
  BY <1>1, <1>2, <1>3 DEF Init, TypeOK, Steps, Watermarks, Statuses

\* Every statement of every verb keeps the types of the rows and of the calls.
LEMMA TypeStep == TypeOK /\ [Next]_vars => TypeOK'
<1> SUFFICES ASSUME TypeOK, [Next]_vars PROVE TypeOK'
  OBVIOUS
<1> USE DEF TypeOK, edits
<1>1. ASSUME NEW l \in Lines, EditLine(l) PROVE TypeOK'
  BY <1>1, CallsAssumption DEF EditLine, calls
<1>2. CASE Confirm
  BY <1>2 DEF Confirm, calls, Statuses, InFlight
<1>3. CASE Cancel
  BY <1>3 DEF Cancel, calls, Statuses
<1>4. ASSUME NEW c \in Callers, Abandon(c) PROVE TypeOK'
  <2>1. NoQty \in [Lines -> Nat] /\ NoQty \in [Lines -> Qty]
    BY LinesAssumption DEF NoQty, Qty
  <2>2. <<>> \in Seq([item : Items, qty : Int])
    OBVIOUS
  <2>3. todo' \in [Callers -> Seq([item : Items, qty : Int])]
    BY <1>4, <2>2 DEF Abandon
  <2>4. QED
    BY <1>4, <2>1, <2>3 DEF Abandon, rows, Steps, Statuses, Watermarks
<1>5. ASSUME NEW c \in Callers, NEW w \in Watermarks, NEW request \in Requests,
             BeginMark(c, w, request)
      PROVE  TypeOK'
  BY <1>5, CallsAssumption DEF BeginMark, rows, Steps
<1>6. ASSUME NEW c \in Callers, AllocateItem(c) PROVE TypeOK'
  <2>1. PICK take \in [ItemRows(Head(todo[c]).item) -> Qty] :
           added' = [added EXCEPT ![c] = [l \in Lines |->
                       IF l \in ItemRows(Head(todo[c]).item) THEN @[l] + take[l] ELSE @[l]]]
    BY <1>6 DEF AllocateItem, FillInOrder
  <2>2. added' \in [Callers -> [Lines -> Nat]]
    BY <2>1, LinesAssumption DEF Qty
  <2>3. held' \in [Callers -> SUBSET Lines]
    BY <1>6 DEF AllocateItem, ItemRows
  <2>4. ASSUME NEW S, NEW s \in Seq(S), s # <<>> PROVE Tail(s) \in Seq(S)
    BY <2>4
  <2>5. Tail(todo[c]) \in Seq([item : Items, qty : Int])
    BY <1>6, <2>4 DEF AllocateItem
  <2>6. todo' \in [Callers -> Seq([item : Items, qty : Int])]
    BY <1>6, <2>5 DEF AllocateItem
  <2>7. QED
    BY <1>6, <2>2, <2>3, <2>6 DEF AllocateItem, rows
<1>7. ASSUME NEW c \in Callers, CommitMark(c) PROVE TypeOK'
  <2>1. Plus(delivered, added[c]) \in [Lines -> Nat] /\ Plus(billed, added[c]) \in [Lines -> Nat]
    BY DEF Plus
  <2>2. delivered' \in [Lines -> Nat] /\ billed' \in [Lines -> Nat]
    BY <1>7, <2>1 DEF CommitMark
  <2>3. NoQty \in [Lines -> Nat]
    BY DEF NoQty
  <2>4. QED
    BY <1>7, <2>2, <2>3 DEF CommitMark, Steps, Watermarks
<1>8. ASSUME NEW c \in Callers, SyncRead(c) PROVE TypeOK'
  <2>1. pc' \in [Callers -> Steps]
    BY <1>8 DEF SyncRead, Steps
  <2>2. ordered' \in [Callers -> [Lines -> Qty]]
    BY <1>8 DEF SyncRead
  <2>3. QED
    BY <1>8, <2>1, <2>2 DEF SyncRead, rows
<1>9. ASSUME NEW c \in Callers, SyncWrite(c) PROVE TypeOK'
  <2>1. PICK reported \in SUBSET Owed : \E net \in [reported -> 0..MaxQty + 1] :
           delivered' = [l \in Lines |->
               IF l \in reported
               THEN IF net[l] > ordered[c][l] THEN ordered[c][l] ELSE net[l]
               ELSE delivered[l]]
    BY <1>9 DEF SyncWrite
  <2>2. delivered' \in [Lines -> Nat]
    BY <2>1, LinesAssumption DEF Qty
  <2>3. NoQty \in [Lines -> Qty]
    BY LinesAssumption DEF NoQty, Qty
  <2>4. QED
    BY <1>9, <2>2, <2>3 DEF SyncWrite, Steps
<1>10. ASSUME NEW c \in Callers, Rollup(c) PROVE TypeOK'
  BY <1>10 DEF Rollup, rows, Steps, Statuses, InFlight, NextStatus
<1>11. ASSUME NEW c \in Callers, Advance(c) PROVE TypeOK'
  BY <1>11 DEF Advance, Steps, Statuses
<1>12. CASE UNCHANGED vars
  BY <1>12 DEF vars, rows, calls
<1>13. QED
  BY <1>1, <1>2, <1>3, <1>4, <1>5, <1>6, <1>7, <1>8, <1>9, <1>10, <1>11, <1>12
     DEF Next, Step, RefuseItem, SyncNothing, Fail, DeadlockVictim

(* Type correctness: for every set of lines, requests and callers, the rows *)
(* and the calls' local state keep their types.                            *)
THEOREM TypeCorrect == Spec => []TypeOK
BY InitTypeOK, TypeStep, PTL DEF Spec

-----------------------------------------------------------------------------
(* What an allocation and a sync write do to the rows they touch.          *)

\* AllocateItem locks rows nobody else holds and adds to each at most its
\* remaining capacity.
LEMMA Allocation ==
  ASSUME TypeOK, NEW c \in Callers, AllocateItem(c)
  PROVE  \E locked \in SUBSET Lines : \E take \in [locked -> Qty] :
            /\ held' = [held EXCEPT ![c] = held[c] \cup locked]
            /\ added' = [added EXCEPT ![c] = [l \in Lines |->
                           IF l \in locked THEN added[c][l] + take[l] ELSE added[c][l]]]
            /\ \A d \in Callers \ {c} : held[d] \cap locked = {}
            /\ \A l \in locked : take[l] <= Positive(Capacity(c, l))
<1> DEFINE locked == ItemRows(Head(todo[c]).item)
<1>1. locked \in SUBSET Lines
  BY DEF ItemRows
<1>2. PICK take \in FillInOrder(locked, Capacities(c, locked), Head(todo[c]).qty) :
         added' = [added EXCEPT ![c] =
                     [l \in Lines |-> IF l \in locked THEN @[l] + take[l] ELSE @[l]]]
  BY DEF AllocateItem
<1>3. take \in [locked -> Qty] /\ \A l \in locked : take[l] <= Positive(Capacity(c, l))
  BY <1>2 DEF FillInOrder, Capacities
<1>4. held' = [held EXCEPT ![c] = held[c] \cup locked]
  BY DEF AllocateItem, TypeOK
<1>5. added' = [added EXCEPT ![c] = [l \in Lines |->
                  IF l \in locked THEN added[c][l] + take[l] ELSE added[c][l]]]
  BY <1>2 DEF TypeOK
<1>6. \A d \in Callers \ {c} : held[d] \cap locked = {}
  BY DEF AllocateItem, CanLock
<1>7. QED
  BY <1>1, <1>3, <1>4, <1>5, <1>6

\* SyncWrite restates only owed lines that no transaction has locked, and
\* none above the quantity it read.
LEMMA Restatement ==
  ASSUME TypeOK, NEW c \in Callers, SyncWrite(c)
  PROVE  /\ delivered' \in [Lines -> Qty] \/ delivered' \in [Lines -> Nat]
         /\ \A l \in Lines : delivered'[l] # delivered[l] =>
               l \in Owed /\ Unlocked(l) /\ delivered'[l] <= ordered[c][l]
<1>1. PICK reported \in SUBSET Owed : \E net \in [reported -> 0..MaxQty + 1] :
         /\ \A l \in reported : Unlocked(l)
         /\ delivered' = [l \in Lines |->
              IF l \in reported
              THEN IF net[l] > ordered[c][l] THEN ordered[c][l] ELSE net[l]
              ELSE delivered[l]]
  BY DEF SyncWrite
<1>2. PICK net \in [reported -> 0..MaxQty + 1] :
         /\ \A l \in reported : Unlocked(l)
         /\ delivered' = [l \in Lines |->
              IF l \in reported
              THEN IF net[l] > ordered[c][l] THEN ordered[c][l] ELSE net[l]
              ELSE delivered[l]]
  BY <1>1
<1>3. QED
  BY <1>2, LinesAssumption DEF TypeOK, Qty

-----------------------------------------------------------------------------
(* Row locks.                                                              *)

\* FOR UPDATE: no step lets two transactions hold a row, and every way a
\* transaction ends gives up its rows and its uncommitted increments.
LEMMA LockStep == TypeOK /\ LockInv /\ [Next]_vars => LockInv'
<1> SUFFICES ASSUME TypeOK, LockInv, [Next]_vars PROVE LockInv'
  OBVIOUS
<1> USE DEF LockInv, LocksExclusive, CleanOutside, AddedLocked, TypeOK
<1>1. CASE UNCHANGED <<pc, added, held>>
  BY <1>1
<1>2. ASSUME NEW c \in Callers, Abandon(c) PROVE LockInv'
  BY <1>2 DEF Abandon, NoQty
<1>3. ASSUME NEW c \in Callers, NEW w \in Watermarks, NEW request \in Requests,
             BeginMark(c, w, request)
      PROVE  LockInv'
  BY <1>3 DEF BeginMark
<1>4. ASSUME NEW c \in Callers, AllocateItem(c) PROVE LockInv'
  <2>1. PICK locked \in SUBSET Lines : \E take \in [locked -> Qty] :
            /\ held' = [held EXCEPT ![c] = held[c] \cup locked]
            /\ added' = [added EXCEPT ![c] = [l \in Lines |->
                           IF l \in locked THEN added[c][l] + take[l] ELSE added[c][l]]]
            /\ \A d \in Callers \ {c} : held[d] \cap locked = {}
    BY <1>4, Allocation
  <2>2. pc[c] = "allocate" /\ pc' = pc
    BY <1>4 DEF AllocateItem
  <2>3. LocksExclusive'
    BY <2>1
  <2>4. CleanOutside'
    BY <2>1, <2>2
  <2>5. AddedLocked'
    BY <2>1
  <2>6. QED
    BY <2>3, <2>4, <2>5
<1>5. ASSUME NEW c \in Callers, CommitMark(c) PROVE LockInv'
  BY <1>5 DEF CommitMark, NoQty
<1>6. ASSUME NEW c \in Callers,
             SyncRead(c) \/ SyncWrite(c) \/ Rollup(c) \/ Advance(c)
      PROVE  LockInv'
  <2>1. \A d \in Callers : d # c => pc'[d] = pc[d]
    <3>1. \E p \in Steps : pc' = [pc EXCEPT ![c] = p]
      BY <1>6, Zenon DEF SyncRead, SyncWrite, Rollup, Advance, Steps
    <3>2. QED
      BY <3>1
  <2>2. pc[c] # "allocate" /\ added' = added /\ held' = held
    BY <1>6 DEF SyncRead, SyncWrite, Rollup, Advance
  <2>3. QED
    BY <2>1, <2>2
<1>7. QED
  BY <1>1, <1>2, <1>3, <1>4, <1>5, <1>6
     DEF Next, Step, EditLine, Confirm, Cancel, RefuseItem, SyncNothing, Fail,
         DeadlockVictim, calls, vars

-----------------------------------------------------------------------------
(* Uncommitted increments fit: whatever else has committed since the rows  *)
(* were locked, committing the increment keeps the line within its bound.  *)

IncrementFits(c, l) ==
    IF mark[c] = "delivered"
    THEN delivered[l] + added[c][l] <= quantity[l]
    ELSE billed[l] + added[c][l] <= PolicyBase(l, quantity, delivered)

AddedFits == \A c \in Callers, l \in Lines : added[c][l] > 0 => IncrementFits(c, l)

\* A step that leaves c's increments and the rows under them alone keeps them fitting.
LEMMA FitsUndisturbed ==
  ASSUME TypeOK, AddedFits, NEW c \in Callers, NEW l \in Lines,
         added'[c][l] = added[c][l], mark'[c] = mark[c],
         added[c][l] > 0 => /\ quantity'[l] = quantity[l]
                            /\ delivered'[l] = delivered[l]
                            /\ billed'[l] = billed[l]
  PROVE  added'[c][l] > 0 => IncrementFits(c, l)'
BY DEF AddedFits, IncrementFits, PolicyBase

\* lock_billing_capacity and lock_delivery_capacity: no step of another call
\* takes away the room that an uncommitted increment was given.
LEMMA FitStep == TypeOK /\ LockInv /\ AddedFits /\ [Next]_vars => AddedFits'
<1> SUFFICES ASSUME TypeOK, LockInv, AddedFits, [Next]_vars,
                    NEW d \in Callers, NEW m \in Lines
             PROVE  added'[d][m] > 0 => IncrementFits(d, m)'
  BY DEF AddedFits
<1>1. CASE UNCHANGED <<added, mark, quantity, delivered, billed>>
  BY <1>1, FitsUndisturbed
<1>2. ASSUME NEW l \in Lines, EditLine(l) PROVE added'[d][m] > 0 => IncrementFits(d, m)'
  <2>1. added' = added /\ mark' = mark /\ delivered' = delivered /\ billed' = billed
    BY <1>2 DEF EditLine, calls
  <2>2. added[d][m] > 0 => quantity'[m] = quantity[m]
    BY <1>2 DEF EditLine, Unlocked, LockInv, AddedLocked, TypeOK
  <2>3. QED
    BY <2>1, <2>2, FitsUndisturbed
<1>3. ASSUME NEW c \in Callers, Abandon(c) PROVE added'[d][m] > 0 => IncrementFits(d, m)'
  <2>1. CASE c = d
    BY <1>3, <2>1 DEF Abandon, NoQty, TypeOK
  <2>2. CASE c # d
    BY <1>3, <2>2, FitsUndisturbed DEF Abandon, rows, TypeOK
  <2>3. QED
    BY <2>1, <2>2
<1>4. ASSUME NEW c \in Callers, NEW w \in Watermarks, NEW request \in Requests,
             BeginMark(c, w, request)
      PROVE  added'[d][m] > 0 => IncrementFits(d, m)'
  <2>1. CASE c = d
    BY <1>4, <2>1 DEF BeginMark, LockInv, CleanOutside, NoQty
  <2>2. CASE c # d
    BY <1>4, <2>2, FitsUndisturbed DEF BeginMark, rows, TypeOK
  <2>3. QED
    BY <2>1, <2>2
<1>5. ASSUME NEW c \in Callers, AllocateItem(c) PROVE added'[d][m] > 0 => IncrementFits(d, m)'
  <2>1. PICK locked \in SUBSET Lines : \E take \in [locked -> Qty] :
            /\ added' = [added EXCEPT ![c] = [l \in Lines |->
                           IF l \in locked THEN added[c][l] + take[l] ELSE added[c][l]]]
            /\ \A l \in locked : take[l] <= Positive(Capacity(c, l))
    BY <1>5, Allocation
  <2>2. PICK take \in [locked -> Qty] :
            /\ added' = [added EXCEPT ![c] = [l \in Lines |->
                           IF l \in locked THEN added[c][l] + take[l] ELSE added[c][l]]]
            /\ \A l \in locked : take[l] <= Positive(Capacity(c, l))
    BY <2>1
  <2>3. UNCHANGED <<status, item, quantity, delivered, billed, mark>>
    BY <1>5 DEF AllocateItem, rows
  <2>4. CASE c = d /\ m \in locked
    <3>1. added'[d][m] = added[d][m] + take[m]
      BY <2>2, <2>4 DEF TypeOK
    <3>2. take[m] \in Nat /\ take[m] <= Positive(Capacity(d, m))
      BY <2>2, <2>4, LinesAssumption DEF Qty
    <3>3. CASE take[m] = 0
      <4>1. added'[d][m] = added[d][m]
        BY <3>1, <3>3 DEF TypeOK
      <4>2. QED
        BY <4>1, <2>3, FitsUndisturbed
    <3>4. CASE take[m] > 0
      <4>1. take[m] <= Capacity(d, m)
        BY <3>2, <3>4 DEF Positive
      <4>2. CASE mark[d] = "delivered"
        BY <3>1, <3>2, <4>1, <4>2, <2>3, LinesAssumption
           DEF IncrementFits, Capacity, DeliveryCapacity, TypeOK, Qty
      <4>3. CASE mark[d] # "delivered"
        <5>1. take[m] <= PolicyBase(m, quantity, delivered) - billed[m] - added[d][m]
          BY <4>1, <4>3 DEF Capacity, BillingCapacity
        <5>2. PolicyBase(m, quantity, delivered) \in Int /\ billed[m] \in Int /\ added[d][m] \in Int
          BY LinesAssumption DEF TypeOK, Qty, PolicyBase
        <5>3. mark'[d] # "delivered" /\ billed'[m] = billed[m]
              /\ PolicyBase(m, quantity', delivered') = PolicyBase(m, quantity, delivered)
          BY <4>3, <2>3
        <5>4. QED
          BY <3>1, <3>2, <5>1, <5>2, <5>3 DEF IncrementFits
      <4>4. QED
        BY <4>2, <4>3
    <3>5. QED
      BY <3>2, <3>3, <3>4
  <2>5. CASE ~(c = d /\ m \in locked)
    BY <2>2, <2>3, <2>5, FitsUndisturbed DEF TypeOK
  <2>6. QED
    BY <2>4, <2>5
<1>6. ASSUME NEW c \in Callers, CommitMark(c) PROVE added'[d][m] > 0 => IncrementFits(d, m)'
  <2>1. CASE c = d
    BY <1>6, <2>1 DEF CommitMark, NoQty, TypeOK
  <2>2. CASE c # d
    <3>1. added'[d][m] = added[d][m] /\ mark'[d] = mark[d] /\ quantity' = quantity
      BY <1>6, <2>2 DEF CommitMark, TypeOK
    <3>2. added[d][m] > 0 => added[c][m] = 0
      BY <2>2 DEF LockInv, AddedLocked, LocksExclusive, TypeOK
    <3>3. added[c][m] = 0 => delivered'[m] = delivered[m] /\ billed'[m] = billed[m]
      BY <1>6 DEF CommitMark, Plus, TypeOK
    <3>4. QED
      BY <3>1, <3>2, <3>3, FitsUndisturbed
  <2>3. QED
    BY <2>1, <2>2
<1>7. ASSUME NEW c \in Callers, SyncWrite(c) PROVE added'[d][m] > 0 => IncrementFits(d, m)'
  <2>1. UNCHANGED <<added, mark, quantity, billed>>
    BY <1>7 DEF SyncWrite
  <2>2. added[d][m] > 0 => delivered'[m] = delivered[m]
    BY <1>7, Restatement DEF Unlocked, LockInv, AddedLocked
  <2>3. QED
    BY <2>1, <2>2, FitsUndisturbed
<1>8. QED
  BY <1>1, <1>2, <1>3, <1>4, <1>5, <1>6, <1>7
     DEF Next, Step, Confirm, Cancel, RefuseItem, SyncNothing, Fail, DeadlockVictim,
         SyncRead, Rollup, Advance, rows, calls, vars

-----------------------------------------------------------------------------
(* A pending status write carries an in-flight status or completed, and    *)
(* only a composition with a stock engine syncs.                           *)

CallInv ==
    \A c \in Callers :
        /\ pc[c] = "sync" => MovesSynced
        /\ pc[c] = "advance" => next[c] \in InFlight \cup {"completed"}

\* A call keeps only what belongs to the statement it has reached.
LEMMA CallStep == TypeOK /\ CallInv /\ [Next]_vars => CallInv'
<1> SUFFICES ASSUME TypeOK, CallInv, [Next]_vars PROVE CallInv'
  OBVIOUS
<1> USE DEF CallInv, TypeOK
<1>1. CASE UNCHANGED <<pc, next>>
  BY <1>1
<1>2. ASSUME NEW c \in Callers, Abandon(c) PROVE CallInv'
  BY <1>2 DEF Abandon
<1>3. ASSUME NEW c \in Callers, NEW w \in Watermarks, NEW request \in Requests,
             BeginMark(c, w, request)
      PROVE  CallInv'
  BY <1>3 DEF BeginMark
<1>4. ASSUME NEW c \in Callers, CommitMark(c) PROVE CallInv'
  BY <1>4 DEF CommitMark
<1>5. ASSUME NEW c \in Callers, SyncRead(c) PROVE CallInv'
  BY <1>5 DEF SyncRead
<1>6. ASSUME NEW c \in Callers, SyncWrite(c) PROVE CallInv'
  BY <1>6 DEF SyncWrite
<1>7. ASSUME NEW c \in Callers, Rollup(c) PROVE CallInv'
  BY <1>7 DEF Rollup, NextStatus, InFlight
<1>8. ASSUME NEW c \in Callers, Advance(c) PROVE CallInv'
  BY <1>8 DEF Advance
<1>9. QED
  BY <1>1, <1>2, <1>3, <1>4, <1>5, <1>6, <1>7, <1>8
     DEF Next, Step, EditLine, Confirm, Cancel, AllocateItem, RefuseItem, SyncNothing, Fail,
         DeadlockVictim, calls, vars

-----------------------------------------------------------------------------
(* The watermarks.                                                         *)

\* What a commit does to one line: at most one of its watermarks rises, by an
\* increment that fits.
LEMMA Commit ==
  ASSUME TypeOK, AddedFits, NEW c \in Callers, CommitMark(c), NEW l \in Lines
  PROVE  /\ \/ delivered'[l] = delivered[l]
            \/ delivered'[l] > delivered[l] /\ delivered'[l] <= quantity[l]
         /\ \/ billed'[l] = billed[l]
            \/ billed'[l] > billed[l] /\ billed'[l] <= PolicyBase(l, quantity, delivered)
         /\ delivered' = delivered \/ billed' = billed
<1>1. CASE mark[c] = "delivered"
  <2>1. delivered'[l] = delivered[l] + added[c][l] /\ billed' = billed
    BY <1>1 DEF CommitMark, Plus
  <2>2. QED
    BY <1>1, <2>1, LinesAssumption DEF AddedFits, IncrementFits, TypeOK, Qty
<1>2. CASE mark[c] = "billed"
  <2>1. billed'[l] = billed[l] + added[c][l] /\ delivered' = delivered
    BY <1>2 DEF CommitMark, Plus
  <2>2. added[c][l] > 0 => billed[l] + added[c][l] <= PolicyBase(l, quantity, delivered)
    BY <1>2 DEF AddedFits, IncrementFits
  <2>3. QED
    BY <2>1, <2>2 DEF TypeOK
<1>3. QED
  BY <1>1, <1>2 DEF TypeOK, Watermarks

\* No watermark ever leaves the range of the quantities.
BoundInv == \A l \in Lines : delivered[l] <= MaxQty /\ billed[l] <= MaxQty

\* Neither a commit nor a sync takes a watermark out of the range of quantities.
LEMMA BoundStep == TypeOK /\ AddedFits /\ BoundInv /\ [Next]_vars => BoundInv'
<1> SUFFICES ASSUME TypeOK, AddedFits, BoundInv, [Next]_vars, NEW l \in Lines
             PROVE  delivered'[l] <= MaxQty /\ billed'[l] <= MaxQty
  BY DEF BoundInv
<1>1. CASE UNCHANGED <<delivered, billed>>
  BY <1>1 DEF BoundInv
<1>2. ASSUME NEW c \in Callers, CommitMark(c)
      PROVE  delivered'[l] <= MaxQty /\ billed'[l] <= MaxQty
  <2>1. quantity[l] <= MaxQty /\ PolicyBase(l, quantity, delivered) <= MaxQty
    BY LinesAssumption DEF PolicyBase, TypeOK, Qty, BoundInv
  <2>2. PolicyBase(l, quantity, delivered) \in Nat /\ quantity[l] \in Nat /\ MaxQty \in Nat
    BY LinesAssumption DEF PolicyBase, TypeOK, Qty
  <2>3. /\ \/ delivered'[l] = delivered[l]
           \/ delivered'[l] > delivered[l] /\ delivered'[l] <= quantity[l]
        /\ \/ billed'[l] = billed[l]
           \/ billed'[l] > billed[l] /\ billed'[l] <= PolicyBase(l, quantity, delivered)
    BY <1>2, Commit
  <2>4. delivered'[l] \in Nat /\ billed'[l] \in Nat
    BY <1>2 DEF CommitMark, Plus, TypeOK
  <2>5. QED
    BY <2>1, <2>2, <2>3, <2>4 DEF BoundInv
<1>3. ASSUME NEW c \in Callers, SyncWrite(c)
      PROVE  delivered'[l] <= MaxQty /\ billed'[l] <= MaxQty
  <2>1. delivered'[l] = delivered[l] \/ delivered'[l] <= ordered[c][l]
    BY <1>3, Restatement
  <2>2. delivered'[l] \in Nat
    BY <1>3, Restatement, LinesAssumption DEF Qty
  <2>3. QED
    BY <1>3, <2>1, <2>2, LinesAssumption DEF SyncWrite, BoundInv, TypeOK, Qty
<1>4. QED
  BY <1>1, <1>2, <1>3
     DEF Next, Step, EditLine, Confirm, Cancel, BeginMark, AllocateItem, RefuseItem, SyncRead,
         SyncNothing, Rollup, Advance, Fail, DeadlockVictim, Abandon, rows, calls, vars

-----------------------------------------------------------------------------
(* An edit may lower a draft line under everything that was delivered or   *)
(* billed of it.  On the other lines the watermarks stay within what is    *)
(* ordered, and what a sync under way clamps at is still ordered.          *)

SyncFresh ==
    \A c \in Callers, l \in Lines \ undercut : pc[c] = "sync" => ordered[c][l] <= quantity[l]

WatermarkInv == WithinOrdered /\ SyncFresh

\* A step that leaves a line's row and the syncs under way alone leaves the
\* line as it was.
LEMMA WatermarkUndisturbed ==
  ASSUME WatermarkInv, UNCHANGED <<quantity, delivered, billed, undercut>>,
         \A c \in Callers : pc'[c] = "sync" => pc[c] = "sync" /\ ordered'[c] = ordered[c]
  PROVE  WatermarkInv'
BY DEF WatermarkInv, WithinOrdered, SyncFresh

\* No step takes a watermark past the ordered quantity of a line that no edit
\* has undercut.
LEMMA WatermarkStep == TypeOK /\ AddedFits /\ WatermarkInv /\ [Next]_vars => WatermarkInv'
<1> SUFFICES ASSUME TypeOK, AddedFits, WatermarkInv, [Next]_vars
             PROVE  WatermarkInv'
  OBVIOUS
<1>0. TypeOK'
  BY TypeStep
<1>1. CASE UNCHANGED vars
  BY <1>1, WatermarkUndisturbed DEF vars, rows, calls, edits
<1>2. ASSUME NEW l \in Lines, EditLine(l) PROVE WatermarkInv'
  <2>1. PICK q \in Quantities :
           /\ quantity' = [quantity EXCEPT ![l] = q]
           /\ undercut' = IF Undercuts(l, q) THEN undercut \cup {l} ELSE undercut
    BY <1>2 DEF EditLine
  <2>2. UNCHANGED <<delivered, billed, pc, ordered>>
    BY <1>2 DEF EditLine, calls
  <2>3. undercut \subseteq undercut'
    BY <2>1
  <2>4. q \in Int /\ quantity'[l] = q
    BY <2>1, CallsAssumption, LinesAssumption DEF TypeOK, Qty
  <2>5. ASSUME NEW m \in Lines \ undercut'
        PROVE  /\ delivered[m] <= quantity'[m] /\ billed[m] <= quantity'[m]
               /\ \A c \in Callers : pc[c] = "sync" => ordered[c][m] <= quantity'[m]
    <3>1. CASE m = l
      <4>1. ~Undercuts(l, q)
        BY <2>1, <2>5, <3>1
      <4>2. \A c \in Callers : ordered[c][l] \in Int
        BY LinesAssumption DEF TypeOK, Qty
      <4>3. delivered[l] \in Int /\ billed[l] \in Int
        BY DEF TypeOK
      <4>4. QED
        BY <2>4, <3>1, <4>1, <4>2, <4>3 DEF Undercuts
    <3>2. CASE m # l
      <4>1. quantity'[m] = quantity[m] /\ m \in Lines \ undercut
        BY <2>1, <2>3, <2>5, <3>2 DEF TypeOK
      <4>2. QED
        BY <4>1 DEF WatermarkInv, WithinOrdered, SyncFresh
    <3>3. QED
      BY <3>1, <3>2
  <2>6. QED
    BY <2>2, <2>5 DEF WatermarkInv, WithinOrdered, SyncFresh
<1>3. CASE Confirm \/ Cancel
  BY <1>3, WatermarkUndisturbed DEF Confirm, Cancel, calls, edits
<1>4. ASSUME NEW c \in Callers,
             \/ Abandon(c) \/ AllocateItem(c) \/ Rollup(c) \/ Advance(c)
             \/ \E w \in Watermarks, request \in Requests : BeginMark(c, w, request)
      PROVE  WatermarkInv'
  <2>1. UNCHANGED <<quantity, delivered, billed, undercut>>
    BY <1>4 DEF Abandon, AllocateItem, Rollup, Advance, BeginMark, rows, edits
  <2>2. \A d \in Callers : pc'[d] = "sync" => pc[d] = "sync" /\ ordered'[d] = ordered[d]
    BY <1>4 DEF Abandon, AllocateItem, Rollup, Advance, BeginMark, TypeOK
  <2>3. QED
    BY <2>1, <2>2, WatermarkUndisturbed
<1>5. ASSUME NEW c \in Callers, CommitMark(c) PROVE WatermarkInv'
  <2>1. UNCHANGED <<quantity, ordered, undercut>> /\ pc' = [pc EXCEPT ![c] = "rollup"]
    BY <1>5 DEF CommitMark, edits
  <2>2. ASSUME NEW l \in Lines \ undercut
        PROVE  delivered'[l] <= quantity'[l] /\ billed'[l] <= quantity'[l]
    <3>1. /\ \/ delivered'[l] = delivered[l]
             \/ delivered'[l] > delivered[l] /\ delivered'[l] <= quantity[l]
          /\ \/ billed'[l] = billed[l]
             \/ billed'[l] > billed[l] /\ billed'[l] <= PolicyBase(l, quantity, delivered)
      BY <1>5, Commit
    <3>2. delivered[l] <= quantity[l] /\ billed[l] <= quantity[l]
      BY DEF WatermarkInv, WithinOrdered
    <3>3. PolicyBase(l, quantity, delivered) <= quantity[l]
      BY <3>2, LinesAssumption DEF PolicyBase, TypeOK, Qty
    <3>4. /\ delivered'[l] \in Nat /\ billed'[l] \in Nat
          /\ quantity[l] \in Nat /\ PolicyBase(l, quantity, delivered) \in Nat
      BY <1>5, LinesAssumption DEF CommitMark, Plus, PolicyBase, TypeOK, Qty
    <3>5. QED
      BY <2>1, <3>1, <3>2, <3>3, <3>4
  <2>3. SyncFresh'
    BY <2>1 DEF WatermarkInv, SyncFresh, TypeOK
  <2>4. QED
    BY <2>1, <2>2, <2>3 DEF WatermarkInv, WithinOrdered
<1>6. ASSUME NEW c \in Callers, SyncRead(c) PROVE WatermarkInv'
  <2>1. /\ UNCHANGED <<quantity, delivered, billed, undercut>>
        /\ pc' = [pc EXCEPT ![c] = "sync"]
        /\ ordered' = [ordered EXCEPT ![c] = quantity]
    BY <1>6 DEF SyncRead, rows, edits
  <2>2. \A l \in Lines : quantity[l] <= quantity[l]
    BY LinesAssumption DEF TypeOK, Qty
  <2>3. SyncFresh'
    BY <2>1, <2>2 DEF WatermarkInv, SyncFresh, TypeOK
  <2>4. QED
    BY <2>1, <2>3 DEF WatermarkInv, WithinOrdered
<1>7. ASSUME NEW c \in Callers, SyncWrite(c) PROVE WatermarkInv'
  <2>1. /\ UNCHANGED <<quantity, billed, undercut>>
        /\ pc' = [pc EXCEPT ![c] = "rollup"]
        /\ ordered' = [ordered EXCEPT ![c] = NoQty]
        /\ pc[c] = "sync"
    BY <1>7 DEF SyncWrite, edits
  <2>2. ASSUME NEW l \in Lines \ undercut
        PROVE  delivered'[l] <= quantity'[l] /\ billed'[l] <= quantity'[l]
    <3>1. delivered'[l] = delivered[l] \/ delivered'[l] <= ordered[c][l]
      BY <1>7, Restatement
    <3>2. delivered[l] <= quantity[l] /\ billed[l] <= quantity[l] /\ ordered[c][l] <= quantity[l]
      BY <2>1 DEF WatermarkInv, WithinOrdered, SyncFresh
    <3>3. delivered'[l] \in Int
      BY <1>0 DEF TypeOK
    <3>4. quantity[l] \in Int /\ ordered[c][l] \in Int
      BY LinesAssumption DEF TypeOK, Qty
    <3>5. QED
      BY <2>1, <3>1, <3>2, <3>3, <3>4
  <2>3. SyncFresh'
    BY <2>1 DEF WatermarkInv, SyncFresh, TypeOK
  <2>4. QED
    BY <2>1, <2>2, <2>3 DEF WatermarkInv, WithinOrdered
<1>8. QED
  BY <1>1, <1>2, <1>3, <1>4, <1>5, <1>6, <1>7
     DEF Next, Step, RefuseItem, SyncNothing, Fail, DeadlockVictim

-----------------------------------------------------------------------------
(* Where watermarks only rise, what a rollup computed stays true until its *)
(* status write lands, however late that is, unless an edit of a draft has *)
(* raised a line in between.                                               *)

Claimed(s) ==
    /\ s \in {"to_bill", "completed"} => DeliveredAll(quantity, delivered)
    /\ s = "completed" => BilledAll(quantity, delivered, billed)

RisingInv ==
    ~MovesSynced /\ ~outgrown =>
        /\ Claimed(status)
        /\ \A c \in Callers : pc[c] = "advance" => Claimed(next[c])

\* A commit makes no claim false: a fully delivered line can take no delivery,
\* so the basis of a fully delivered order no longer moves.
LEMMA CommitKeepsClaims ==
  ASSUME TypeOK, AddedFits, NEW c \in Callers, CommitMark(c), NEW s, Claimed(s)
  PROVE  s' = s => Claimed(s)'
<1> SUFFICES ASSUME s' = s PROVE Claimed(s)'
  OBVIOUS
<1>1. quantity' = quantity
  BY DEF CommitMark
<1>2. ASSUME NEW l \in Lines
      PROVE  /\ delivered[l] \in Nat /\ delivered'[l] \in Nat
             /\ billed[l] \in Nat /\ billed'[l] \in Nat
             /\ quantity[l] \in Nat
  BY LinesAssumption DEF CommitMark, Plus, TypeOK, Qty
<1>3. ASSUME NEW l \in Lines
      PROVE  /\ \/ delivered'[l] = delivered[l]
                \/ delivered'[l] > delivered[l] /\ delivered'[l] <= quantity[l]
             /\ billed'[l] >= billed[l]
  <2>1. \/ billed'[l] = billed[l]
        \/ billed'[l] > billed[l] /\ billed'[l] <= PolicyBase(l, quantity, delivered)
    BY Commit
  <2>2. \/ delivered'[l] = delivered[l]
        \/ delivered'[l] > delivered[l] /\ delivered'[l] <= quantity[l]
    BY Commit
  <2>3. QED
    BY <1>2, <2>1, <2>2
<1>4. Owed \subseteq Lines
  BY DEF Owed
<1>5. CASE DeliveredAll(quantity, delivered)
  <2>1. \A l \in Owed : delivered'[l] = delivered[l]
    BY <1>2, <1>3, <1>4, <1>5 DEF DeliveredAll
  <2>2. DeliveredAll(quantity', delivered')
    BY <1>1, <1>5, <2>1 DEF DeliveredAll
  <2>3. \A l \in Owed : PolicyBase(l, quantity', delivered') = PolicyBase(l, quantity, delivered)
    BY <1>1, <2>1 DEF PolicyBase
  <2>4. \A l \in Owed : PolicyBase(l, quantity, delivered) \in Nat
    BY <1>2, <1>4 DEF PolicyBase
  <2>5. BilledAll(quantity, delivered, billed) => BilledAll(quantity', delivered', billed')
    BY <1>2, <1>3, <1>4, <2>3, <2>4 DEF BilledAll
  <2>6. QED
    BY <2>2, <2>5 DEF Claimed
<1>6. CASE ~DeliveredAll(quantity, delivered)
  BY <1>6 DEF Claimed
<1>7. QED
  BY <1>5, <1>6

\* recompute_order_status: where watermarks only rise, no step makes false what
\* a status, or a rollup not yet written, claims.
LEMMA RisingStep ==
  TypeOK /\ AddedFits /\ CallInv /\ RisingInv /\ [Next]_vars => RisingInv'
<1> SUFFICES ASSUME TypeOK, AddedFits, CallInv, RisingInv, [Next]_vars,
                    ~MovesSynced, ~outgrown'
             PROVE  /\ Claimed(status)'
                    /\ \A c \in Callers : pc'[c] = "advance" => Claimed(next[c])'
  BY DEF RisingInv
<1> DEFINE Goal == /\ Claimed(status)
                   /\ \A c \in Callers : pc[c] = "advance" => Claimed(next[c])
<1>0. Goal
  <2>1. (\E l \in Lines : EditLine(l)) \/ outgrown' = outgrown
    <3>1. ASSUME NEW c \in Callers, Step(c) \/ Fail(c) \/ DeadlockVictim(c) \/ SyncRead(c)
          PROVE  outgrown' = outgrown
      BY <3>1 DEF Step, AllocateItem, RefuseItem, CommitMark, SyncWrite, SyncNothing, Rollup,
                  Advance, SyncRead, Fail, DeadlockVictim, Abandon, edits
    <3>2. ASSUME NEW c \in Callers, NEW w \in Watermarks, NEW request \in Requests,
                 BeginMark(c, w, request)
          PROVE  outgrown' = outgrown
      BY <3>2 DEF BeginMark, edits
    <3>3. CASE Confirm \/ Cancel \/ UNCHANGED vars
      BY <3>3 DEF Confirm, Cancel, vars, edits
    <3>4. QED
      BY <3>1, <3>2, <3>3 DEF Next
  <2>2. outgrown => outgrown'
    BY <2>1 DEF EditLine
  <2>3. QED
    BY <2>2 DEF RisingInv
<1>1. CASE UNCHANGED <<status, quantity, delivered, billed, pc, next>>
  BY <1>0, <1>1 DEF Claimed
<1>2. ASSUME NEW l \in Lines, EditLine(l) PROVE Goal'
  <2>1. status' = "draft" /\ UNCHANGED <<delivered, billed, pc, next>>
    BY <1>2 DEF EditLine, calls
  <2>2. PICK q \in Quantities : quantity' = [quantity EXCEPT ![l] = q] /\ ~Outgrows(l, q)
    BY <1>2 DEF EditLine
  <2>3. ASSUME NEW c \in Callers, pc[c] = "advance" PROVE Claimed(next[c])'
    <3>1. CASE next[c] \in {"to_bill", "completed"}
      <4>1. ~(q > quantity[l])
        BY <2>2, <2>3, <3>1 DEF Outgrows
      <4>2. q \in Int /\ \A m \in Lines : quantity[m] \in Int /\ delivered[m] \in Int /\ billed[m] \in Int
        BY CallsAssumption, LinesAssumption DEF TypeOK, Qty
      <4>3. \A m \in Lines : quantity'[m] <= quantity[m] /\ quantity'[m] \in Int
        BY <2>2, <4>1, <4>2 DEF TypeOK
      <4>4. Claimed(next[c]) /\ Owed \subseteq Lines
        BY <1>0, <2>3 DEF Owed
      <4>5. DeliveredAll(quantity, delivered) => DeliveredAll(quantity', delivered')
        BY <2>1, <4>2, <4>3, <4>4 DEF DeliveredAll
      <4>6. BilledAll(quantity, delivered, billed) => BilledAll(quantity', delivered', billed')
        BY <2>1, <4>2, <4>3, <4>4 DEF BilledAll, PolicyBase
      <4>7. QED
        BY <2>1, <4>4, <4>5, <4>6 DEF Claimed
    <3>2. CASE next[c] \notin {"to_bill", "completed"}
      BY <2>1, <3>2 DEF Claimed
    <3>3. QED
      BY <3>1, <3>2
  <2>4. QED
    BY <2>1, <2>3 DEF Claimed
<1>3. ASSUME Confirm \/ Cancel PROVE Goal'
  <2>1. status' \in {"to_deliver_and_bill", "cancelled"}
        /\ UNCHANGED <<quantity, delivered, billed, pc, next>>
    BY <1>3 DEF Confirm, Cancel, calls
  <2>2. QED
    BY <1>0, <2>1 DEF Claimed
<1>4. ASSUME NEW c \in Callers, Abandon(c) PROVE Goal'
  BY <1>0, <1>4 DEF Abandon, rows, Claimed, TypeOK
<1>5. ASSUME NEW c \in Callers, NEW w \in Watermarks, NEW request \in Requests,
             BeginMark(c, w, request)
      PROVE  Goal'
  BY <1>0, <1>5 DEF BeginMark, rows, Claimed, TypeOK
<1>6. ASSUME NEW c \in Callers, AllocateItem(c) PROVE Goal'
  BY <1>0, <1>6 DEF AllocateItem, rows, Claimed
<1>7. ASSUME NEW c \in Callers, CommitMark(c) PROVE Goal'
  <2>1. status' = status /\ next' = next /\ pc' = [pc EXCEPT ![c] = "rollup"]
    BY <1>7 DEF CommitMark
  <2>2. Claimed(status)'
    BY <1>0, <1>7, <2>1, CommitKeepsClaims
  <2>3. ASSUME NEW d \in Callers, pc'[d] = "advance" PROVE Claimed(next[d])'
    <3>1. pc[d] = "advance"
      BY <2>1, <2>3 DEF TypeOK
    <3>2. Claimed(next[d]) /\ next'[d] = next[d]
      BY <1>0, <2>1, <3>1
    <3>3. QED
      BY <1>7, <3>2, CommitKeepsClaims
  <2>4. QED
    BY <2>2, <2>3
<1>8. ASSUME NEW c \in Callers, SyncRead(c) \/ SyncWrite(c) PROVE Goal'
  BY <1>8 DEF SyncRead, SyncWrite, CallInv
<1>9. ASSUME NEW c \in Callers, Rollup(c) PROVE Goal'
  <2>1. UNCHANGED <<status, quantity, delivered, billed>>
    BY <1>9 DEF Rollup, rows
  <2>2. pc' = [pc EXCEPT ![c] = "advance"]
        /\ next' = [next EXCEPT ![c] = NextStatus(BilledAll(quantity, delivered, billed),
                                                  DeliveredAll(quantity, delivered))]
    BY <1>9 DEF Rollup
  <2>3. Claimed(NextStatus(BilledAll(quantity, delivered, billed),
                           DeliveredAll(quantity, delivered)))
    BY DEF NextStatus, Claimed
  <2>4. \A d \in Callers : pc'[d] = "advance" => Claimed(next'[d])
    BY <1>0, <2>2, <2>3 DEF TypeOK
  <2>5. QED
    BY <1>0, <2>1, <2>4 DEF Claimed
<1>10. ASSUME NEW c \in Callers, Advance(c) PROVE Goal'
  <2>1. /\ UNCHANGED <<quantity, delivered, billed>>
        /\ pc' = [pc EXCEPT ![c] = "idle"] /\ next' = [next EXCEPT ![c] = "draft"]
        /\ status' \in {status, next[c]}
    BY <1>10 DEF Advance
  <2>2. Claimed(next[c])
    BY <1>0, <1>10 DEF Advance
  <2>3. Claimed(status')
    BY <1>0, <2>1, <2>2
  <2>4. \A d \in Callers : pc'[d] = "advance" => Claimed(next'[d])
    BY <1>0, <2>1 DEF TypeOK
  <2>5. QED
    BY <2>1, <2>3, <2>4 DEF Claimed
<1>11. QED
  BY <1>1, <1>2, <1>3, <1>4, <1>5, <1>6, <1>7, <1>8, <1>9, <1>10
     DEF Next, Step, RefuseItem, SyncNothing, Fail, DeadlockVictim, vars, rows, calls

-----------------------------------------------------------------------------
(* Where watermarks only rise, what has been billed of a line stays within *)
(* what its policy makes billable: a bill fits when it commits, and the    *)
(* basis it was measured against shrinks only by an edit that undercuts it.*)

WithinBasis == \A l \in Lines \ undercut : billed[l] <= PolicyBase(l, quantity, delivered)

BasisInv == ~MovesSynced => WithinBasis

\* No step bills a line past its basis, and none but an undercutting edit
\* takes the basis away.
LEMMA BasisStep == TypeOK /\ AddedFits /\ CallInv /\ BasisInv /\ [Next]_vars => BasisInv'
<1> SUFFICES ASSUME TypeOK, AddedFits, CallInv, BasisInv, [Next]_vars, ~MovesSynced
             PROVE  WithinBasis'
  BY DEF BasisInv
<1>0. WithinBasis
  BY DEF BasisInv
<1>1. CASE UNCHANGED <<quantity, delivered, billed, undercut>>
  BY <1>0, <1>1 DEF WithinBasis, PolicyBase
<1>2. ASSUME NEW l \in Lines, EditLine(l) PROVE WithinBasis'
  <2>1. PICK q \in Quantities :
           /\ quantity' = [quantity EXCEPT ![l] = q]
           /\ undercut' = IF Undercuts(l, q) THEN undercut \cup {l} ELSE undercut
    BY <1>2 DEF EditLine
  <2>2. billed' = billed /\ delivered' = delivered /\ undercut \subseteq undercut'
    BY <1>2, <2>1 DEF EditLine
  <2> SUFFICES ASSUME NEW m \in Lines \ undercut'
               PROVE  billed[m] <= PolicyBase(m, quantity', delivered)
    BY <2>2 DEF WithinBasis
  <2>3. m \in Lines \ undercut /\ billed[m] <= PolicyBase(m, quantity, delivered)
    BY <1>0, <2>2 DEF WithinBasis
  <2>4. CASE m = l
    <3>1. ~(billed[l] > q) /\ quantity'[l] = q
      BY <2>1, <2>4 DEF Undercuts, TypeOK
    <3>2. q \in Int /\ billed[l] \in Int
      BY CallsAssumption, LinesAssumption DEF TypeOK, Qty
    <3>3. QED
      BY <2>3, <2>4, <3>1, <3>2 DEF PolicyBase
  <2>5. CASE m # l
    BY <2>1, <2>3, <2>5 DEF PolicyBase, TypeOK
  <2>6. QED
    BY <2>4, <2>5
<1>3. ASSUME NEW c \in Callers, CommitMark(c) PROVE WithinBasis'
  <2> SUFFICES ASSUME NEW l \in Lines \ undercut
               PROVE  billed'[l] <= PolicyBase(l, quantity', delivered')
    BY <1>3 DEF WithinBasis, CommitMark, edits
  <2>1. /\ \/ delivered'[l] = delivered[l]
           \/ delivered'[l] > delivered[l] /\ delivered'[l] <= quantity[l]
        /\ \/ billed'[l] = billed[l]
           \/ billed'[l] > billed[l] /\ billed'[l] <= PolicyBase(l, quantity, delivered)
    BY <1>3, Commit
  <2>2. /\ delivered[l] \in Nat /\ delivered'[l] \in Nat /\ quantity[l] \in Nat
        /\ billed[l] \in Nat /\ billed'[l] \in Nat
    BY <1>3, LinesAssumption DEF CommitMark, Plus, TypeOK, Qty
  <2>3. billed[l] <= PolicyBase(l, quantity, delivered) /\ quantity' = quantity
    BY <1>0, <1>3 DEF WithinBasis, CommitMark
  <2>4. QED
    BY <2>1, <2>2, <2>3 DEF PolicyBase
<1>4. ASSUME NEW c \in Callers, SyncWrite(c) PROVE WithinBasis'
  BY <1>4 DEF SyncWrite, CallInv
<1>5. QED
  BY <1>1, <1>2, <1>3, <1>4
     DEF Next, Step, Confirm, Cancel, BeginMark, AllocateItem, RefuseItem, SyncRead,
         SyncNothing, Rollup, Advance, Fail, DeadlockVictim, Abandon, rows, calls, edits, vars

-----------------------------------------------------------------------------
(* The inductive invariant.                                                *)

IInv ==
    /\ TypeOK
    /\ LockInv
    /\ AddedFits
    /\ CallInv
    /\ BoundInv
    /\ WatermarkInv
    /\ RisingInv
    /\ BasisInv

\* A freshly created order satisfies every part of the inductive invariant.
LEMMA InitIInv == Init => IInv
<1> SUFFICES ASSUME Init PROVE IInv
  OBVIOUS
<1>1. TypeOK
  BY InitTypeOK
<1>2. LockInv
  BY DEF Init, LockInv, LocksExclusive, CleanOutside, AddedLocked, NoQty
<1>3. AddedFits
  BY DEF Init, AddedFits, NoQty
<1>4. CallInv
  BY DEF Init, CallInv
<1>5. BoundInv
  BY LinesAssumption DEF Init, BoundInv, NoQty
<1>6. WatermarkInv
  <2>1. \A l \in Lines : quantity[l] >= 0
    BY <1>1, LinesAssumption DEF TypeOK, Qty
  <2>2. WithinOrdered
    BY <2>1 DEF Init, WithinOrdered, NoQty
  <2>3. SyncFresh
    BY DEF Init, SyncFresh
  <2>4. QED
    BY <2>2, <2>3 DEF WatermarkInv
<1>7. RisingInv
  BY DEF Init, RisingInv, Claimed
<1>8. BasisInv
  <2>1. \A l \in Lines : quantity[l] >= 0 /\ delivered[l] >= 0
    BY <1>1, LinesAssumption DEF TypeOK, Qty
  <2>2. QED
    BY <2>1 DEF Init, BasisInv, WithinBasis, PolicyBase, NoQty
<1>9. QED
  BY <1>1, <1>2, <1>3, <1>4, <1>5, <1>6, <1>7, <1>8 DEF IInv

(* The inductive invariant holds of every behaviour. *)
THEOREM Invariance == Spec => []IInv
<1>1. IInv /\ [Next]_vars => IInv'
  BY TypeStep, LockStep, FitStep, CallStep, BoundStep, WatermarkStep, RisingStep, BasisStep
     DEF IInv
<1>2. QED
  BY InitIInv, <1>1, PTL DEF Spec

(* mark_delivered, mark_invoiced and the sync's clamp, on drafts as well as *)
(* on confirmed orders: neither watermark of a line that no edit has        *)
(* undercut ever exceeds its ordered quantity, whatever runs concurrently   *)
(* or dies.                                                                 *)
THEOREM WatermarksBounded == Spec => []WithinOrdered
<1>1. IInv => WithinOrdered
  BY DEF IInv, WatermarkInv
<1>2. QED
  BY <1>1, Invariance, PTL

(* recompute_order_status: where watermarks only rise, `to_bill' and        *)
(* `completed' are never claimed of an order they do not hold for, although *)
(* the rollup and the status write are separate statements, unless a draft  *)
(* edit has raised a line between the two.                                  *)
THEOREM StatusIsEarned ==
  ASSUME ~MovesSynced
  PROVE  Spec => []StatusEarned
<1>1. IInv => StatusEarned
  <2> SUFFICES ASSUME IInv, ~outgrown PROVE StatusEarned
    BY DEF StatusEarned
  <2>1. Claimed(status)
    BY DEF IInv, RisingInv
  <2>2. ASSUME status = "completed"
        PROVE  OrderInvoiceStatus(status, quantity, delivered, billed) # "to invoice"
    <3>1. \A l \in Owed : billed[l] >= PolicyBase(l, quantity, delivered)
      BY <2>1, <2>2 DEF Claimed, BilledAll
    <3>2. \A l \in Owed : LineInvoiceStatus(status, l, quantity, delivered, billed) # "to invoice"
      <4> SUFFICES ASSUME NEW l \in Owed
                   PROVE  LineInvoiceStatus(status, l, quantity, delivered, billed) # "to invoice"
        OBVIOUS
      <4> DEFINE base == PolicyBase(l, quantity, delivered)
      <4>1. base \in Int /\ billed[l] \in Int
        BY DEF IInv, TypeOK, Owed, PolicyBase, Qty
      <4>2. ~(base > billed[l])
        BY <3>1, <4>1
      <4>3. QED
        BY <2>2, <4>2 DEF LineInvoiceStatus
    <3>3. "to invoice" \notin
            {LineInvoiceStatus(status, l, quantity, delivered, billed) : l \in Owed}
      BY <3>2
    <3>4. QED
      BY <3>3 DEF OrderInvoiceStatus
  <2>3. QED
    BY <2>1, <2>2 DEF Claimed, StatusEarned
<1>2. QED
  BY <1>1, Invariance, PTL

(* build_invoice_request against mark_invoiced: where watermarks only rise, *)
(* what a request asks to bill of an item is what the writer has room for,  *)
(* so that an invoice for it is neither refused nor short, unless an edit   *)
(* has undercut one of the item's lines.                                    *)
THEOREM RequestsAreBillable ==
  ASSUME ~MovesSynced
  PROVE  Spec => []RequestedIsBillable
<1>1. IInv => RequestedIsBillable
  <2> DEFINE Remainder(i) ==
               [l \in ItemRows(i) |-> BillingRemainder(l, quantity, delivered, billed)]
             Room(i) ==
               [l \in ItemRows(i) |-> BillingCapacity(l, quantity, delivered, billed)]
  <2> SUFFICES ASSUME IInv, NEW i \in Items, ItemRows(i) \cap undercut = {}
               PROVE  Total(Remainder(i), ItemRows(i)) = Total(Room(i), ItemRows(i))
    BY DEF RequestedIsBillable
  <2>1. ASSUME NEW l \in ItemRows(i)
        PROVE  BillingRemainder(l, quantity, delivered, billed)
                 = BillingCapacity(l, quantity, delivered, billed)
    <3>1. l \in Lines \ undercut
      BY DEF ItemRows
    <3>2. billed[l] <= PolicyBase(l, quantity, delivered)
      BY <3>1 DEF IInv, BasisInv, WithinBasis
    <3>3. billed[l] \in Nat /\ PolicyBase(l, quantity, delivered) \in Nat
      BY <3>1, LinesAssumption DEF IInv, TypeOK, PolicyBase, Qty
    <3>4. QED
      BY <3>1, <3>2, <3>3 DEF BillingRemainder, BillingCapacity, Positive
  <2>2. Remainder(i) = Room(i)
    BY <2>1
  <2>3. QED
    BY <2>2
<1>2. QED
  BY <1>1, Invariance, PTL

(* lock_billing_capacity: a billed watermark never moves past the policy    *)
(* basis that holds when its transaction commits.                           *)
THEOREM BillsStayWithinBasis == Spec => BillsWithinBasis
<1> DEFINE Within == \A l \in Lines : billed'[l] > billed[l] =>
                        billed'[l] <= PolicyBase(l, quantity', delivered')
<1>1. IInv /\ [Next]_vars => [Within]_vars
  <2> SUFFICES ASSUME IInv, [Next]_vars PROVE Within
    OBVIOUS
  <2>0. \A l \in Lines : billed[l] \in Nat
    BY DEF IInv, TypeOK
  <2>1. CASE billed' = billed
    BY <2>0, <2>1
  <2>2. ASSUME NEW c \in Callers, CommitMark(c) PROVE Within
    <3> SUFFICES ASSUME NEW l \in Lines, billed'[l] > billed[l]
                 PROVE  billed'[l] <= PolicyBase(l, quantity', delivered')
      OBVIOUS
    <3>1. /\ \/ billed'[l] = billed[l]
             \/ billed'[l] > billed[l] /\ billed'[l] <= PolicyBase(l, quantity, delivered)
          /\ delivered' = delivered \/ billed' = billed
      BY <2>2, Commit DEF IInv
    <3>2. quantity' = quantity
      BY <2>2 DEF CommitMark
    <3>3. QED
      BY <2>0, <3>1, <3>2
  <2>3. QED
    BY <2>1, <2>2
       DEF Next, Step, EditLine, Confirm, Cancel, BeginMark, AllocateItem, RefuseItem, SyncRead,
           SyncWrite, SyncNothing, Rollup, Advance, Fail, DeadlockVictim, Abandon, rows, calls,
           vars
<1>2. QED
  BY <1>1, Invariance, PTL DEF Spec, BillsWithinBasis

(* tg_sales_orders: no schedule makes a status write that the declared-moves *)
(* trigger would refuse, so no recompute fails after its watermarks landed.  *)
THEOREM OnlyDeclaredMovesHappen == Spec => OnlyDeclaredMoves
<1> DEFINE Declared == status' # status => <<status, status'>> \in DeclaredMoves
<1>1. IInv /\ [Next]_vars => [Declared]_vars
  <2> SUFFICES ASSUME IInv, [Next]_vars PROVE Declared
    OBVIOUS
  <2>1. CASE status' = status
    BY <2>1
  <2>2. CASE Confirm \/ Cancel
    BY <2>2 DEF Confirm, Cancel, DeclaredMoves, InFlight
  <2>3. ASSUME NEW c \in Callers, Advance(c) PROVE Declared
    BY <2>3 DEF Advance, DeclaredMoves, InFlight, IInv, CallInv
  <2>4. QED
    BY <2>1, <2>2, <2>3
       DEF Next, Step, EditLine, BeginMark, AllocateItem, RefuseItem, CommitMark, SyncRead,
           SyncWrite, SyncNothing, Rollup, Fail, DeadlockVictim, Abandon, rows, calls, vars
<1>2. QED
  BY <1>1, Invariance, PTL DEF Spec, OnlyDeclaredMoves

-----------------------------------------------------------------------------
(* Implementation of the ledger: a call takes effect at its commit, at the *)
(* sync's write or at its status write, and every other step of it leaves  *)
(* the rows alone.                                                         *)

\* Every step is a step of the ledger or leaves its variables alone.
LEMMA LedgerStep == IInv /\ IInv' /\ [Next]_vars => [Ledger!Next]_(Ledger!vars)
<1> SUFFICES ASSUME IInv, IInv', [Next]_vars
             PROVE  Ledger!Next \/ UNCHANGED <<status, quantity, delivered, billed, edits>>
  BY DEF Ledger!vars, Ledger!edits, edits
<1> USE DEF IInv
<1>0. delivered' \in [Lines -> Qty] /\ billed' \in [Lines -> Qty]
  <2>1. delivered' \in [Lines -> Nat] /\ billed' \in [Lines -> Nat]
    BY DEF TypeOK
  <2>2. \A l \in Lines : delivered'[l] <= MaxQty /\ billed'[l] <= MaxQty
    BY DEF BoundInv
  <2>3. QED
    BY <2>1, <2>2, LinesAssumption DEF Qty
<1>1. CASE UNCHANGED <<status, quantity, delivered, billed, edits>>
  BY <1>1
<1>2. ASSUME NEW l \in Lines, EditLine(l) PROVE Ledger!Edit
  <2>1. PICK q \in Quantities :
           /\ quantity' = [quantity EXCEPT ![l] = q]
           /\ undercut' = IF Undercuts(l, q) THEN undercut \cup {l} ELSE undercut
           /\ outgrown' = (outgrown \/ Outgrows(l, q))
    BY <1>2 DEF EditLine
  <2>2. q \in Int /\ delivered[l] \in Int /\ billed[l] \in Int
    BY CallsAssumption, LinesAssumption DEF TypeOK, Qty
  <2>3. \/ undercut' = undercut /\ (l \in undercut \/ (delivered[l] <= q /\ billed[l] <= q))
        \/ undercut' = undercut \cup {l} /\ (MovesSynced \/ delivered[l] > q \/ billed[l] > q)
    <3>1. CASE Undercuts(l, q)
      <4>1. MovesSynced \/ delivered[l] > q \/ billed[l] > q
        BY <3>1 DEF Undercuts, CallInv
      <4>2. QED
        BY <2>1, <3>1, <4>1
    <3>2. CASE ~Undercuts(l, q)
      BY <2>1, <2>2, <3>2 DEF Undercuts
    <3>3. QED
      BY <3>1, <3>2
  <2>4. outgrown' = outgrown \/ (outgrown' = TRUE /\ q > quantity[l])
    BY <2>1 DEF Outgrows, TypeOK
  <2>5. UNCHANGED <<status, delivered, billed>> /\ status = "draft"
    BY <1>2 DEF EditLine
  <2>6. QED
    BY <2>1, <2>3, <2>4, <2>5 DEF Ledger!Edit
<1>3. CASE Confirm
  BY <1>3 DEF Confirm, Ledger!Next, Ledger!Confirm, Ledger!edits, edits
<1>4. CASE Cancel
  <2>1. billed = NoQty
    BY <1>4 DEF Cancel, TypeOK, NoQty
  <2>2. Ledger!Cancel
    BY <1>4, <2>1 DEF Cancel, Ledger!Cancel, InFlight, Ledger!InFlight, NoQty, Ledger!NoQty,
                      Ledger!edits, edits
  <2>3. QED
    BY <2>2 DEF Ledger!Next
<1>5. ASSUME NEW c \in Callers, CommitMark(c) PROVE Ledger!Deliver \/ Ledger!Bill
  <2>2. UNCHANGED <<status, quantity, Ledger!edits>>
    BY <1>5 DEF CommitMark, Ledger!edits, edits
  <2>3. \A l \in Lines :
           /\ \/ delivered'[l] = delivered[l]
              \/ delivered'[l] > delivered[l] /\ delivered'[l] <= quantity[l]
           /\ \/ billed'[l] = billed[l]
              \/ billed'[l] > billed[l] /\ billed'[l] <= PolicyBase(l, quantity, delivered)
    BY <1>5, Commit
  <2>4. CASE mark[c] = "delivered"
    <3>1. billed' = billed
      BY <1>5, <2>4 DEF CommitMark
    <3>2. QED
      BY <1>0, <2>2, <2>3, <3>1 DEF Ledger!Deliver, Qty, Ledger!Qty
  <2>5. CASE mark[c] # "delivered"
    <3>1. delivered' = delivered
      BY <1>5, <2>5 DEF CommitMark
    <3>2. QED
      BY <1>0, <2>2, <2>3, <3>1
         DEF Ledger!Bill, Qty, Ledger!Qty, PolicyBase, Ledger!PolicyBase
  <2>6. QED
    BY <2>4, <2>5
<1>6. ASSUME NEW c \in Callers, SyncWrite(c) PROVE Ledger!Restate
  <2>1. MovesSynced
    BY <1>6 DEF SyncWrite, CallInv
  <2>2. UNCHANGED <<status, quantity, billed, undercut, Ledger!edits>>
    BY <1>6 DEF SyncWrite, Ledger!edits, edits
  <2>3. \A l \in DownpaymentLines : delivered'[l] = delivered[l]
    BY <1>6, Restatement, LinesAssumption DEF Owed
  <2>4. \A l \in Lines \ undercut : delivered'[l] <= quantity[l]
    BY <2>2 DEF WatermarkInv, WithinOrdered
  <2>5. QED
    BY <1>0, <2>1, <2>2, <2>3, <2>4 DEF Ledger!Restate, Qty, Ledger!Qty
<1>7. ASSUME NEW c \in Callers, Advance(c), status' # status PROVE Ledger!Settle
  <2>1. /\ status \in InFlight /\ status' = next[c]
        /\ UNCHANGED <<quantity, delivered, billed, outgrown, Ledger!edits>>
    BY <1>7 DEF Advance, Ledger!edits, edits
  <2>2. status' \in InFlight \cup {"completed"}
    BY <1>7, <2>1 DEF Advance, CallInv
  <2>3. MovesSynced \/ outgrown \/ Claimed(status')
    BY <1>7, <2>1 DEF Advance, RisingInv
  <2>4. Claimed(status') => Ledger!Earned(status')
    BY DEF Claimed, Ledger!Earned, DeliveredAll, Ledger!DeliveredAll, BilledAll,
           Ledger!BilledAll, Owed, Ledger!Owed, PolicyBase, Ledger!PolicyBase
  <2>5. QED
    BY <2>1, <2>2, <2>3, <2>4 DEF Ledger!Settle, InFlight, Ledger!InFlight
<1>8. ASSUME NEW c \in Callers, Advance(c), status' = status
      PROVE  UNCHANGED <<status, quantity, delivered, billed, edits>>
  BY <1>8 DEF Advance
<1>9. QED
  BY <1>1, <1>2, <1>3, <1>4, <1>5, <1>6, <1>7, <1>8
     DEF Next, Step, BeginMark, AllocateItem, RefuseItem, SyncRead, SyncNothing, Rollup, Fail,
         DeadlockVictim, Abandon, rows, calls, vars, Ledger!Next

(* The locked, multi-statement, interruptible calls implement the ledger's  *)
(* atomic deliveries, bills, restatements and settlements.                  *)
THEOREM ImplementsTheLedger == Spec => ImplementsLedger
<1>1. Init => Ledger!Init
  BY DEF Init, Ledger!Init, NoQty, Ledger!NoQty
<1>2. QED
  BY <1>1, LedgerStep, Invariance, PTL DEF Spec, ImplementsLedger, Ledger!Spec
=============================================================================
