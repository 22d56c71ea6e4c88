------------------------- MODULE OrderConfirmProofs -------------------------
(***************************************************************************)
(* Proofs about OrderConfirm, for any lines, items and callers, port       *)
(* refusals and crashes included.                                          *)
(*                                                                         *)
(* The argument.  Only the guarded commit stamps, and no step leads back   *)
(* to draft (CommittedInv).  Where no line was edited under a confirm,     *)
(* what a call has read is what the lines still order (ReadInv), what the  *)
(* ports have done is a part of it (PortInv), and what a call has passed   *)
(* is done for every line (PassedInv), so that the flip, whichever call    *)
(* makes it, finds all of it done (ConfirmedInv).                          *)
(* An event is neither heard nor due before its flip, and due of one call  *)
(* after it (AnnounceInv).                                                 *)
(*                                                                         *)
(* The last part is about the order and the quotation side by side: their  *)
(* steps leave each other's variables alone, so that what QuotationProofs  *)
(* shows of a quotation holds there, too.                                  *)
(***************************************************************************)
EXTENDS MCDocuments, TLAPS

ServiceLines == {l \in Lines : item[l] \in ServiceItems}

CommittedInv ==
    /\ DraftUnstamped
    /\ DecreasedOnlyWhenCancelled
    /\ \A c \in Callers : pc[c] \in {"cancelled", "decrease"} => status = "cancelled"

IdleClean == \A c \in Callers : pc[c] = "idle" => costed[c] = NothingCosted

ReadInv ==
    ~disturbed => \A c \in Callers :
        /\ \A l \in Lines : costed[c][l] \in {NoItem, item[l]}
        /\ pc[c] \in {"launch", "mint"} => demand[c] = AsOrdered

PortInv ==
    ~disturbed =>
        /\ \A l \in Launched : item[l] \in StockItems /\ move[l] = AsOrdered[l]
        /\ minted \subseteq ServiceLines

PassedInv ==
    ~disturbed => \A c \in Callers :
        /\ pc[c] \in {"service", "mint", "commit"} =>
              \A l \in Lines : item[l] \in StockItems => l \in Launched
        /\ pc[c] = "commit" => reported[c] = ServiceLines /\ minted = ServiceLines

ConfirmedInv == LaunchedAsOrdered /\ MintedAsOrdered /\ StampedAsOrdered

ConfirmInv ==
    TypeOK /\ CommittedInv /\ IdleClean /\ ReadInv /\ PortInv /\ PassedInv /\ ConfirmedInv

-----------------------------------------------------------------------------
(* Type correctness.                                                       *)

\* The empty memories and the lines as they are ordered are well typed.
LEMMA MemoryTypes ==
  /\ NothingCosted \in [Lines -> Items \cup {NoItem}]
  /\ NothingRead \in [Lines -> OrderLine \cup {NoDemand}]
  /\ TypeOK => AsOrdered \in [Lines -> OrderLine]
BY DEF NothingCosted, NothingRead, AsOrdered, TypeOK, OrderLine

\* A freshly created order, with no call in flight, is well typed.
LEMMA InitTypes == Init => TypeOK
<1> SUFFICES ASSUME Init PROVE TypeOK
  OBVIOUS
<1>1. heard \in Seq(Events)
  BY DEF Init
<1>2. /\ costed \in [Callers -> [Lines -> Items \cup {NoItem}]]
      /\ demand \in [Callers -> [Lines -> OrderLine \cup {NoDemand}]]
      /\ reported \in [Callers -> SUBSET Lines]
      /\ pc \in [Callers -> Steps]
  BY MemoryTypes DEF Init, Steps
<1>3. QED
  BY <1>1, <1>2, MemoryTypes DEF Init, TypeOK, Statuses

\* Ending a call, whatever ended it, keeps the types of the callers' memory.
LEMMA ReturnTypes ==
  ASSUME TypeOK, NEW c \in Callers, Return(c)
  PROVE  /\ pc' \in [Callers -> Steps]
         /\ costed' \in [Callers -> [Lines -> Items \cup {NoItem}]]
         /\ demand' \in [Callers -> [Lines -> OrderLine \cup {NoDemand}]]
         /\ reported' \in [Callers -> SUBSET Lines]
BY MemoryTypes DEF Return, TypeOK, Steps

\* Every step of every call keeps the types.
LEMMA TypeStep == TypeOK /\ [Next]_vars => TypeOK'
<1> SUFFICES ASSUME TypeOK, [Next]_vars PROVE TypeOK'
  OBVIOUS
<1>1. ASSUME NEW l \in Lines, EditLine(l) PROVE TypeOK'
  <2>1. item' \in [Lines -> Items] /\ quantity' \in [Lines -> Quantities]
    BY <1>1 DEF EditLine, TypeOK
  <2>2. disturbed' \in BOOLEAN
    BY <1>1 DEF EditLine
  <2>3. UNCHANGED <<status, costOf, backref, ports, heard, calls>>
    BY <1>1 DEF EditLine
  <2>4. QED
    BY <2>1, <2>2, <2>3 DEF TypeOK, ports, calls
<1>2. ASSUME NEW c \in Callers, ReadLines(c) \/ ResolveCosts(c) PROVE TypeOK'
  <2>0. /\ item \in [Lines -> Items \cup {NoItem}]
        /\ costed \in [Callers -> [Lines -> Items \cup {NoItem}]]
    BY DEF TypeOK
  <2>1. costed' \in [Callers -> [Lines -> Items \cup {NoItem}]]
    BY <1>2, <2>0 DEF ReadLines, ResolveCosts
  <2>2. pc' \in [Callers -> Steps]
    BY <1>2 DEF ReadLines, ResolveCosts, Goto, TypeOK, Steps
  <2>3. UNCHANGED <<rows, ports, heard, demand, reported, disturbed>>
    BY <1>2 DEF ReadLines, ResolveCosts
  <2>4. QED
    BY <2>1, <2>2, <2>3 DEF TypeOK, rows, ports
<1>3. ASSUME NEW c \in Callers, ReadDemand(c) \/ ReadService(c) PROVE TypeOK'
  <2>1. demand' = [demand EXCEPT ![c] = AsOrdered]
    BY <1>3 DEF ReadDemand, ReadService
  <2>2. demand' \in [Callers -> [Lines -> OrderLine \cup {NoDemand}]]
    BY <2>1, MemoryTypes DEF TypeOK
  <2>3. QED
    BY <1>3, <2>2 DEF ReadDemand, ReadService, Goto, TypeOK, rows, ports, Steps
<1>4. ASSUME NEW c \in Callers, Launch(c) PROVE TypeOK'
  BY <1>4 DEF Launch, Goto, TypeOK, rows, Steps
<1>5. ASSUME NEW c \in Callers, Mint(c) PROVE TypeOK'
  BY <1>5 DEF Mint, Serviced, Goto, TypeOK, rows, Steps
<1>6. ASSUME NEW c \in Callers, CommitConfirm(c) PROVE TypeOK'
  BY <1>6 DEF CommitConfirm, StampCosts, StampBackrefs, Goto, TypeOK, ports, Steps, Statuses
<1>7. ASSUME NEW c \in Callers, Cancel(c) \/ RetryDecrease(c) PROVE TypeOK'
  BY <1>7 DEF Cancel, RetryDecrease, Goto, TypeOK, rows, ports, Steps, Statuses
<1>8. ASSUME NEW c \in Callers, PublishCancelled(c) PROVE TypeOK'
  BY <1>8 DEF PublishCancelled, Goto, TypeOK, rows, ports, Steps, Events
<1>9. ASSUME NEW c \in Callers, PublishConfirmed(c) PROVE TypeOK'
  BY <1>9, ReturnTypes DEF PublishConfirmed, TypeOK, rows, ports, Events
<1>10. ASSUME NEW c \in Callers, LogDecrease(c) PROVE TypeOK'
  BY <1>10, ReturnTypes DEF LogDecrease, Launched, TypeOK, rows
<1>11. ASSUME NEW c \in Callers, RefuseConfirm(c) \/ Fail(c) PROVE TypeOK'
  BY <1>11, ReturnTypes DEF RefuseConfirm, Fail, TypeOK, rows, ports
<1>12. CASE UNCHANGED vars
  BY <1>12 DEF vars, rows, ports, calls, TypeOK
<1>13. QED
  BY <1>1, <1>2, <1>3, <1>4, <1>5, <1>6, <1>7, <1>8, <1>9, <1>10, <1>11, <1>12
     DEF Next, Call, Continue

(* Type correctness, for any lines, items and callers.                     *)
THEOREM ConfirmTypeCorrect == Spec => []TypeOK
BY InitTypes, TypeStep, PTL DEF Spec

-----------------------------------------------------------------------------
(* Stamps and the decrease log follow their flips.                         *)

\* No step but the guarded commit stamps, none but the cancel's log tells the
\* stock side, and none leads back to draft or out of cancelled.
LEMMA CommittedStep == TypeOK /\ CommittedInv /\ [Next]_vars => CommittedInv'
<1> SUFFICES ASSUME TypeOK, CommittedInv, [Next]_vars PROVE CommittedInv'
  OBVIOUS
<1> USE DEF CommittedInv, DraftUnstamped, DecreasedOnlyWhenCancelled, TypeOK
<1>1. ASSUME NEW l \in Lines, EditLine(l) PROVE CommittedInv'
  BY <1>1 DEF EditLine, ports, calls
<1>2. ASSUME NEW c \in Callers,
             ReadLines(c) \/ ResolveCosts(c) \/ ReadDemand(c) \/ ReadService(c)
      PROVE  CommittedInv'
  BY <1>2 DEF ReadLines, ResolveCosts, ReadDemand, ReadService, Goto, rows, ports
<1>3. ASSUME NEW c \in Callers, Launch(c) \/ Mint(c) PROVE CommittedInv'
  BY <1>3 DEF Launch, Mint, Goto, rows
<1>4. ASSUME NEW c \in Callers, CommitConfirm(c) PROVE CommittedInv'
  BY <1>4 DEF CommitConfirm, Goto, ports
<1>5. ASSUME NEW c \in Callers, Cancel(c) PROVE CommittedInv'
  BY <1>5 DEF Cancel, Goto, ports
<1>6. ASSUME NEW c \in Callers, RetryDecrease(c) \/ PublishCancelled(c) PROVE CommittedInv'
  BY <1>6 DEF RetryDecrease, PublishCancelled, Goto, rows, ports
<1>7. ASSUME NEW c \in Callers, LogDecrease(c) PROVE CommittedInv'
  BY <1>7 DEF LogDecrease, Return, rows
<1>8. ASSUME NEW c \in Callers, RefuseConfirm(c) \/ Fail(c) \/ PublishConfirmed(c)
      PROVE  CommittedInv'
  BY <1>8 DEF RefuseConfirm, Fail, PublishConfirmed, Return, rows, ports
<1>9. CASE UNCHANGED vars
  BY <1>9 DEF vars, rows, ports, calls
<1>10. QED
  BY <1>1, <1>2, <1>3, <1>4, <1>5, <1>6, <1>7, <1>8, <1>9 DEF Next, Call, Continue

\* A freshly created order carries no stamp and no activity.
LEMMA InitCommitted == Init => CommittedInv
BY DEF Init, CommittedInv, DraftUnstamped, DecreasedOnlyWhenCancelled

(* stamp_unit_costs and stamp_service_backrefs inside the guard's            *)
(* transaction: no draft ever carries a cost or a project id, whatever raced *)
(* or died.                                                                  *)
THEOREM DraftsAreUnstamped == Spec => []DraftUnstamped
<1>1. TypeOK /\ CommittedInv => DraftUnstamped
  BY DEF CommittedInv
<1>2. QED
  BY InitTypes, InitCommitted, TypeStep, CommittedStep, <1>1, PTL DEF Spec

(* log_decrease_activities: the stock side is never told to give up a demand *)
(* of an order that is not cancelled, retries included.                      *)
THEOREM DecreaseFollowsCancel == Spec => []DecreasedOnlyWhenCancelled
<1>1. TypeOK /\ CommittedInv => DecreasedOnlyWhenCancelled
  BY DEF CommittedInv
<1>2. QED
  BY InitTypes, InitCommitted, TypeStep, CommittedStep, <1>1, PTL DEF Spec

(* The snapshot's single writer: stamps change in the step that confirms the *)
(* draft, and in no other.                                                   *)
THEOREM StampsAreFrozen == Spec => StampsFrozen
<1> DEFINE Stamped == costOf' # costOf \/ backref' # backref =>
                         status = "draft" /\ status' = "to_deliver_and_bill"
<1>1. [Next]_vars => [Stamped]_vars
  <2> SUFFICES ASSUME Next PROVE Stamped
    OBVIOUS
  <2>1. ASSUME NEW l \in Lines, EditLine(l) PROVE Stamped
    BY <2>1 DEF EditLine
  <2>2. ASSUME NEW c \in Callers, Continue(c) \/ Fail(c) PROVE Stamped
    BY <2>2 DEF Continue, Fail, ResolveCosts, ReadDemand, Launch, ReadService, Mint,
                CommitConfirm, RefuseConfirm, PublishConfirmed, PublishCancelled, LogDecrease,
                rows
  <2>3. ASSUME NEW c \in Callers, ReadLines(c) \/ Cancel(c) \/ RetryDecrease(c) PROVE Stamped
    BY <2>3 DEF ReadLines, Cancel, RetryDecrease, rows
  <2>4. QED
    BY <2>1, <2>2, <2>3 DEF Next, Call
<1>2. QED
  BY <1>1, PTL DEF Spec, StampsFrozen

-----------------------------------------------------------------------------
(* What a confirm launches, mints and stamps, where no line is edited      *)
(* under it.                                                               *)

\* A demand is told apart from the absence of one, whatever it is for.
LEMMA DemandIsSomething ==
  ASSUME TypeOK, NEW l \in Lines
  PROVE  AsOrdered[l] # NoDemand /\ AsOrdered[l].item = item[l]
BY ConfirmAssumption DEF AsOrdered, NoDemand, TypeOK

\* A step that touches neither the lines nor the history keeps what is ordered.
LEMMA SameOrder ==
  ASSUME UNCHANGED <<item, quantity>>
  PROVE  AsOrdered' = AsOrdered /\ ServiceLines' = ServiceLines
BY DEF AsOrdered, ServiceLines

\* A call that is over remembers no cost, so its next one starts afresh.
LEMMA IdleStep == TypeOK /\ IdleClean /\ [Next]_vars => IdleClean'
<1> SUFFICES ASSUME TypeOK, IdleClean, [Next]_vars PROVE IdleClean'
  OBVIOUS
<1> USE DEF IdleClean, TypeOK
<1>1. ASSUME NEW l \in Lines, EditLine(l) PROVE IdleClean'
  BY <1>1 DEF EditLine, calls
<1>2. ASSUME NEW c \in Callers, Return(c) PROVE IdleClean'
  BY <1>2 DEF Return
<1>3. ASSUME NEW c \in Callers, NEW step \in Steps \ {"idle"}, Goto(c, step),
             costed' = costed \/ ReadLines(c)
      PROVE  IdleClean'
  BY <1>3 DEF Goto, ReadLines
<1>4. CASE UNCHANGED vars
  BY <1>4 DEF vars, calls
<1>5. ASSUME NEW c \in Callers, ReadLines(c) \/ Cancel(c) \/ RetryDecrease(c)
      PROVE  IdleClean'
  BY <1>3, <1>5 DEF ReadLines, Cancel, RetryDecrease, Steps
<1>6. ASSUME NEW c \in Callers, Continue(c) PROVE IdleClean'
  BY <1>2, <1>3, <1>6
     DEF Continue, ResolveCosts, ReadDemand, Launch, ReadService, Mint, CommitConfirm,
         RefuseConfirm, PublishConfirmed, PublishCancelled, LogDecrease, Steps
<1>7. ASSUME NEW c \in Callers, Fail(c) PROVE IdleClean'
  BY <1>2, <1>7 DEF Fail
<1>8. QED
  BY <1>1, <1>4, <1>5, <1>6, <1>7 DEF Next, Call

\* No step of a call edits a line.
LEMMA CallKeepsLines ==
  ASSUME NEW c \in Callers, Call(c)
  PROVE  UNCHANGED <<item, quantity, disturbed>>
BY DEF Call, Continue, ReadLines, ResolveCosts, ReadDemand, Launch, ReadService, Mint,
       CommitConfirm, RefuseConfirm, PublishConfirmed, Cancel, PublishCancelled,
       RetryDecrease, LogDecrease, Fail, rows

\* An edit either counts as a disturbance or finds a draft that nothing has
\* been read of or done for.
LEMMA EditKeeps ==
  ASSUME ConfirmInv, NEW l \in Lines, EditLine(l)
  PROVE  ReadInv' /\ PortInv' /\ PassedInv' /\ ConfirmedInv'
<1>1. CASE disturbed'
  BY <1>1 DEF ReadInv, PortInv, PassedInv, ConfirmedInv, LaunchedAsOrdered, MintedAsOrdered,
              StampedAsOrdered
<1>2. CASE ~disturbed'
  <2>1. Quiet /\ Launched = {} /\ minted = {} /\ status = "draft" /\ status' = status
    BY <1>2 DEF EditLine, Untried
  <2>2. UNCHANGED <<costOf, backref, move, minted, pc, costed, demand, reported>>
    BY DEF EditLine, ports, calls
  <2>3. costOf' = NothingCosted /\ \A c \in Callers : costed'[c] = NothingCosted
    BY <2>1, <2>2 DEF ConfirmInv, CommittedInv, DraftUnstamped, IdleClean, Quiet
  <2>4. \A c \in Callers : pc'[c] = "idle"
    BY <2>1, <2>2 DEF Quiet
  <2>5. Launched' = {} /\ minted' = {}
    BY <2>1, <2>2 DEF Launched
  <2>6. QED
    BY <2>1, <2>3, <2>4, <2>5
       DEF ReadInv, PortInv, PassedInv, ConfirmedInv, LaunchedAsOrdered, MintedAsOrdered,
           StampedAsOrdered, Confirmed, NothingCosted
<1>3. QED
  BY <1>1, <1>2

\* What a call remembers is what the lines still sell and order.
LEMMA ReadKeeps ==
  ASSUME ConfirmInv, NEW c \in Callers, Call(c), ~disturbed
  PROVE  ReadInv'
<1> DEFINE Fresh(d) == /\ \A l \in Lines : costed'[d][l] \in {NoItem, item[l]}
                       /\ pc'[d] \in {"launch", "mint"} => demand'[d] = AsOrdered
<1> SUFFICES ASSUME NEW d \in Callers PROVE Fresh(d)
  BY CallKeepsLines, SameOrder DEF ReadInv
<1> USE DEF ConfirmInv, TypeOK
<1>0. /\ \A l \in Lines : costed[d][l] \in {NoItem, item[l]}
      /\ pc[d] \in {"launch", "mint"} => demand[d] = AsOrdered
  BY DEF ReadInv
<1>1. CASE Return(c)
  BY <1>0, <1>1 DEF Return, NothingCosted
<1>2. CASE ReadLines(c)
  BY <1>0, <1>2 DEF ReadLines, Goto
<1>3. CASE ReadDemand(c) \/ ReadService(c)
  BY <1>0, <1>3 DEF ReadDemand, ReadService, Goto
<1>4. CASE ResolveCosts(c) \/ Launch(c) \/ Mint(c) \/ CommitConfirm(c) \/ Cancel(c)
           \/ RetryDecrease(c) \/ PublishCancelled(c)
  BY <1>0, <1>4 DEF ResolveCosts, Launch, Mint, CommitConfirm, Cancel, RetryDecrease,
                    PublishCancelled, Goto
<1>5. QED
  BY <1>1, <1>2, <1>3, <1>4
     DEF Call, Continue, RefuseConfirm, PublishConfirmed, LogDecrease, Fail

\* What the launch step does: every stock line has a move afterwards, no move
\* is replaced.
LEMMA LaunchMoves ==
  ASSUME ConfirmInv, NEW c \in Callers, Launch(c), ~disturbed
  PROVE  \A l \in Lines :
            /\ move'[l] = IF move[l] = NoDemand /\ item[l] \in StockItems
                          THEN AsOrdered[l] ELSE move[l]
            /\ item[l] \in StockItems => l \in Launched'
            /\ l \in Launched => l \in Launched'
<1>1. demand[c] = AsOrdered
  BY DEF ConfirmInv, ReadInv, Launch
<1>2. \A l \in Lines : move'[l] = IF move[l] = NoDemand /\ item[l] \in StockItems
                                  THEN AsOrdered[l] ELSE move[l]
  BY <1>1, DemandIsSomething DEF ConfirmInv, Launch
<1>3. QED
  BY <1>2, DemandIsSomething DEF ConfirmInv, Launched

\* What the mint step does: it reports and records exactly the service lines.
LEMMA MintReports ==
  ASSUME ConfirmInv, NEW c \in Callers, Mint(c), ~disturbed
  PROVE  minted' = ServiceLines /\ reported' = [reported EXCEPT ![c] = ServiceLines]
<1>1. demand[c] = AsOrdered
  BY DEF ConfirmInv, ReadInv, Mint
<1>2. Serviced(c) = ServiceLines
  BY <1>1, DemandIsSomething DEF ConfirmInv, Serviced, ServiceLines
<1>3. minted \subseteq ServiceLines
  BY DEF ConfirmInv, PortInv
<1>4. QED
  BY <1>2, <1>3 DEF Mint

\* The ports have done nothing that the lines do not order.
LEMMA PortKeeps ==
  ASSUME ConfirmInv, NEW c \in Callers, Call(c), ~disturbed
  PROVE  PortInv'
<1> SUFFICES /\ \A l \in Launched' : item[l] \in StockItems /\ move'[l] = AsOrdered[l]
             /\ minted' \subseteq ServiceLines
  BY CallKeepsLines, SameOrder DEF PortInv
<1>0. /\ \A l \in Launched : item[l] \in StockItems /\ move[l] = AsOrdered[l]
      /\ minted \subseteq ServiceLines
  BY DEF ConfirmInv, PortInv
<1>1. CASE Launch(c)
  BY <1>0, <1>1, LaunchMoves DEF Launched, Launch
<1>2. CASE Mint(c)
  BY <1>0, <1>2, MintReports DEF Launched, Mint
<1>3. CASE UNCHANGED <<move, minted>>
  BY <1>0, <1>3 DEF Launched
<1>4. Launch(c) \/ Mint(c) \/ UNCHANGED <<move, minted>>
  BY DEF Call, Continue, ReadLines, ResolveCosts, ReadDemand, ReadService, CommitConfirm,
         RefuseConfirm, PublishConfirmed, Cancel, PublishCancelled, RetryDecrease, LogDecrease,
         Fail, ports
<1>5. QED
  BY <1>1, <1>2, <1>3, <1>4

\* What a call has passed is done for every line, and stays done.
LEMMA PassedKeeps ==
  ASSUME ConfirmInv, NEW c \in Callers, Call(c), ~disturbed
  PROVE  PassedInv'
<1> DEFINE Passed(d) ==
             /\ pc'[d] \in {"service", "mint", "commit"} =>
                   \A l \in Lines : item[l] \in StockItems => l \in Launched'
             /\ pc'[d] = "commit" => reported'[d] = ServiceLines /\ minted' = ServiceLines
<1> SUFFICES ASSUME NEW d \in Callers PROVE Passed(d)
  BY CallKeepsLines, SameOrder DEF PassedInv
<1>0. /\ pc[d] \in {"service", "mint", "commit"} =>
            \A l \in Lines : item[l] \in StockItems => l \in Launched
      /\ pc[d] = "commit" => reported[d] = ServiceLines /\ minted = ServiceLines
  BY DEF ConfirmInv, PassedInv
<1>1. pc \in [Callers -> Steps] /\ reported \in [Callers -> SUBSET Lines]
  BY DEF ConfirmInv, TypeOK
<1>2. CASE Launch(c)
  BY <1>0, <1>1, <1>2, LaunchMoves DEF Launch, Goto
<1>3. CASE Mint(c)
  <2>1. Launched' = Launched
    BY <1>3 DEF Mint, Launched
  <2>2. QED
    BY <1>0, <1>1, <1>3, <2>1, MintReports DEF Mint, Goto
<1>4. ASSUME UNCHANGED <<move, minted>>,
             \/ Return(c)
             \/ /\ reported' = reported
                /\ \E step \in {"costs", "demand", "launch", "confirmed", "cancelled",
                                "decrease"} : Goto(c, step)
             \/ reported' = reported /\ pc[c] = "service" /\ Goto(c, "mint")
      PROVE  Passed(d)
  <2>1. Launched' = Launched
    BY <1>4 DEF Launched
  <2>2. QED
    BY <1>0, <1>1, <1>4, <2>1 DEF Return, Goto
<1>5. CASE ReadLines(c) \/ ResolveCosts(c) \/ ReadDemand(c) \/ ReadService(c)
  BY <1>4, <1>5 DEF ReadLines, ResolveCosts, ReadDemand, ReadService, ports
<1>6. CASE CommitConfirm(c) \/ Cancel(c) \/ PublishCancelled(c) \/ RetryDecrease(c)
  BY <1>4, <1>6 DEF CommitConfirm, Cancel, PublishCancelled, RetryDecrease, ports
<1>7. CASE RefuseConfirm(c) \/ PublishConfirmed(c) \/ LogDecrease(c) \/ Fail(c)
  BY <1>4, <1>7 DEF RefuseConfirm, PublishConfirmed, LogDecrease, Fail, ports
<1>8. QED
  BY <1>2, <1>3, <1>5, <1>6, <1>7 DEF Call, Continue

\* The flip finds everything done; whatever runs on afterwards adds nothing.
LEMMA ConfirmedKeeps ==
  ASSUME ConfirmInv, NEW c \in Callers, Call(c), ~disturbed
  PROVE  ConfirmedInv'
<1> DEFINE Done == /\ \A l \in Lines :
                         move[l] = IF item[l] \in StockItems THEN AsOrdered[l] ELSE NoDemand
                   /\ backref = ServiceLines /\ minted = ServiceLines
           Stamped == \A l \in Lines : costOf[l] \in {NoItem, item[l]}
<1>0. UNCHANGED <<item, quantity, disturbed>> /\ AsOrdered' = AsOrdered
      /\ ServiceLines' = ServiceLines
  BY CallKeepsLines, SameOrder
<1>1. (Confirmed => Done) /\ Stamped
  BY DEF ConfirmInv, ConfirmedInv, LaunchedAsOrdered, MintedAsOrdered, StampedAsOrdered,
         ServiceLines
<1>2. CASE CommitConfirm(c)
  <2>1. backref = {} /\ costOf' = costed[c] /\ backref' = backref \cup reported[c]
    BY <1>2 DEF CommitConfirm, StampCosts, StampBackrefs, ConfirmInv, CommittedInv,
                DraftUnstamped
  <2>2. UNCHANGED <<move, minted>>
    BY <1>2 DEF CommitConfirm, ports
  <2>3. reported[c] = ServiceLines /\ minted = ServiceLines
    BY <1>2 DEF CommitConfirm, ConfirmInv, PassedInv
  <2>4. \A l \in Lines :
           move[l] = IF item[l] \in StockItems THEN AsOrdered[l] ELSE NoDemand
    BY <1>2 DEF CommitConfirm, ConfirmInv, PassedInv, PortInv, Launched
  <2>5. Done'
    BY <1>0, <2>1, <2>2, <2>3, <2>4
  <2>6. Stamped'
    BY <1>0, <2>1 DEF ConfirmInv, ReadInv
  <2>7. QED
    BY <2>5, <2>6 DEF ConfirmedInv, LaunchedAsOrdered, MintedAsOrdered, StampedAsOrdered,
                      ServiceLines
<1>3. ASSUME Confirmed' => Confirmed, UNCHANGED <<costOf, backref>>, Confirmed => Done'
      PROVE  ConfirmedInv'
  <2>1. Stamped'
    BY <1>0, <1>1, <1>3
  <2>2. QED
    BY <1>3, <2>1 DEF ConfirmedInv, LaunchedAsOrdered, MintedAsOrdered, StampedAsOrdered,
                      ServiceLines
<1>4. CASE Launch(c)
  <2>1. Confirmed => \A l \in Lines : move'[l] = move[l]
    BY <1>1, <1>4, LaunchMoves, DemandIsSomething DEF ConfirmInv
  <2>2. UNCHANGED <<status, costOf, backref, minted>>
    BY <1>4 DEF Launch, rows
  <2>3. QED
    BY <1>0, <1>1, <1>3, <2>1, <2>2 DEF Confirmed
<1>5. CASE Mint(c)
  <2>1. UNCHANGED <<status, costOf, backref, move>>
    BY <1>5 DEF Mint, rows
  <2>2. QED
    BY <1>0, <1>1, <1>3, <1>5, <2>1, MintReports DEF Confirmed
<1>6. ASSUME UNCHANGED <<costOf, backref, move, minted>>, Confirmed' => Confirmed
      PROVE  ConfirmedInv'
  BY <1>0, <1>1, <1>3, <1>6
<1>7. CASE ReadLines(c) \/ ResolveCosts(c) \/ ReadDemand(c) \/ ReadService(c)
           \/ PublishCancelled(c) \/ RetryDecrease(c) \/ Cancel(c)
  BY <1>6, <1>7 DEF ReadLines, ResolveCosts, ReadDemand, ReadService, PublishCancelled,
                    RetryDecrease, Cancel, rows, ports, Confirmed
<1>8. CASE RefuseConfirm(c) \/ PublishConfirmed(c) \/ LogDecrease(c) \/ Fail(c)
  BY <1>6, <1>8 DEF RefuseConfirm, PublishConfirmed, LogDecrease, Fail, rows, ports, Confirmed
<1>9. QED
  BY <1>2, <1>4, <1>5, <1>7, <1>8 DEF Call, Continue

-----------------------------------------------------------------------------
(* The invariant as a whole.                                               *)

\* A freshly created order satisfies every part of the invariant.
LEMMA InitConfirm == Init => ConfirmInv
<1> SUFFICES ASSUME Init PROVE ConfirmInv
  OBVIOUS
<1>1. TypeOK /\ CommittedInv
  BY InitTypes, InitCommitted
<1>2. IdleClean /\ ReadInv /\ PassedInv
  BY DEF Init, IdleClean, ReadInv, PassedInv, NothingCosted
<1>3. Launched = {}
  BY DEF Init, Launched, NothingRead
<1>4. PortInv /\ ConfirmedInv
  BY <1>3 DEF Init, PortInv, ConfirmedInv, LaunchedAsOrdered, MintedAsOrdered,
              StampedAsOrdered, Confirmed, NothingCosted
<1>5. QED
  BY <1>1, <1>2, <1>4 DEF ConfirmInv

\* Every step of every call, and every edit, keeps the invariant.
LEMMA ConfirmStep == ConfirmInv /\ [Next]_vars => ConfirmInv'
<1> SUFFICES ASSUME ConfirmInv, [Next]_vars PROVE ConfirmInv'
  OBVIOUS
<1> DEFINE Undisturbed == ReadInv /\ PortInv /\ PassedInv /\ ConfirmedInv
<1>1. TypeOK' /\ CommittedInv' /\ IdleClean'
  BY TypeStep, CommittedStep, IdleStep DEF ConfirmInv
<1>2. ASSUME NEW l \in Lines, EditLine(l) PROVE Undisturbed'
  BY <1>2, EditKeeps
<1>3. ASSUME NEW c \in Callers, Call(c) PROVE Undisturbed'
  <2>1. CASE ~disturbed
    BY <1>3, <2>1, ReadKeeps, PortKeeps, PassedKeeps, ConfirmedKeeps
  <2>2. CASE disturbed
    <3>1. disturbed'
      BY <1>3, <2>2, CallKeepsLines
    <3>2. QED
      BY <3>1 DEF ReadInv, PortInv, PassedInv, ConfirmedInv, LaunchedAsOrdered,
                  MintedAsOrdered, StampedAsOrdered
  <2>3. QED
    BY <2>1, <2>2
<1>4. ASSUME UNCHANGED vars PROVE Undisturbed'
  <2>1. /\ UNCHANGED <<status, item, quantity, costOf, backref, move, minted>>
        /\ UNCHANGED <<pc, costed, demand, reported, disturbed>>
    BY <1>4 DEF vars, rows, ports, calls
  <2>2. UNCHANGED <<AsOrdered, Launched, ServiceLines, Confirmed>>
    BY <2>1 DEF AsOrdered, Launched, ServiceLines, Confirmed
  <2>3. ReadInv'
    BY <2>1, <2>2 DEF ConfirmInv, ReadInv
  <2>4. PortInv'
    BY <2>1, <2>2 DEF ConfirmInv, PortInv
  <2>5. PassedInv'
    BY <2>1, <2>2 DEF ConfirmInv, PassedInv
  <2>6. ConfirmedInv'
    BY <2>1, <2>2 DEF ConfirmInv, ConfirmedInv, LaunchedAsOrdered, MintedAsOrdered,
                      StampedAsOrdered
  <2>7. QED
    BY <2>3, <2>4, <2>5, <2>6
<1>5. Undisturbed'
  BY <1>2, <1>3, <1>4 DEF Next
<1>6. QED
  BY <1>1, <1>5 DEF ConfirmInv

(* confirm_sales_order, steps (1) to (3): however many confirms, cancels,    *)
(* refusals, crashes and retries came before, an order that was confirmed    *)
(* without an edit under the confirm has exactly the moves its stock lines   *)
(* order, exactly its service lines carry the ids of what was minted, and    *)
(* every stamped cost is the cost of the item its line sells.                *)
THEOREM ConfirmedAsOrdered ==
  Spec => []KeepsTheOrder
<1>1. ConfirmInv => KeepsTheOrder
  BY DEF ConfirmInv, ConfirmedInv, KeepsTheOrder
<1>2. QED
  BY InitConfirm, ConfirmStep, <1>1, PTL DEF Spec

-----------------------------------------------------------------------------
(* Each event at most once.                                                *)

Said(e) == Contains(heard, e)

\* At most one call stands before the publish of e, and e has not been heard then.
Due(step, e) ==
    \A c \in Callers : pc[c] = step => ~Said(e) /\ \A d \in Callers : pc[d] = step => c = d

Unsaid(step, e) == ~Said(e) /\ \A c \in Callers : pc[c] # step

\* Before its flip, an event is neither heard nor about to be.
AnnounceInv ==
    /\ \A i, j \in DOMAIN heard : heard[i] = heard[j] => i = j
    /\ Due("confirmed", "SalesOrderConfirmed") /\ Due("cancelled", "SalesOrderCancelled")
    /\ status = "draft" => Unsaid("confirmed", "SalesOrderConfirmed")
    /\ status # "cancelled" => Unsaid("cancelled", "SalesOrderCancelled")

\* Publishing an event that was not heard keeps the events apart.
LEMMA SayOnce ==
  ASSUME TypeOK, NEW e \in Events, ~Said(e), heard' = Append(heard, e),
         \A i, j \in DOMAIN heard : heard[i] = heard[j] => i = j
  PROVE  /\ \A i, j \in DOMAIN heard' : heard'[i] = heard'[j] => i = j
         /\ \A f \in Events : Said(f)' <=> f = e \/ Said(f)
<1>1. heard \in Seq(Events) /\ DOMAIN heard = 1..Len(heard) /\ Len(heard) \in Nat
  BY DEF TypeOK
<1>2. /\ heard' \in Seq(Events) /\ Len(heard') = Len(heard) + 1
      /\ DOMAIN heard' = 1..(Len(heard) + 1)
      /\ heard'[Len(heard) + 1] = e
      /\ \A i \in 1..Len(heard) : heard'[i] = heard[i]
  BY <1>1
<1>3. \A i \in 1..Len(heard) : heard[i] # e
  BY DEF Said, Contains
<1>4. \A i, j \in DOMAIN heard' : heard'[i] = heard'[j] => i = j
  BY <1>1, <1>2, <1>3
<1>5. ASSUME NEW f \in Events PROVE Said(f)' <=> f = e \/ Said(f)
  BY <1>1, <1>2 DEF Said, Contains
<1>6. QED
  BY <1>4, <1>5

\* A step that publishes nothing and enters neither publish keeps what is due.
LEMMA QuietKeeps ==
  ASSUME AnnounceInv, UNCHANGED <<heard, status>>,
         \A c \in Callers : pc'[c] \in {"confirmed", "cancelled"} => pc'[c] = pc[c]
  PROVE  AnnounceInv'
BY DEF AnnounceInv, Due, Unsaid, Said

LEMMA AnnounceStep == TypeOK /\ CommittedInv /\ AnnounceInv /\ [Next]_vars => AnnounceInv'
<1> SUFFICES ASSUME TypeOK, CommittedInv, AnnounceInv, [Next]_vars PROVE AnnounceInv'
  OBVIOUS
<1>1. ASSUME NEW l \in Lines, EditLine(l) PROVE AnnounceInv'
  BY <1>1, QuietKeeps DEF EditLine, calls
<1>2. ASSUME NEW c \in Callers,
             \/ ReadLines(c) \/ ResolveCosts(c) \/ ReadDemand(c) \/ ReadService(c)
             \/ Launch(c) \/ Mint(c) \/ RetryDecrease(c)
      PROVE  AnnounceInv'
  <2>1. UNCHANGED <<heard, status>>
    BY <1>2 DEF ReadLines, ResolveCosts, ReadDemand, ReadService, Launch, Mint,
                RetryDecrease, rows
  <2>2. PICK step \in {"costs", "demand", "launch", "service", "mint", "commit", "decrease"} :
           Goto(c, step)
    BY <1>2 DEF ReadLines, ResolveCosts, ReadDemand, ReadService, Launch, Mint, RetryDecrease
  <2>3. \A d \in Callers : pc'[d] \in {"confirmed", "cancelled"} => pc'[d] = pc[d]
    BY <2>2 DEF Goto, TypeOK
  <2>4. QED
    BY <2>1, <2>3, QuietKeeps
<1>3. ASSUME NEW c \in Callers, RefuseConfirm(c) \/ LogDecrease(c) \/ Fail(c) PROVE AnnounceInv'
  <2>1. UNCHANGED <<heard, status>> /\ pc' = [pc EXCEPT ![c] = "idle"]
    BY <1>3 DEF RefuseConfirm, LogDecrease, Fail, Return, rows
  <2>2. \A d \in Callers : pc'[d] \in {"confirmed", "cancelled"} => pc'[d] = pc[d]
    BY <2>1 DEF TypeOK
  <2>3. QED
    BY <2>1, <2>2, QuietKeeps
<1>4. ASSUME NEW c \in Callers, CommitConfirm(c) PROVE AnnounceInv'
  <2>1. /\ status = "draft" /\ status' = "to_deliver_and_bill" /\ UNCHANGED heard
        /\ pc' = [pc EXCEPT ![c] = "confirmed"]
    BY <1>4 DEF CommitConfirm, Goto
  <2>2. Unsaid("confirmed", "SalesOrderConfirmed") /\ Unsaid("cancelled", "SalesOrderCancelled")
    BY <2>1 DEF AnnounceInv
  <2>3. QED
    BY <2>1, <2>2 DEF AnnounceInv, Due, Unsaid, Said, TypeOK
<1>5. ASSUME NEW c \in Callers, Cancel(c) PROVE AnnounceInv'
  <2>1. /\ status # "cancelled" /\ status' = "cancelled" /\ UNCHANGED heard
        /\ pc[c] = "idle" /\ pc' = [pc EXCEPT ![c] = "cancelled"]
    BY <1>5 DEF Cancel, Goto
  <2>2. Unsaid("cancelled", "SalesOrderCancelled")
    BY <2>1 DEF AnnounceInv
  <2>3. QED
    BY <2>1, <2>2 DEF AnnounceInv, Due, Unsaid, Said, TypeOK
<1>6. ASSUME NEW c \in Callers, PublishConfirmed(c) PROVE AnnounceInv'
  <2>1. /\ heard' = Append(heard, "SalesOrderConfirmed") /\ UNCHANGED status
        /\ pc[c] = "confirmed" /\ pc' = [pc EXCEPT ![c] = "idle"]
    BY <1>6 DEF PublishConfirmed, Return, rows
  <2>2. ~Said("SalesOrderConfirmed") /\ \A d \in Callers : pc[d] = "confirmed" => c = d
    BY <2>1 DEF AnnounceInv, Due
  <2>3. /\ \A i, j \in DOMAIN heard' : heard'[i] = heard'[j] => i = j
        /\ Said("SalesOrderCancelled")' <=> Said("SalesOrderCancelled")
    BY <2>1, <2>2, SayOnce DEF AnnounceInv, Events
  <2>4. status # "draft"
    BY <2>1 DEF AnnounceInv, Unsaid
  <2>5. \A d \in Callers : pc'[d] # "confirmed" /\ (pc'[d] = "cancelled" => pc[d] = "cancelled")
    BY <2>1, <2>2 DEF TypeOK
  <2>6. QED
    BY <2>1, <2>3, <2>4, <2>5 DEF AnnounceInv, Due, Unsaid
<1>7. ASSUME NEW c \in Callers, PublishCancelled(c) PROVE AnnounceInv'
  <2>1. /\ heard' = Append(heard, "SalesOrderCancelled") /\ UNCHANGED status
        /\ pc[c] = "cancelled" /\ pc' = [pc EXCEPT ![c] = "decrease"]
    BY <1>7 DEF PublishCancelled, Goto, rows
  <2>2. ~Said("SalesOrderCancelled") /\ \A d \in Callers : pc[d] = "cancelled" => c = d
    BY <2>1 DEF AnnounceInv, Due
  <2>3. /\ \A i, j \in DOMAIN heard' : heard'[i] = heard'[j] => i = j
        /\ Said("SalesOrderConfirmed")' <=> Said("SalesOrderConfirmed")
    BY <2>1, <2>2, SayOnce DEF AnnounceInv, Events
  <2>4. status = "cancelled"
    BY <2>1 DEF CommittedInv
  <2>5. \A d \in Callers : pc'[d] # "cancelled" /\ (pc'[d] = "confirmed" => pc[d] = "confirmed")
    BY <2>1, <2>2 DEF TypeOK
  <2>6. QED
    BY <2>1, <2>3, <2>4, <2>5 DEF AnnounceInv, Due, Unsaid
<1>8. CASE UNCHANGED vars
  BY <1>8, QuietKeeps DEF vars, calls, rows
<1>9. QED
  BY <1>1, <1>2, <1>3, <1>4, <1>5, <1>6, <1>7, <1>8 DEF Next, Call, Continue

LEMMA InitAnnounce == Init => AnnounceInv
BY DEF Init, AnnounceInv, Due, Unsaid, Said, Contains

(* The publishes after the commits: racing confirms, cancels, retries and    *)
(* crashes announce each flip at most once, and never before it.             *)
THEOREM EventsComeOnce == Spec => []AnnouncedOnce
<1>1. AnnounceInv => AnnouncedOnce
  BY DEF AnnounceInv, AnnouncedOnce, Unsaid, Said
<1>2. QED
  BY InitTypes, InitCommitted, InitAnnounce, TypeStep, CommittedStep, AnnounceStep, <1>1,
     PTL DEF Spec

-----------------------------------------------------------------------------
(* The two documents side by side: no step of one moves the other.         *)

QP == INSTANCE QuotationProofs
      WITH status <- quotation, heard <- announced, pc <- quotationPc,
           disturbed <- withdrawn

LEMMA SameQuotation ==
    /\ Quotes!Init <=> QP!Init
    /\ Quotes!vars = QP!vars
    /\ Quotes!TypeOK <=> QP!TypeOK
    /\ Quotes!Quiet <=> QP!Quiet
BY DEF Quotes!Init, QP!Init, Quotes!vars, QP!vars, Quotes!TypeOK, QP!TypeOK,
       Quotes!Statuses, QP!Statuses, Quotes!Events, QP!Events, Quotes!Shows, QP!Shows,
       Quotes!NoEvent, QP!NoEvent, Quotes!Quiet, QP!Quiet

LEMMA SameQuotationSteps == Quotes!Next <=> QP!Next
<1>1. \A c : Quotes!Return(c) <=> QP!Return(c)
  BY DEF Quotes!Return, QP!Return, Quotes!NoEvent, QP!NoEvent
<1>2. \A c, from, e : Quotes!Flip(c, from, e) <=> QP!Flip(c, from, e)
  BY DEF Quotes!Flip, QP!Flip, Quotes!Shows, QP!Shows
<1>3. \A c : Quotes!Verb(c) <=> QP!Verb(c)
  BY <1>2 DEF Quotes!Verb, QP!Verb, Quotes!Send, QP!Send, Quotes!Accept, QP!Accept,
              Quotes!Reject, QP!Reject, Quotes!Cancel, QP!Cancel, Quotes!Redraft, QP!Redraft
<1>4. \A c, n : Quotes!BeginConvert(c, n) <=> QP!BeginConvert(c, n)
  BY DEF Quotes!BeginConvert, QP!BeginConvert
<1>5. \A c : Quotes!Continue(c) <=> QP!Continue(c)
  BY <1>1 DEF Quotes!Continue, QP!Continue, Quotes!Publish, QP!Publish,
              Quotes!CreateOrder, QP!CreateOrder, Quotes!RefuseNumber, QP!RefuseNumber,
              Quotes!MarkOrdered, QP!MarkOrdered, Quotes!MarkRefused, QP!MarkRefused
<1>6. \A c : Quotes!Fail(c) <=> QP!Fail(c)
  BY <1>1 DEF Quotes!Fail, QP!Fail
<1>7. \A n : Quotes!ConfirmOrder(n) <=> QP!ConfirmOrder(n)
  BY DEF Quotes!ConfirmOrder, QP!ConfirmOrder
<1>8. QED
  BY <1>3, <1>4, <1>5, <1>6, <1>7 DEF Quotes!Next, QP!Next

LEMMA DocumentsImplement == DocumentsSpec => QP!Spec /\ Spec
<1>1. DocumentsInit => QP!Init /\ Init
  BY SameQuotation DEF DocumentsInit
<1>2. [DocumentsNext]_documentVars => [QP!Next]_(QP!vars)
  BY SameQuotationSteps
     DEF DocumentsNext, QuotationStep, OrderStep, documentVars, quotationVars, QP!vars
<1>3. [DocumentsNext]_documentVars => [Next]_vars
  BY DEF DocumentsNext, QuotationStep, OrderStep, documentVars
<1>4. QED
  BY <1>1, <1>2, <1>3, PTL DEF DocumentsSpec, QP!Spec, Spec

\* Quotation and order, for any callers, lines and order numbers, keep their types
\* with the other document at work or not.
THEOREM DocumentTypesHold == DocumentsSpec => []DocumentsTypeOK
<1>1. QP!Spec => []QP!TypeOK
  BY QP!QuotationTypeCorrect
<1>2. Spec => []TypeOK
  BY ConfirmTypeCorrect
<1>3. QP!TypeOK /\ TypeOK => DocumentsTypeOK
  BY SameQuotation DEF DocumentsTypeOK
<1>4. QED
  BY <1>1, <1>2, <1>3, DocumentsImplement, PTL

\* convert_quotation_to_order with its two statements, the verbs and the late marks:
\* what QuotationProofs shows of a quotation holds with the order's calls beside it.
THEOREM QuotationsHold ==
    DocumentsSpec => [](/\ OrderedHasOrder /\ ReasonFitsState
                        /\ ConvertedTogether /\ AcceptanceAnnounced)
<1>1. QP!Spec => []QP!OrderedHasOrder /\ []QP!ReasonFitsState
  BY QP!OrderedIsBacked, QP!ReasonsFit
<1>2. QP!Spec => []QP!ConvertedTogether /\ []QP!AcceptanceAnnounced
  BY QP!ConversionsLookAtomic, QP!AcceptancesAreAnnounced
<1>3. /\ QP!OrderedHasOrder => OrderedHasOrder
      /\ QP!ReasonFitsState => ReasonFitsState
      /\ QP!ConvertedTogether => ConvertedTogether
      /\ QP!AcceptanceAnnounced => AcceptanceAnnounced
  BY SameQuotation
     DEF OrderedHasOrder, Quotes!OrderedHasOrder, QP!OrderedHasOrder,
         ReasonFitsState, Quotes!ReasonFitsState, QP!ReasonFitsState,
         ConvertedTogether, Quotes!ConvertedTogether, QP!ConvertedTogether,
         AcceptanceAnnounced, Quotes!AcceptanceAnnounced, QP!AcceptanceAnnounced
<1>4. QED
  BY <1>1, <1>2, <1>3, DocumentsImplement, PTL
=============================================================================
