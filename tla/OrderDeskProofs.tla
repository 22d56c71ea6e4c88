-------------------------- MODULE OrderDeskProofs --------------------------
(***************************************************************************)
(* Proofs about the three desks beside an order's life, together and each  *)
(* for any instance.                                                       *)
(*                                                                         *)
(* The expense links come first.  The partial unique index keeps the live  *)
(* links of an expense apart (Unique), whatever the pre-reads saw.  That   *)
(* surplus posts surface is an account (Counted): while no adapter has     *)
(* died, every post of a link has been acknowledged, or refused, or is in  *)
(* the hands of an adapter that is about to mark it; and a link is         *)
(* acknowledged at most once.                                              *)
(*                                                                         *)
(* The delivery requests and the carriers are proved about in modules of   *)
(* their own.  The last part puts the three side by side: a step of one    *)
(* desk moves nothing of another but the order's status, and that only as  *)
(* the other's own Confirm or Cancel would (Moves).  So the desks implement*)
(* each of the three specifications, and what holds of them alone holds of *)
(* the desks.                                                              *)
(***************************************************************************)
EXTENDS MCOrderDesk, FiniteSetTheorems, SequenceTheorems, TLAPS

Busy == {c \in Callers : pc[c] # "idle"}

\* Every attach under way has room for its link.
Room == Len(links) + Cardinality(Busy) <= MaxLinks

Unique == \A i, j \in Live : links[i].expense = links[j].expense => i = j

\* Nothing is counted for a link that is not there yet.
Unseen == \A i \in Ids \ DOMAIN links : billed[i] = 0 /\ acked[i] = 0 /\ refused[i] = 0

Attaching == \A c \in Callers : pc[c] # "idle" => expense[c] \in Expenses

\* The adapters that have posted link i and are about to mark it.
Posted(i) == {a \in Adapters : stage[a] = "mark" /\ i \in pulled[a]}

Counted ==
    "died" \notin mishaps =>
        \A i \in DOMAIN links : billed[i] = acked[i] + refused[i] + Cardinality(Posted(i))

\* One adapter at a time, and what it has pulled is live and still to be marked.
Clean ==
    mishaps = {} =>
        /\ Live = DOMAIN links
        /\ \A a, b \in Adapters : stage[a] # "idle" /\ stage[b] # "idle" => a = b
        /\ \A a \in Adapters : stage[a] # "idle" =>
              \A i \in pulled[a] : links[i].state = "pending"
        /\ \A i \in DOMAIN links :
              billed[i] = IF links[i].state = "invoiced" \/ Posted(i) # {} THEN 1 ELSE 0

Sound == TypeOK /\ Attaching /\ Room /\ Unique /\ Unseen
LinksInv == Sound /\ MarkedOnce /\ Counted /\ Clean

-----------------------------------------------------------------------------
(* Sequences of links, and sets of adapters.                               *)

\* Writing one link leaves the others and their number alone.
LEMMA WriteLink ==
  ASSUME TypeOK, NEW i \in DOMAIN links, NEW l \in Link, links' = [links EXCEPT ![i] = l]
  PROVE  /\ links' \in Seq(Link) /\ Len(links') = Len(links)
         /\ DOMAIN links' = DOMAIN links
         /\ links'[i] = l
         /\ \A j \in DOMAIN links : j # i => links'[j] = links[j]
<1>1. links \in Seq(Link) /\ i \in 1..Len(links)
  BY DEF TypeOK
<1>2. QED
  BY <1>1, ExceptSeq

\* What the four writers of a link write is a link.
LEMMA WrittenIsLink ==
  ASSUME TypeOK, NEW i \in DOMAIN links
  PROVE  /\ links[i] \in Link
         /\ \A v \in BOOLEAN : [links[i] EXCEPT !.live = v] \in Link
         /\ [links[i] EXCEPT !.state = "invoiced"] \in Link
<1>1. links[i] \in Link
  BY DEF TypeOK
<1>2. QED
  BY <1>1 DEF Link

\* Deleting and restoring leave every link's expense and state alone.
LEMMA RewriteLive ==
  ASSUME TypeOK, NEW i \in DOMAIN links, SoftDelete(i) \/ Restore(i)
  PROVE  /\ DOMAIN links' = DOMAIN links
         /\ \A j \in DOMAIN links : links'[j].state = links[j].state
<1>1. PICK v \in BOOLEAN : links' = [links EXCEPT ![i] = [links[i] EXCEPT !.live = v]]
  BY DEF SoftDelete, Restore
<1> DEFINE l == [links[i] EXCEPT !.live = v]
<1>2. l \in Link /\ l.state = links[i].state
  BY WrittenIsLink DEF Link
<1>3. QED
  BY <1>1, <1>2, WriteLink

\* A mark writes the state of its link alone.
LEMMA RewriteState ==
  ASSUME TypeOK, NEW a, NEW i \in DOMAIN links, Mark(a, i)
  PROVE  /\ DOMAIN links' = DOMAIN links
         /\ links'[i].state = "invoiced" /\ links'[i].live
         /\ \A j \in DOMAIN links : j # i => links'[j] = links[j]
<1> DEFINE l == [links[i] EXCEPT !.state = "invoiced"]
<1>1. links' = [links EXCEPT ![i] = l] /\ i \in Live
  BY DEF Mark, Pending
<1>2. l \in Link /\ l.state = "invoiced" /\ l.live
  BY <1>1, WrittenIsLink DEF Link, Live
<1>3. QED
  BY <1>1, <1>2, WriteLink

\* Inserting one adds its number to the ids.
LEMMA AddLink ==
  ASSUME TypeOK, NEW l \in Link, links' = Append(links, l)
  PROVE  /\ links' \in Seq(Link) /\ Len(links') = Len(links) + 1
         /\ DOMAIN links' = DOMAIN links \cup {Len(links) + 1}
         /\ Len(links) + 1 \notin DOMAIN links
         /\ links'[Len(links) + 1] = l
         /\ \A j \in DOMAIN links : links'[j] = links[j]
<1>1. links \in Seq(Link) /\ Len(links) \in Nat /\ DOMAIN links = 1..Len(links)
  BY DEF TypeOK
<1>2. /\ links' \in Seq(Link) /\ Len(links') = Len(links) + 1
      /\ links'[Len(links) + 1] = l
      /\ \A j \in 1..Len(links) : links'[j] = links[j]
  BY <1>1, AppendProperties
<1>3. DOMAIN links' = 1..(Len(links) + 1)
  BY <1>2
<1>4. QED
  BY <1>1, <1>2, <1>3

\* The callers in flight, and the adapters about to mark a link, can be counted.
LEMMA Countable ==
  ASSUME ReinvoiceAssumption
  PROVE  /\ IsFiniteSet(Busy) /\ Cardinality(Busy) \in Nat
         /\ \A i : IsFiniteSet(Posted(i)) /\ Cardinality(Posted(i)) \in Nat
<1>1. Busy \in SUBSET Callers /\ \A i : Posted(i) \in SUBSET Adapters
  BY DEF Busy, Posted
<1>2. QED
  BY <1>1, FS_Subset, FS_CardinalityType DEF ReinvoiceAssumption

\* Every link there is has counters.
LEMMA LinksAreIds ==
  ASSUME ReinvoiceAssumption, TypeOK, Room
  PROVE  DOMAIN links \subseteq Ids
<1>1. Cardinality(Busy) \in Nat /\ Len(links) \in Nat /\ DOMAIN links = 1..Len(links)
  BY Countable DEF TypeOK
<1>2. Len(links) <= MaxLinks
  BY <1>1 DEF Room, ReinvoiceAssumption
<1>3. QED
  BY <1>1, <1>2 DEF Ids, ReinvoiceAssumption

\* The link of an attach under way will have counters too.
LEMMA RoomToInsert ==
  ASSUME ReinvoiceAssumption, TypeOK, Room, NEW c \in Callers, pc[c] # "idle"
  PROVE  Len(links) + 1 \in Ids
<1>1. Cardinality(Busy) # 0 /\ Cardinality(Busy) \in Nat
  BY Countable, FS_EmptySet DEF Busy
<1>2. Len(links) \in Nat
  BY DEF TypeOK
<1>3. QED
  BY <1>1, <1>2 DEF Room, Ids, ReinvoiceAssumption

-----------------------------------------------------------------------------
(* What holds whatever goes wrong.                                         *)

LEMMA SoundInit == ReinvoiceAssumption /\ Init => Sound
<1> SUFFICES ASSUME ReinvoiceAssumption, Init PROVE Sound
  OBVIOUS
<1>1. TypeOK
  BY DEF Init, TypeOK, ReinvoiceAssumption, Mishaps
<1>2. Busy = {} /\ DOMAIN links = {} /\ Len(links) = 0
  BY DEF Init, Busy
<1>3. Room
  BY <1>2, FS_EmptySet DEF Room, ReinvoiceAssumption
<1>4. Unique /\ Unseen /\ Attaching
  BY <1>2 DEF Init, Unique, Unseen, Live, Ids, Attaching
<1>5. QED
  BY <1>1, <1>3, <1>4 DEF Sound

\* Confirms, cancels and the steps of an attach that insert nothing.
QuietStep ==
    /\ UNCHANGED <<links, billing, mishaps>>
    /\ Confirm \/ Cancel \/ UNCHANGED vars \/
          \E c \in Callers : \/ \E e \in Expenses : BeginAttach(c, e)
                             \/ ReadDuplicate(c) \/ InsertRefused(c) \/ FailAttach(c)

LEMMA QuietKeeps ==
  ASSUME ReinvoiceAssumption, Sound, QuietStep
  PROVE  Sound'
<1>1. TypeOK /\ Room
  BY DEF Sound
<1>2. TypeOK'
  BY <1>1 DEF QuietStep, TypeOK, Confirm, Cancel, vars, calls, billing, BeginAttach,
              ReadDuplicate, InsertRefused, FailAttach, Return
<1>3. Unique' /\ Unseen'
  BY DEF QuietStep, Sound, Unique, Unseen, Live, billing
<1>4. Room'
  <2> DEFINE n == Cardinality(Busy)
  <2>0. Len(links) \in Nat /\ n \in Nat /\ IsFiniteSet(Busy) /\ MaxLinks \in Nat
    BY <1>1, Countable DEF TypeOK, ReinvoiceAssumption
  <2>1. CASE UNCHANGED pc
    BY <1>1, <2>1 DEF QuietStep, Room, Busy
  <2>2. ASSUME NEW c \in Callers, NEW e \in Expenses, BeginAttach(c, e) PROVE Room'
    <3>1. Busy' = Busy \cup {c} /\ c \notin Busy
      BY <1>1, <2>2 DEF Busy, BeginAttach, TypeOK
    <3>2. Cardinality(Busy') = n + 1
      BY <2>0, <3>1, FS_AddElement
    <3>3. Len(links) + n < MaxLinks
      BY <2>2 DEF BeginAttach, RoomForOne, Busy
    <3>4. QED
      BY <2>0, <3>2, <3>3 DEF QuietStep, Room
  <2>3. ASSUME NEW c \in Callers, ReadDuplicate(c) \/ InsertRefused(c) \/ FailAttach(c)
        PROVE  Room'
    <3>1. Busy' \in SUBSET Busy
      BY <1>1, <2>3
         DEF Busy, ReadDuplicate, InsertRefused, FailAttach, Return, TypeOK
    <3>2. Cardinality(Busy') <= n /\ Cardinality(Busy') \in Nat
      BY <2>0, <3>1, FS_Subset, FS_CardinalityType
    <3>3. QED
      BY <1>1, <2>0, <3>2 DEF QuietStep, Room
  <2>4. QED
    BY <2>1, <2>2, <2>3 DEF QuietStep, Confirm, Cancel, vars, calls
<1>5. Attaching'
  BY DEF QuietStep, Sound, Attaching, TypeOK, Confirm, Cancel, vars, calls, BeginAttach,
         ReadDuplicate, InsertRefused, FailAttach, Return
<1>6. QED
  BY <1>2, <1>3, <1>4, <1>5 DEF Sound

\* The insert's index is what keeps the new link apart from the live ones.
LEMMA InsertKeeps ==
  ASSUME ReinvoiceAssumption, Sound, NEW c \in Callers, Insert(c)
  PROVE  Sound'
<1> DEFINE new == [expense |-> expense[c], state |-> "pending", live |-> TRUE]
<1>1. TypeOK /\ Room /\ new \in Link /\ links' = Append(links, new)
  BY DEF Sound, Attaching, Insert, Link
<1>2. /\ links' \in Seq(Link) /\ Len(links') = Len(links) + 1
      /\ DOMAIN links' = DOMAIN links \cup {Len(links) + 1}
      /\ links'[Len(links) + 1] = new
      /\ \A j \in DOMAIN links : links'[j] = links[j]
  BY <1>1, AddLink
<1>3. TypeOK'
  BY <1>1, <1>2 DEF TypeOK, Insert, Return, billing
<1>4. Room'
  <2>1. Busy' = Busy \ {c} /\ c \in Busy
    BY <1>1 DEF Insert, Return, Busy, TypeOK
  <2>2. Cardinality(Busy') = Cardinality(Busy) - 1 /\ Cardinality(Busy) \in Nat
    BY <2>1, Countable, FS_RemoveElement
  <2>3. QED
    BY <1>1, <1>2, <2>2 DEF Room, TypeOK
<1>5. Unique'
  <2>1. \A i \in Live : links[i].expense # expense[c]
    BY DEF Insert, LiveOf
  <2>2. Live' = Live \cup {Len(links) + 1}
    BY <1>2 DEF Live
  <2>3. QED
    BY <1>2, <2>1, <2>2 DEF Unique, Sound, Live
<1>6. Unseen'
  BY <1>2 DEF Unseen, Sound, Insert, billing
<1>7. Attaching'
  BY DEF Sound, Attaching, TypeOK, Insert, Return
<1>8. QED
  BY <1>3, <1>4, <1>5, <1>6, <1>7 DEF Sound

\* Deletions, restores and marks write one link and leave its expense alone; the
\* index is asked before a dead link comes back to life.
LEMMA WriteKeeps ==
  ASSUME ReinvoiceAssumption, Sound, NEW i \in DOMAIN links, NEW l \in Link,
         links' = [links EXCEPT ![i] = l], l.expense = links[i].expense,
         l.live /\ ~links[i].live => LiveOf(links[i].expense) = {},
         TypeOK', UNCHANGED calls,
         \A j \in Ids \ DOMAIN links :
             billed'[j] = billed[j] /\ acked'[j] = acked[j] /\ refused'[j] = refused[j]
  PROVE  Sound'
<1>1. TypeOK
  BY DEF Sound
<1>2. /\ Len(links') = Len(links) /\ DOMAIN links' = DOMAIN links
      /\ links'[i] = l
      /\ \A j \in DOMAIN links : j # i => links'[j] = links[j]
  BY <1>1, WriteLink
<1>3. Attaching' /\ Room' /\ Unseen'
  BY <1>2 DEF Sound, Attaching, Room, Busy, Unseen, calls
<1>4. Unique'
  <2> SUFFICES ASSUME NEW j \in Live', NEW k \in Live',
                      links'[j].expense = links'[k].expense
               PROVE  j = k
    BY DEF Unique
  <2>1. links'[j].expense = links[j].expense /\ links'[k].expense = links[k].expense
    BY <1>2 DEF Live
  <2>2. CASE j \in Live /\ k \in Live
    BY <2>1, <2>2 DEF Sound, Unique
  <2>3. CASE j \notin Live \/ k \notin Live
    BY <1>2, <2>1, <2>3 DEF Live, LiveOf
  <2>4. QED
    BY <2>2, <2>3
<1>5. QED
  BY <1>3, <1>4 DEF Sound

\* An adapter's steps that leave the links alone.
LEMMA AdapterKeeps ==
  ASSUME ReinvoiceAssumption, Sound, NEW a \in Adapters,
         Pull(a) \/ Post(a) \/ FailAdapter(a) \/ \E i \in pulled[a] : MarkRefused(a, i)
  PROVE  Sound'
<1>0. TypeOK /\ UNCHANGED <<links, calls>> /\ DOMAIN links \subseteq Ids
  BY LinksAreIds DEF Sound, Pull, Post, FailAdapter, MarkRefused
<1>1. TypeOK'
  <2>1. CASE Pull(a)
    <3>1. {i \in Live : links[i].state = "pending"} \in SUBSET (DOMAIN links)
      BY DEF Live
    <3>2. pulled' \in [Adapters -> SUBSET (DOMAIN links)]
      BY <1>0, <2>1, <3>1 DEF TypeOK, Pull
    <3>3. mishaps' \in SUBSET Mishaps
      BY <1>0, <2>1 DEF TypeOK, Pull, Mishaps
    <3>4. QED
      BY <1>0, <2>1, <3>2, <3>3 DEF TypeOK, Pull, calls
  <2>2. CASE Post(a)
    BY <1>0, <2>2 DEF TypeOK, Post, calls
  <2>3. CASE FailAdapter(a)
    BY <1>0, <2>3 DEF TypeOK, FailAdapter, calls, Mishaps
  <2>4. ASSUME NEW i \in pulled[a], MarkRefused(a, i) PROVE TypeOK'
    BY <1>0, <2>4 DEF TypeOK, MarkRefused, MarkedOff, calls
  <2>5. QED
    BY <2>1, <2>2, <2>3, <2>4
<1>2. Attaching' /\ Room' /\ Unique'
  BY <1>0 DEF Sound, Attaching, Room, Busy, Unique, Live, calls
<1>3. Unseen'
  BY <1>0 DEF Sound, Unseen, TypeOK, Pull, Post, FailAdapter, MarkRefused
<1>4. QED
  BY <1>1, <1>2, <1>3 DEF Sound

\* The writers of a link, as writes.
LEMMA Writers ==
  ASSUME ReinvoiceAssumption, Sound, NEW i \in DOMAIN links,
         SoftDelete(i) \/ Restore(i) \/ \E a \in Adapters : i \in pulled[a] /\ Mark(a, i)
  PROVE  Sound'
<1>0. TypeOK /\ DOMAIN links \subseteq Ids
  BY LinksAreIds DEF Sound
<1>1. ASSUME SoftDelete(i) \/ Restore(i) PROVE Sound'
  <2>1. PICK v \in BOOLEAN : /\ links' = [links EXCEPT ![i] = [links[i] EXCEPT !.live = v]]
                             /\ v => Restore(i)
    BY <1>1 DEF SoftDelete, Restore
  <2> DEFINE l == [links[i] EXCEPT !.live = v]
  <2>2. l \in Link /\ l.expense = links[i].expense /\ l.live = v
    BY <1>0, WrittenIsLink DEF Link
  <2>3. l.live => LiveOf(links[i].expense) = {}
    BY <2>1, <2>2 DEF Restore
  <2>4. links' \in Seq(Link) /\ DOMAIN links' = DOMAIN links
    BY <1>0, <2>1, <2>2, WriteLink
  <2>5. TypeOK' /\ UNCHANGED <<calls, billing>>
    BY <1>0, <1>1, <2>4 DEF TypeOK, SoftDelete, Restore, calls, billing, Mishaps
  <2> HIDE DEF l
  <2>6. QED
    BY <2>1, <2>2, <2>3, <2>5, WriteKeeps DEF l, billing
<1>2. ASSUME NEW a \in Adapters, i \in pulled[a], Mark(a, i) PROVE Sound'
  <2> DEFINE l == [links[i] EXCEPT !.state = "invoiced"]
  <2>1. links' = [links EXCEPT ![i] = l]
    BY <1>2 DEF Mark
  <2>2. l \in Link /\ l.expense = links[i].expense /\ l.live = links[i].live
    BY <1>0, WrittenIsLink DEF Link
  <2>3. links' \in Seq(Link) /\ DOMAIN links' = DOMAIN links
    BY <1>0, <2>1, <2>2, WriteLink
  <2>4. TypeOK' /\ UNCHANGED calls
    BY <1>0, <1>2, <2>3 DEF TypeOK, Mark, MarkedOff, calls
  <2>5. \A j \in Ids \ DOMAIN links :
            billed'[j] = billed[j] /\ acked'[j] = acked[j] /\ refused'[j] = refused[j]
    BY <1>0, <1>2 DEF Mark, TypeOK
  <2> HIDE DEF l
  <2>6. QED
    BY <2>1, <2>2, <2>4, <2>5, WriteKeeps
<1>3. QED
  BY <1>1, <1>2

\* The steps, by what they do to the links.
LEMMA StepKinds ==
  ASSUME ReinvoiceAssumption, Sound, [Next]_vars
  PROVE  \/ QuietStep
         \/ \E c \in Callers : Insert(c)
         \/ \E i \in DOMAIN links :
                SoftDelete(i) \/ Restore(i) \/ \E a \in Adapters : i \in pulled[a] /\ Mark(a, i)
         \/ \E a \in Adapters : \/ Pull(a) \/ Post(a) \/ FailAdapter(a)
                                \/ \E i \in pulled[a] : MarkRefused(a, i)
<1>1. \A a \in Adapters : pulled[a] \subseteq DOMAIN links
  BY DEF Sound, TypeOK
<1>2. QED
  BY <1>1 DEF Next, Attach, Bill, QuietStep, Confirm, Cancel, BeginAttach, ReadDuplicate,
              InsertRefused, FailAttach, vars, billing, calls

LEMMA SoundStep ==
  ASSUME ReinvoiceAssumption, Sound, [Next]_vars
  PROVE  Sound'
BY StepKinds, QuietKeeps, InsertKeeps, Writers, AdapterKeeps

-----------------------------------------------------------------------------
(* What is marked once, and what surfaces.                                 *)

\* An insert and an adapter's step that accepts no mark leave every account of an
\* accepted mark as it was.
LEMMA MarkedStep ==
  ASSUME ReinvoiceAssumption, Sound, MarkedOnce, [Next]_vars
  PROVE  MarkedOnce'
<1>0. TypeOK /\ DOMAIN links \subseteq Ids
  BY LinksAreIds DEF Sound
<1>1. CASE QuietStep
  BY <1>1 DEF QuietStep, billing, MarkedOnce
<1>2. ASSUME NEW c \in Callers, Insert(c) PROVE MarkedOnce'
  <2> DEFINE new == [expense |-> expense[c], state |-> "pending", live |-> TRUE]
  <2>1. new \in Link /\ links' = Append(links, new)
    BY <1>2 DEF Sound, Attaching, Insert, Link
  <2>2. /\ DOMAIN links' = DOMAIN links \cup {Len(links) + 1}
        /\ Len(links) + 1 \notin DOMAIN links
        /\ links'[Len(links) + 1] = new
        /\ \A j \in DOMAIN links : links'[j] = links[j]
    BY <1>0, <2>1, AddLink
  <2>3. Len(links) + 1 \in Ids
    BY <1>0, <1>2, RoomToInsert DEF Insert, Sound
  <2>4. QED
    BY <1>2, <2>2, <2>3 DEF Sound, Unseen, Insert, billing, MarkedOnce
<1>3. ASSUME NEW i \in DOMAIN links, SoftDelete(i) \/ Restore(i) PROVE MarkedOnce'
  <2>1. /\ DOMAIN links' = DOMAIN links
        /\ \A j \in DOMAIN links : links'[j].state = links[j].state
    BY <1>0, <1>3, RewriteLive
  <2>2. QED
    BY <1>3, <2>1 DEF SoftDelete, Restore, billing, MarkedOnce
<1>4. ASSUME NEW a \in Adapters, NEW i \in DOMAIN links, Mark(a, i) PROVE MarkedOnce'
  <2>1. /\ DOMAIN links' = DOMAIN links
        /\ links'[i].state = "invoiced"
        /\ \A j \in DOMAIN links : j # i => links'[j] = links[j]
    BY <1>0, <1>4, RewriteState
  <2>2. /\ acked'[i] = acked[i] + 1 /\ acked[i] = 0
        /\ \A j \in Ids : j # i => acked'[j] = acked[j]
    BY <1>0, <1>4 DEF Mark, Pending, TypeOK, MarkedOnce
  <2>3. QED
    BY <1>0, <2>1, <2>2 DEF MarkedOnce
<1>5. ASSUME NEW a \in Adapters, \/ Pull(a) \/ Post(a) \/ FailAdapter(a)
                                 \/ \E i \in pulled[a] : MarkRefused(a, i)
      PROVE  MarkedOnce'
  BY <1>5 DEF Pull, Post, FailAdapter, MarkRefused, MarkedOnce
<1>6. QED
  BY <1>1, <1>2, <1>3, <1>4, <1>5, StepKinds

\* A call that leaves links, adapters and counters alone leaves their accounts alone.
LEMMA AccountsFrame ==
  ASSUME UNCHANGED <<links, billing, mishaps>>
  PROVE  (Counted => Counted') /\ (Clean => Clean')
BY DEF billing, Counted, Clean, Posted, Live

\* A new link has no account and is in no adapter's hands.
LEMMA AccountsInsert ==
  ASSUME ReinvoiceAssumption, Sound, Counted, Clean, NEW c \in Callers, Insert(c)
  PROVE  Counted' /\ Clean'
<1> DEFINE new == [expense |-> expense[c], state |-> "pending", live |-> TRUE]
           n == Len(links) + 1
<1>0. TypeOK /\ DOMAIN links \subseteq Ids
  BY LinksAreIds DEF Sound
<1>1. new \in Link /\ links' = Append(links, new)
  BY DEF Sound, Attaching, Insert, Link
<1>2. /\ DOMAIN links' = DOMAIN links \cup {n}
      /\ n \notin DOMAIN links
      /\ links'[n] = new
      /\ \A j \in DOMAIN links : links'[j] = links[j]
  BY <1>0, <1>1, AddLink
<1>3. n \in Ids
  BY <1>0, RoomToInsert DEF Insert, Sound
<1>4. billed[n] = 0 /\ acked[n] = 0 /\ refused[n] = 0
  BY <1>2, <1>3 DEF Sound, Unseen
<1>5. UNCHANGED <<billing, mishaps>> /\ \A i : Posted(i)' = Posted(i)
  BY DEF Insert, billing, Posted
<1>6. Posted(n) = {} /\ Cardinality(Posted(n)) = 0
  BY <1>0, <1>2, FS_EmptySet DEF Posted, TypeOK
<1> HIDE DEF n
<1>7. Counted'
  BY <1>2, <1>4, <1>5, <1>6 DEF Counted, billing
<1>8. Clean'
  BY <1>0, <1>2, <1>4, <1>5, <1>6 DEF Clean, billing, Live, TypeOK
<1>9. QED
  BY <1>7, <1>8

\* Deleting a link is a mishap, and there is nothing to restore before the first one.
LEMMA AccountsRewriteLive ==
  ASSUME ReinvoiceAssumption, Sound, Counted, Clean, NEW i \in DOMAIN links,
         SoftDelete(i) \/ Restore(i)
  PROVE  Counted' /\ Clean'
<1>0. DOMAIN links' = DOMAIN links
  BY RewriteLive DEF Sound
<1>1. UNCHANGED billing /\ mishaps \subseteq mishaps' /\ \A j : Posted(j)' = Posted(j)
  BY DEF SoftDelete, Restore, billing, Posted
<1>2. Counted'
  BY <1>0, <1>1 DEF Counted, billing
<1>3. mishaps' # {}
  BY DEF SoftDelete, Restore, Clean
<1>4. QED
  BY <1>2, <1>3 DEF Clean

\* A run begins with live, pending links, and alone where nothing has gone wrong.
LEMMA AccountsPull ==
  ASSUME ReinvoiceAssumption, Sound, Counted, Clean, NEW a \in Adapters, Pull(a)
  PROVE  Counted' /\ Clean'
<1>0. TypeOK
  BY DEF Sound
<1>1. /\ stage[a] = "idle" /\ stage' = [stage EXCEPT ![a] = "post"]
      /\ pulled' = [pulled EXCEPT ![a] = {i \in Live : links[i].state = "pending"}]
      /\ UNCHANGED <<links, billed, acked, refused>>
      /\ mishaps \subseteq mishaps'
      /\ (\E b \in Adapters : stage[b] # "idle") => mishaps' # {}
  BY DEF Pull
<1>2. \A i : Posted(i)' = Posted(i)
  BY <1>0, <1>1 DEF Posted, TypeOK
<1>3. Counted'
  BY <1>1, <1>2 DEF Counted
<1>4. Clean'
  <2> SUFFICES ASSUME mishaps' = {} PROVE Clean'
    BY DEF Clean
  <2>1. mishaps = {} /\ \A b \in Adapters : stage[b] = "idle"
    BY <1>1
  <2>2. Live' = DOMAIN links'
    BY <1>1, <2>1 DEF Clean, Live
  <2>3. \A b \in Adapters : stage'[b] # "idle" => b = a
    BY <1>0, <1>1, <2>1 DEF TypeOK
  <2>4. \A i \in pulled'[a] : links'[i].state = "pending"
    BY <1>0, <1>1 DEF TypeOK
  <2>5. QED
    BY <1>1, <1>2, <2>1, <2>2, <2>3, <2>4 DEF Clean
<1>5. QED
  BY <1>3, <1>4

\* A post counts once for every link in the adapter's hands.
LEMMA AccountsPost ==
  ASSUME ReinvoiceAssumption, Sound, Counted, Clean, NEW a \in Adapters, Post(a)
  PROVE  Counted' /\ Clean'
<1>0. TypeOK /\ DOMAIN links \subseteq Ids
  BY LinksAreIds DEF Sound
<1>1. /\ stage[a] = "post" /\ stage' = [stage EXCEPT ![a] = "mark"]
      /\ billed' = [i \in Ids |-> IF i \in pulled[a] THEN billed[i] + 1 ELSE billed[i]]
      /\ UNCHANGED <<links, pulled, acked, refused, mishaps>>
  BY DEF Post
<1>2. \A i : Posted(i)' = IF i \in pulled[a] THEN Posted(i) \cup {a} ELSE Posted(i)
  BY <1>0, <1>1 DEF Posted, TypeOK
<1>3. \A i : a \notin Posted(i)
  BY <1>1 DEF Posted
<1>4. \A i \in pulled[a] : Cardinality(Posted(i)') = Cardinality(Posted(i)) + 1
  BY <1>2, <1>3, Countable, FS_AddElement
<1>5. Counted'
  <2> SUFFICES ASSUME "died" \notin mishaps, NEW i \in DOMAIN links
               PROVE  billed'[i] = acked[i] + refused[i] + Cardinality(Posted(i)')
    BY <1>1 DEF Counted
  <2>1. billed[i] = acked[i] + refused[i] + Cardinality(Posted(i))
    BY DEF Counted
  <2>2. /\ billed[i] \in Nat /\ acked[i] \in Nat /\ refused[i] \in Nat
        /\ Cardinality(Posted(i)) \in Nat /\ i \in Ids
    BY <1>0, Countable DEF TypeOK
  <2>3. CASE i \in pulled[a]
    BY <1>1, <1>4, <2>1, <2>2, <2>3
  <2>4. CASE i \notin pulled[a]
    BY <1>1, <1>2, <2>1, <2>2, <2>4
  <2>5. QED
    BY <2>3, <2>4
<1>6. Clean'
  <2> SUFFICES ASSUME mishaps = {} PROVE Clean'
    BY <1>1 DEF Clean
  <2>1. \A i \in pulled[a] : Posted(i) = {} /\ links[i].state = "pending"
    BY <1>1, <1>3 DEF Clean, Posted
  <2>2. \A i \in pulled[a] : i \in DOMAIN links /\ billed[i] = 0
    BY <1>0, <2>1 DEF Clean, TypeOK
  <2>3. \A i \in DOMAIN links :
            billed'[i] = IF links[i].state = "invoiced" \/ Posted(i)' # {} THEN 1 ELSE 0
    BY <1>0, <1>1, <1>2, <2>1, <2>2 DEF Clean
  <2>4. \A b \in Adapters : stage'[b] # "idle" <=> stage[b] # "idle"
    BY <1>0, <1>1 DEF TypeOK
  <2>5. Live' = Live
    BY <1>1 DEF Live
  <2>6. QED
    BY <1>1, <2>3, <2>4, <2>5 DEF Clean
<1>7. QED
  BY <1>5, <1>6

\* A mark, accepted or refused, takes the link out of the adapter's hands.
LEMMA MarkedOffPosted ==
  ASSUME ReinvoiceAssumption, TypeOK, NEW a \in Adapters, NEW i \in pulled[a],
         stage[a] = "mark", MarkedOff(a, i)
  PROVE  /\ a \in Posted(i)
         /\ Posted(i)' = Posted(i) \ {a} /\ \A j : j # i => Posted(j)' = Posted(j)
         /\ Cardinality(Posted(i)') = Cardinality(Posted(i)) - 1
         /\ \A b \in Adapters : /\ stage'[b] # "idle" => stage[b] # "idle"
                                /\ pulled'[b] = IF b = a THEN pulled[b] \ {i} ELSE pulled[b]
<1>1. a \in Posted(i)
  BY DEF Posted
<1>2. /\ stage' = [stage EXCEPT ![a] = IF pulled[a] = {i} THEN "idle" ELSE "mark"]
      /\ pulled' = [pulled EXCEPT ![a] = pulled[a] \ {i}]
  BY DEF MarkedOff
<1>0. DOMAIN stage = Adapters /\ DOMAIN pulled = Adapters
  BY DEF TypeOK
<1>3. \A b \in Adapters : /\ stage'[b] # "idle" => stage[b] # "idle"
                          /\ b # a => stage'[b] = stage[b]
  BY <1>0, <1>2, Zenon
<1>4. /\ stage'[a] = "mark" <=> pulled[a] # {i}
      /\ \A b \in Adapters :
            pulled'[b] = IF b = a THEN pulled[b] \ {i} ELSE pulled[b]
  BY <1>0, <1>2
<1>5. Posted(i)' = Posted(i) \ {a} /\ \A j : j # i => Posted(j)' = Posted(j)
  <2>1. ASSUME NEW j, NEW b \in Adapters
        PROVE  b \in Posted(j)' <=> b \in Posted(j) /\ ~(b = a /\ j = i)
    <3>1. CASE b = a
      BY <1>4, <3>1 DEF Posted
    <3>2. CASE b # a
      <4>1. stage'[b] = stage[b] /\ pulled'[b] = pulled[b]
        BY <1>3, <1>4, <3>2
      <4>2. QED
        BY <3>2, <4>1 DEF Posted
    <3>3. QED
      BY <3>1, <3>2
  <2>2. \A j : Posted(j) \subseteq Adapters /\ Posted(j)' \subseteq Adapters
    BY DEF Posted
  <2>3. QED
    BY <2>1, <2>2
<1>6. Cardinality(Posted(i)') = Cardinality(Posted(i)) - 1
  BY <1>1, <1>5, Countable, FS_RemoveElement
<1>7. QED
  BY <1>1, <1>3, <1>4, <1>5, <1>6, Zenon

\* An accepted mark moves one post from under way to acknowledged.
LEMMA AccountsMark ==
  ASSUME ReinvoiceAssumption, Sound, Counted, Clean, NEW a \in Adapters,
         NEW i \in pulled[a], Mark(a, i)
  PROVE  Counted' /\ Clean'
<1>0. TypeOK /\ DOMAIN links \subseteq Ids /\ i \in DOMAIN links
  BY LinksAreIds DEF Sound, TypeOK
<1>1. /\ DOMAIN links' = DOMAIN links
      /\ links'[i].state = "invoiced" /\ links'[i].live
      /\ \A j \in DOMAIN links : j # i => links'[j] = links[j]
  BY <1>0, RewriteState
<1>2. /\ a \in Posted(i)
      /\ Posted(i)' = Posted(i) \ {a} /\ \A j : j # i => Posted(j)' = Posted(j)
      /\ Cardinality(Posted(i)') = Cardinality(Posted(i)) - 1
      /\ \A b \in Adapters : /\ stage'[b] # "idle" => stage[b] # "idle"
                             /\ pulled'[b] = IF b = a THEN pulled[b] \ {i} ELSE pulled[b]
  BY <1>0, MarkedOffPosted DEF Mark
<1>3. /\ acked' = [acked EXCEPT ![i] = acked[i] + 1]
      /\ UNCHANGED <<billed, refused, mishaps>>
      /\ i \in Live
  BY DEF Mark, Pending
<1>4. Counted'
  <2> SUFFICES ASSUME "died" \notin mishaps, NEW j \in DOMAIN links
               PROVE  billed[j] = acked'[j] + refused[j] + Cardinality(Posted(j)')
    BY <1>1, <1>3 DEF Counted
  <2>1. billed[j] = acked[j] + refused[j] + Cardinality(Posted(j))
    BY DEF Counted
  <2>2. /\ billed[j] \in Nat /\ acked[j] \in Nat /\ refused[j] \in Nat
        /\ Cardinality(Posted(j)) \in Nat /\ j \in Ids
    BY <1>0, Countable DEF TypeOK
  <2>3. CASE j = i
    <3>1. acked'[j] = acked[j] + 1
      BY <1>3, <2>2, <2>3 DEF TypeOK, Sound
    <3>2. Cardinality(Posted(j)') = Cardinality(Posted(j)) - 1
      BY <1>2, <2>3, Zenon
    <3>3. QED
      BY <2>1, <2>2, <3>1, <3>2
  <2>4. CASE j # i
    BY <1>0, <1>2, <1>3, <2>1, <2>4 DEF TypeOK
  <2>5. QED
    BY <2>3, <2>4
<1>5. Clean'
  <2> SUFFICES ASSUME mishaps = {} PROVE Clean'
    BY <1>3 DEF Clean
  <2>1. Live' = DOMAIN links'
    BY <1>1 DEF Clean, Live
  <2>2. \A b, d \in Adapters : stage'[b] # "idle" /\ stage'[d] # "idle" => b = d
    BY <1>2 DEF Clean
  <2>3. stage[a] # "idle"
    BY DEF Mark
  <2>4. ASSUME NEW b \in Adapters, stage'[b] # "idle", NEW j \in pulled'[b]
        PROVE  links'[j].state = "pending"
    <3>1. b = a /\ j \in pulled[a] /\ j # i
      BY <1>2, <2>3, <2>4 DEF Clean
    <3>2. j \in DOMAIN links
      BY <1>0, <3>1 DEF TypeOK
    <3>3. QED
      BY <1>1, <2>3, <3>1, <3>2 DEF Clean
  <2>5. \A j \in DOMAIN links :
            billed[j] = IF links'[j].state = "invoiced" \/ Posted(j)' # {} THEN 1 ELSE 0
    BY <1>0, <1>1, <1>2 DEF Clean
  <2>6. QED
    BY <1>1, <1>3, <2>1, <2>2, <2>4, <2>5 DEF Clean
<1>6. QED
  BY <1>4, <1>5

\* A refused mark is counted, and happens only after a mishap.
LEMMA AccountsRefuse ==
  ASSUME ReinvoiceAssumption, Sound, Counted, Clean, NEW a \in Adapters,
         NEW i \in pulled[a], MarkRefused(a, i)
  PROVE  Counted' /\ Clean'
<1>0. TypeOK /\ DOMAIN links \subseteq Ids /\ i \in DOMAIN links
  BY LinksAreIds DEF Sound, TypeOK
<1>1. /\ Posted(i)' = Posted(i) \ {a} /\ \A j : j # i => Posted(j)' = Posted(j)
      /\ Cardinality(Posted(i)') = Cardinality(Posted(i)) - 1
  BY <1>0, MarkedOffPosted DEF MarkRefused
<1>2. /\ refused' = [refused EXCEPT ![i] = refused[i] + 1]
      /\ UNCHANGED <<links, billed, acked, mishaps>>
  BY DEF MarkRefused
<1>3. Counted'
  <2> SUFFICES ASSUME "died" \notin mishaps, NEW j \in DOMAIN links
               PROVE  billed[j] = acked[j] + refused'[j] + Cardinality(Posted(j)')
    BY <1>2 DEF Counted
  <2>1. billed[j] = acked[j] + refused[j] + Cardinality(Posted(j))
    BY DEF Counted
  <2>2. /\ billed[j] \in Nat /\ acked[j] \in Nat /\ refused[j] \in Nat
        /\ Cardinality(Posted(j)) \in Nat /\ j \in Ids
    BY <1>0, Countable DEF TypeOK
  <2>3. CASE j = i
    <3>1. refused'[j] = refused[j] + 1
      BY <1>2, <2>2, <2>3 DEF TypeOK, Sound
    <3>2. Cardinality(Posted(j)') = Cardinality(Posted(j)) - 1
      BY <1>1, <2>3, Zenon
    <3>3. QED
      BY <2>1, <2>2, <3>1, <3>2
  <2>4. CASE j # i
    BY <1>0, <1>1, <1>2, <2>1, <2>4 DEF TypeOK
  <2>5. QED
    BY <2>3, <2>4
<1>4. mishaps # {}
  BY <1>0 DEF Clean, MarkRefused, Pending
<1>5. QED
  BY <1>2, <1>3, <1>4 DEF Clean

-----------------------------------------------------------------------------
LEMMA LinksInit == ReinvoiceAssumption /\ Init => LinksInv
<1> SUFFICES ASSUME ReinvoiceAssumption, Init PROVE LinksInv
  OBVIOUS
<1>1. DOMAIN links = {} /\ \A a \in Adapters : stage[a] = "idle"
  BY DEF Init
<1>2. MarkedOnce /\ Counted /\ Clean
  BY <1>1 DEF MarkedOnce, Counted, Clean, Live
<1>3. QED
  BY <1>2, SoundInit DEF LinksInv

LEMMA LinksStep == ReinvoiceAssumption /\ LinksInv /\ [Next]_vars => LinksInv'
<1> SUFFICES ASSUME ReinvoiceAssumption, LinksInv, [Next]_vars PROVE LinksInv'
  OBVIOUS
<1>0. Sound /\ MarkedOnce /\ Counted /\ Clean
  BY DEF LinksInv
<1>1. Sound' /\ MarkedOnce'
  BY <1>0, SoundStep, MarkedStep
<1>2. CASE QuietStep
  BY <1>0, <1>1, <1>2, AccountsFrame DEF QuietStep, LinksInv
<1>3. ASSUME NEW c \in Callers, Insert(c) PROVE LinksInv'
  BY <1>0, <1>1, <1>3, AccountsInsert DEF LinksInv
<1>4. ASSUME NEW i \in DOMAIN links, SoftDelete(i) \/ Restore(i) PROVE LinksInv'
  BY <1>0, <1>1, <1>4, AccountsRewriteLive DEF LinksInv
<1>5. ASSUME NEW a \in Adapters, NEW i \in pulled[a], Mark(a, i) PROVE LinksInv'
  BY <1>0, <1>1, <1>5, AccountsMark DEF LinksInv
<1>6. ASSUME NEW a \in Adapters, Pull(a) \/ Post(a) PROVE LinksInv'
  BY <1>0, <1>1, <1>6, AccountsPull, AccountsPost DEF LinksInv
<1>7. ASSUME NEW a \in Adapters, FailAdapter(a) PROVE LinksInv'
  <2>1. "died" \in mishaps'
    BY <1>7 DEF FailAdapter
  <2>2. QED
    BY <1>1, <2>1 DEF LinksInv, Counted, Clean
<1>8. ASSUME NEW a \in Adapters, NEW i \in pulled[a], MarkRefused(a, i) PROVE LinksInv'
  BY <1>0, <1>1, <1>8, AccountsRefuse DEF LinksInv
<1>9. QED
  BY <1>0, <1>2, <1>3, <1>4, <1>5, <1>6, <1>7, <1>8, StepKinds

\* The links, the accounts and the adapters' hands, at every moment.
LEMMA LinksInvariance ==
  ASSUME ReinvoiceAssumption
  PROVE  Spec => []LinksInv
<1>1. Init => LinksInv
  BY LinksInit
<1>2. LinksInv /\ [Next]_vars => LinksInv'
  BY LinksStep
<1>3. QED
  BY <1>1, <1>2, PTL DEF Spec

\* However many attach calls race past the duplicate read, and whatever is deleted
\* and restored meanwhile, an expense has at most one live link to the order.
THEOREM OneLinkEach ==
  ASSUME ReinvoiceAssumption
  PROVE  Spec => []OneLiveLink
<1>1. LinksInv => OneLiveLink
  <2> SUFFICES ASSUME LinksInv, NEW e \in Expenses PROVE Cardinality(LiveOf(e)) <= 1
    BY DEF OneLiveLink
  <2>1. \A i, j \in LiveOf(e) : i = j
    BY DEF LinksInv, Sound, Unique, LiveOf
  <2>2. LiveOf(e) = {} \/ \E i : LiveOf(e) = {i}
    BY <2>1
  <2>3. Cardinality(LiveOf(e)) \in {0, 1}
    BY <2>2, FS_EmptySet, FS_Singleton, Zenon
  <2>4. QED
    BY <2>3
<1>2. QED
  BY <1>1, LinksInvariance, PTL

\* A link is acknowledged as invoiced once, by the mark that moved it, whatever
\* adapters race, retry, die or find deleted.
THEOREM AcknowledgedOnce ==
  ASSUME ReinvoiceAssumption
  PROVE  Spec => []MarkedOnce
<1>1. LinksInv => MarkedOnce
  BY DEF LinksInv
<1>2. QED
  BY <1>1, LinksInvariance, PTL

\* Where no adapter has died and none is under way, every post of a link but one
\* has been answered with a refusal.
THEOREM SurplusIsRefused ==
  ASSUME ReinvoiceAssumption
  PROVE  Spec => []SurplusSurfaces
<1>1. LinksInv => SurplusSurfaces
  <2> SUFFICES ASSUME LinksInv, "died" \notin mishaps, \A a \in Adapters : stage[a] = "idle",
                      NEW i \in DOMAIN links
               PROVE  billed[i] <= 1 + refused[i]
    BY DEF SurplusSurfaces
  <2>1. TypeOK /\ i \in Ids
    BY LinksAreIds DEF LinksInv, Sound
  <2>2. Posted(i) = {} /\ Cardinality(Posted(i)) = 0
    BY FS_EmptySet DEF Posted
  <2>3. billed[i] = acked[i] + refused[i] + 0
    BY <2>2 DEF LinksInv, Counted
  <2>4. acked[i] \in {0, 1} /\ refused[i] \in Nat
    BY <2>1 DEF LinksInv, MarkedOnce, TypeOK
  <2>5. QED
    BY <2>3, <2>4
<1>2. QED
  BY <1>1, LinksInvariance, PTL

\* One adapter at a time that does not die, and no deletions: an expense is posted
\* through one link, and once.
THEOREM NoDoubleBill ==
  ASSUME ReinvoiceAssumption
  PROVE  Spec => []BilledOnce
<1>1. LinksInv => BilledOnce
  <2> SUFFICES ASSUME LinksInv, mishaps = {}, NEW e \in Expenses,
                      NEW i \in DOMAIN links, links[i].expense = e, billed[i] > 0,
                      NEW j \in DOMAIN links, links[j].expense = e, billed[j] > 0
               PROVE  i = j /\ billed[i] = 1
    BY DEF BilledOnce
  <2>1. i = j
    BY DEF LinksInv, Sound, Unique, Clean
  <2>2. billed[i] \in {0, 1}
    BY DEF LinksInv, Clean
  <2>3. QED
    BY <2>1, <2>2
<1>2. QED
  BY <1>1, LinksInvariance, PTL

-----------------------------------------------------------------------------
(* The desks side by side.                                                 *)

RP == INSTANCE DeliveryOutboxProofs WITH pc <- requestPc, asked <- requestAsked
CP == INSTANCE CarrierRegistryProofs WITH pc <- carrierPc, asked <- carrierAsked

\* What any desk does to the order's status.
Moves ==
    \/ status' = status
    \/ status = "draft" /\ status' = "to_deliver_and_bill"
    \/ status # "cancelled" /\ status' = "cancelled"

\* The proofs are instantiated as the desks' modules are, so that their definitions
\* and those of the desks are the same.
LEMMA SameRequests ==
    /\ Requests!OutboxAssumption <=> RP!OutboxAssumption
    /\ Requests!Init <=> RP!Init
    /\ Requests!vars = RP!vars
    /\ Requests!TypeOK <=> RP!TypeOK
BY DEF Requests!OutboxAssumption, RP!OutboxAssumption, Requests!Init, RP!Init,
       Requests!Nothing, RP!Nothing, Requests!vars, RP!vars, Requests!order, RP!order,
       Requests!calls, RP!calls, Requests!TypeOK, RP!TypeOK, Requests!Statuses, RP!Statuses

LEMMA SameRequestSteps == Requests!Next <=> RP!Next
<1>1. \A l : (Requests!EditLine(l) <=> RP!EditLine(l)) /\ (Requests!Deliver(l) <=> RP!Deliver(l))
  BY DEF Requests!EditLine, RP!EditLine, Requests!Deliver, RP!Deliver, Requests!calls, RP!calls
<1>2. (Requests!Confirm <=> RP!Confirm) /\ (Requests!Cancel <=> RP!Cancel)
  BY DEF Requests!Confirm, RP!Confirm, Requests!Cancel, RP!Cancel, Requests!calls, RP!calls
<1>3. \A c : Requests!ReadHeader(c) <=> RP!ReadHeader(c)
  <2>1. \A S : Requests!Cardinality(S) = RP!Cardinality(S)
    BY DEF Requests!Cardinality, RP!Cardinality
  <2>2. QED
    BY <2>1 DEF Requests!ReadHeader, RP!ReadHeader, Requests!RoomForOne, RP!RoomForOne,
                Requests!Goto, RP!Goto, Requests!order, RP!order
<1>4. \A c : /\ Requests!ReadRemainders(c) <=> RP!ReadRemainders(c)
             /\ Requests!Stage(c) <=> RP!Stage(c)
  BY DEF Requests!ReadRemainders, RP!ReadRemainders, Requests!Remainder, RP!Remainder,
         Requests!Stage, RP!Stage,
         Requests!Goto, RP!Goto, Requests!order, RP!order
<1>5. \A c : (Requests!Publish(c) <=> RP!Publish(c)) /\ (Requests!Fail(c) <=> RP!Fail(c))
  BY DEF Requests!Publish, RP!Publish, Requests!Fail, RP!Fail, Requests!Return, RP!Return,
         Requests!Nothing, RP!Nothing, Requests!order, RP!order
<1>6. \A r : Requests!Relay(r) <=> RP!Relay(r)
  BY DEF Requests!Relay, RP!Relay, Requests!HandOver, RP!HandOver, Requests!MarkDispatched,
         RP!MarkDispatched, Requests!order, RP!order, Requests!calls, RP!calls,
         Requests!Contains, RP!Contains
<1>7. QED
  BY <1>1, <1>2, <1>3, <1>4, <1>5, <1>6
     DEF Requests!Next, RP!Next, Requests!Continue, RP!Continue

\* The same of the specification that the requests implement.
LEMMA SamePromise ==
    /\ Requests!Promised!Init <=> RP!Promised!Init
    /\ Requests!Promised!vars = RP!Promised!vars
    /\ Requests!Promised!Next <=> RP!Promised!Next
<1>1. /\ Requests!Promised!Init <=> RP!Promised!Init
      /\ Requests!Promised!vars = RP!Promised!vars
  BY DEF Requests!Promised!Init, RP!Promised!Init, Requests!Promised!vars, RP!Promised!vars
<1>2. /\ Requests!Promised!Edit <=> RP!Promised!Edit
      /\ Requests!Promised!Deliver <=> RP!Promised!Deliver
  BY DEF Requests!Promised!Edit, RP!Promised!Edit, Requests!Promised!Deliver, RP!Promised!Deliver
<1>3. (Requests!Promised!Move <=> RP!Promised!Move)
      /\ (Requests!Promised!Request <=> RP!Promised!Request)
  BY DEF Requests!Promised!Move, RP!Promised!Move, Requests!Promised!Request,
         RP!Promised!Request, Requests!Promised!Covers, RP!Promised!Covers
<1>4. \A r : Requests!Promised!Handle(r) <=> RP!Promised!Handle(r)
  BY DEF Requests!Promised!Handle, RP!Promised!Handle, Requests!Promised!Contains,
         RP!Promised!Contains
<1>5. QED
  BY <1>1, <1>2, <1>3, <1>4 DEF Requests!Promised!Next, RP!Promised!Next

LEMMA SameCarriers ==
    /\ Carriers!RegistryAssumption <=> CP!RegistryAssumption
    /\ Carriers!Init <=> CP!Init
    /\ Carriers!vars = CP!vars
    /\ Carriers!TypeOK <=> CP!TypeOK
    /\ Carriers!NamesUnique <=> CP!NamesUnique
<1>1. \A S : Carriers!Cardinality(S) = CP!Cardinality(S)
  BY DEF Carriers!Cardinality, CP!Cardinality
<1>2. Carriers!NamesUnique <=> CP!NamesUnique
  BY <1>1 DEF Carriers!NamesUnique, CP!NamesUnique, Carriers!LiveRows, CP!LiveRows,
              Carriers!Kinds, CP!Kinds
<1>3. Carriers!RegistryAssumption <=> CP!RegistryAssumption
  BY DEF Carriers!RegistryAssumption, CP!RegistryAssumption
<1>4. Carriers!vars = CP!vars
  BY DEF Carriers!vars, CP!vars, Carriers!order, CP!order, Carriers!calls, CP!calls
<1>5. (Carriers!Init <=> CP!Init) /\ (Carriers!TypeOK <=> CP!TypeOK)
  BY DEF Carriers!Init, CP!Init, Carriers!Nothing, CP!Nothing, Carriers!TypeOK, CP!TypeOK,
         Carriers!Asked, CP!Asked, Carriers!Row, CP!Row, Carriers!Kinds, CP!Kinds,
         Carriers!Steps, CP!Steps
<1>6. QED
  BY <1>2, <1>3, <1>4, <1>5

LEMMA SameCarrierSteps == Carriers!Next <=> CP!Next
<1>1. /\ Carriers!Free <=> CP!Free
      /\ Carriers!MayTransact <=> CP!MayTransact
      /\ Carriers!RoomForOne <=> CP!RoomForOne
  <2>1. \A S : Carriers!Cardinality(S) = CP!Cardinality(S)
    BY DEF Carriers!Cardinality, CP!Cardinality
  <2>2. Carriers!Held = CP!Held
    BY <2>1 DEF Carriers!Held, CP!Held, Carriers!InTransaction, CP!InTransaction,
                Carriers!Running, CP!Running
  <2>3. QED
    BY <2>1, <2>2 DEF Carriers!Free, CP!Free, Carriers!MayTransact, CP!MayTransact,
                      Carriers!Room, CP!Room, Carriers!RoomForOne, CP!RoomForOne
<1>2. Carriers!MayRead <=> CP!MayRead
  BY <1>1 DEF Carriers!MayRead, CP!MayRead
<1>3. \A kind, name : Carriers!Taken(kind, name) <=> CP!Taken(kind, name)
  BY DEF Carriers!Taken, CP!Taken, Carriers!LiveRows, CP!LiveRows
<1>4. /\ \A c, step : Carriers!Goto(c, step) <=> CP!Goto(c, step)
      /\ \A c : Carriers!Return(c) <=> CP!Return(c)
      /\ Carriers!Nothing = CP!Nothing
      /\ UNCHANGED Carriers!order <=> UNCHANGED CP!order
      /\ UNCHANGED Carriers!calls <=> UNCHANGED CP!calls
  BY DEF Carriers!Goto, CP!Goto, Carriers!Return, CP!Return, Carriers!order, CP!order,
         Carriers!calls, CP!calls, Carriers!Nothing, CP!Nothing
<1>5. (Carriers!Confirm <=> CP!Confirm) /\ (Carriers!Cancel <=> CP!Cancel)
  BY <1>1, <1>4 DEF Carriers!Confirm, CP!Confirm, Carriers!Cancel, CP!Cancel
<1>6. \A c, name : /\ Carriers!CreateCarrier(c, name) <=> CP!CreateCarrier(c, name)
                   /\ Carriers!CreateTemplate(c, name) <=> CP!CreateTemplate(c, name)
  BY <1>1, <1>2, <1>3, <1>4
     DEF Carriers!CreateCarrier, CP!CreateCarrier, Carriers!CreateTemplate,
         CP!CreateTemplate, Carriers!BeginCreate, CP!BeginCreate
<1>7. \A c, id : Carriers!BeginSetDelivery(c, id) <=> CP!BeginSetDelivery(c, id)
  BY <1>1, <1>4 DEF Carriers!BeginSetDelivery, CP!BeginSetDelivery, Carriers!Acceptable,
                    CP!Acceptable, Carriers!Known, CP!Known
<1>8. \A c : Carriers!Continue(c) <=> CP!Continue(c)
  <2>1. \A c : /\ Carriers!Insert(c) <=> CP!Insert(c)
               /\ Carriers!InsertRefused(c) <=> CP!InsertRefused(c)
    BY <1>2, <1>3, <1>4 DEF Carriers!Insert, CP!Insert, Carriers!InsertRefused,
                            CP!InsertRefused
  <2>2. \A c : /\ Carriers!BeginTransaction(c) <=> CP!BeginTransaction(c)
               /\ Carriers!WriteDelivery(c) <=> CP!WriteDelivery(c)
               /\ Carriers!WriteRefused(c) <=> CP!WriteRefused(c)
    BY <1>1, <1>4 DEF Carriers!BeginTransaction, CP!BeginTransaction, Carriers!WriteDelivery,
                      CP!WriteDelivery, Carriers!Patched, CP!Patched,
                      Carriers!WriteRefused, CP!WriteRefused
  <2>3. \A c : /\ Carriers!Classify(c) <=> CP!Classify(c)
               /\ Carriers!AcquireTimeout(c) <=> CP!AcquireTimeout(c)
    BY <1>1, <1>2, <1>4 DEF Carriers!Classify, CP!Classify, Carriers!AcquireTimeout,
                            CP!AcquireTimeout, Carriers!Waits, CP!Waits
  <2>4. QED
    BY <2>1, <2>2, <2>3 DEF Carriers!Continue, CP!Continue
<1>9. \A i : /\ \A name : Carriers!Rename(i, name) <=> CP!Rename(i, name)
             /\ Carriers!SoftDelete(i) <=> CP!SoftDelete(i)
             /\ Carriers!Restore(i) <=> CP!Restore(i)
  BY <1>1, <1>2, <1>3, <1>4
     DEF Carriers!Rename, CP!Rename, Carriers!SoftDelete, CP!SoftDelete,
         Carriers!Restore, CP!Restore
<1>10. QED
  BY <1>5, <1>6, <1>7, <1>8, <1>9 DEF Carriers!Next, CP!Next

\* A step of the delivery desk moves the status as Confirm and Cancel do.
LEMMA RequestsMove == RP!Next => Moves
<1>1. RP!Confirm \/ RP!Cancel => Moves
  BY DEF RP!Confirm, RP!Cancel, Moves
<1>2. \A l : RP!EditLine(l) \/ RP!Deliver(l) => status' = status
  BY DEF RP!EditLine, RP!Deliver
<1>3. \A c : RP!ReadHeader(c) \/ RP!Continue(c) \/ RP!Fail(c) => status' = status
  BY DEF RP!ReadHeader, RP!Continue, RP!ReadRemainders, RP!Stage, RP!Publish, RP!Fail, RP!order
<1>4. \A r : RP!Relay(r) => status' = status
  BY DEF RP!Relay, RP!HandOver, RP!MarkDispatched, RP!order
<1>5. QED
  BY <1>1, <1>2, <1>3, <1>4 DEF RP!Next, Moves

LEMMA ReinvoiceMoves == Next => Moves
<1>1. Confirm \/ Cancel => Moves
  BY DEF Confirm, Cancel, Moves
<1>2. \A c : Attach(c) => status' = status
  BY DEF Attach, BeginAttach, ReadDuplicate, Insert, InsertRefused, FailAttach
<1>3. \A i : SoftDelete(i) \/ Restore(i) => status' = status
  BY DEF SoftDelete, Restore
<1>4. \A a : Bill(a) => status' = status
  BY DEF Bill, Pull, Post, FailAdapter, Mark, MarkRefused
<1>5. QED
  BY <1>1, <1>2, <1>3, <1>4 DEF Next, Moves

LEMMA CarriersMove == CP!Next => Moves
<1>1. CP!Confirm \/ CP!Cancel => Moves
  BY DEF CP!Confirm, CP!Cancel, Moves
<1>2. ASSUME NEW c
      PROVE  /\ \A name : CP!CreateCarrier(c, name) \/ CP!CreateTemplate(c, name)
                              => status' = status
             /\ \A id : CP!BeginSetDelivery(c, id) => status' = status
  <2>1. /\ \A kind, name : CP!BeginCreate(c, kind, name) => UNCHANGED CP!order
        /\ \A id : CP!BeginSetDelivery(c, id) => UNCHANGED CP!order
    BY Zenon DEF CP!BeginCreate, CP!BeginSetDelivery
  <2>2. QED
    BY <2>1 DEF CP!CreateCarrier, CP!CreateTemplate, CP!order
<1>3. \A c : CP!Continue(c) => status' = status
  BY DEF CP!Continue, CP!Insert, CP!InsertRefused, CP!BeginTransaction, CP!WriteDelivery,
         CP!WriteRefused, CP!Classify, CP!AcquireTimeout, CP!order
<1>4. \A i : /\ \A name : CP!Rename(i, name) => status' = status
             /\ CP!SoftDelete(i) \/ CP!Restore(i) => status' = status
  BY DEF CP!Rename, CP!SoftDelete, CP!Restore, CP!order
<1>5. QED
  BY <1>1, <1>2, <1>3, <1>4 DEF CP!Next, Moves

\* A step of the desks is one desk's own, and the status alone of the others'.
LEMMA DeskSteps ==
  ASSUME DeskNext
  PROVE  /\ open' = open /\ Moves
         /\ \/ open = "requests" /\ RP!Next /\ UNCHANGED <<reinvoiceVars, carrierVars>>
            \/ open = "reinvoice" /\ Next /\ UNCHANGED <<requestVars, carrierVars>>
            \/ open = "carriers" /\ CP!Next /\ UNCHANGED <<requestVars, reinvoiceVars>>
<1>1. CASE RequestStep
  BY <1>1, SameRequestSteps, RequestsMove DEF RequestStep
<1>2. CASE ReinvoiceStep
  BY <1>2, ReinvoiceMoves DEF ReinvoiceStep
<1>3. CASE CarrierStep
  BY <1>3, SameCarrierSteps, CarriersMove DEF CarrierStep
<1>4. QED
  BY <1>1, <1>2, <1>3 DEF DeskNext

LEMMA DeskStepsRequests == [DeskNext]_deskVars => [RP!Next]_(RP!vars)
<1>1. CASE UNCHANGED deskVars
  BY <1>1 DEF deskVars, requestVars, RP!vars, RP!order, RP!calls
<1>2. CASE DeskNext /\ UNCHANGED requestVars
  BY <1>2, DeskSteps DEF Moves, requestVars, RP!Next, RP!Confirm, RP!Cancel, RP!vars,
                         RP!order, RP!calls
<1>3. QED
  BY <1>1, <1>2, DeskSteps

LEMMA DeskStepsReinvoice == [DeskNext]_deskVars => [Next]_vars
<1>1. CASE UNCHANGED deskVars
  BY <1>1 DEF deskVars, reinvoiceVars, vars
<1>2. CASE DeskNext /\ UNCHANGED reinvoiceVars
  BY <1>2, DeskSteps DEF Moves, reinvoiceVars, Next, Confirm, Cancel, vars, calls, billing
<1>3. QED
  BY <1>1, <1>2, DeskSteps

\* Where another desk is at work no carrier call holds a connection, so that the
\* order's verbs find theirs.
AtRest == open # "carriers" => \A c \in Callers : carrierPc[c] = "idle"

LEMMA DeskStepsCarriers ==
  ASSUME AtRest, [DeskNext]_deskVars
  PROVE  AtRest' /\ [CP!Next]_(CP!vars)
<1>1. CASE UNCHANGED deskVars
  BY <1>1 DEF deskVars, carrierVars, AtRest, CP!vars, CP!order, CP!calls
<1>2. CASE DeskNext /\ open # "carriers"
  <2>1. UNCHANGED <<open, carrierVars>> /\ Moves
    BY <1>2, DeskSteps
  <2>2. CP!Free /\ CP!MayTransact
    <3>1. CP!InTransaction = {} /\ CP!Running = {}
      BY <1>2 DEF AtRest, CP!InTransaction, CP!Running
    <3>2. CP!Cardinality({}) = Cardinality({})
      BY DEF CP!Cardinality, Cardinality
    <3>3. PoolSize \in Nat \ {0, 1}
      BY DeskAssumption DEF Carriers!RegistryAssumption
    <3>4. CP!Held = 0
      BY <3>1, <3>2, FS_EmptySet DEF CP!Held
    <3>5. QED
      BY <3>3, <3>4 DEF CP!Free, CP!MayTransact, CP!Room
  <2>3. [CP!Next]_(CP!vars)
    BY <2>1, <2>2 DEF Moves, carrierVars, CP!Next, CP!Confirm, CP!Cancel, CP!vars, CP!order, CP!calls
  <2>4. AtRest'
    BY <2>1 DEF AtRest, carrierVars
  <2>5. QED
    BY <2>3, <2>4
<1>3. CASE DeskNext /\ open = "carriers"
  BY <1>3, DeskSteps DEF AtRest
<1>4. QED
  BY <1>1, <1>2, <1>3

LEMMA DeskImplements == DeskSpec => RP!Spec /\ Spec /\ CP!Spec
<1>1. DeskInit => RP!Init /\ Init /\ CP!Init /\ AtRest
  BY SameRequests, SameCarriers DEF DeskInit, AtRest, CP!Init
<1>2. [DeskNext]_deskVars => [RP!Next]_(RP!vars)
  BY DeskStepsRequests
<1>3. [DeskNext]_deskVars => [Next]_vars
  BY DeskStepsReinvoice
<1>4. AtRest /\ [DeskNext]_deskVars => AtRest' /\ [CP!Next]_(CP!vars)
  BY DeskStepsCarriers
<1>5. QED
  BY <1>1, <1>2, <1>3, <1>4, PTL DEF DeskSpec, RP!Spec, Spec, CP!Spec

\* The delivery requests, the expense links and the carriers of one order, with the
\* other two desks at work beside each: what a desk sees of the others is its own
\* Confirm and Cancel, at a moment that allows them, so whatever was shown of a desk
\* alone holds of the three.
THEOREM SideBySide == DeskSpec => Requests!Spec /\ Spec /\ Carriers!Spec
<1>1. (RP!Init => Requests!Init) /\ (CP!Init => Carriers!Init)
  BY SameRequests, SameCarriers
<1>2. [RP!Next]_(RP!vars) => [Requests!Next]_(Requests!vars)
  BY SameRequestSteps DEF RP!vars, RP!order, RP!calls, Requests!vars, Requests!order,
                          Requests!calls
<1>3. [CP!Next]_(CP!vars) => [Carriers!Next]_(Carriers!vars)
  BY SameCarrierSteps DEF CP!vars, CP!order, CP!calls, Carriers!vars, Carriers!order,
                          Carriers!calls
<1>4. QED
  BY <1>1, <1>2, <1>3, DeskImplements, PTL
     DEF RP!Spec, Requests!Spec, CP!Spec, Carriers!Spec

\* The types of the three desks, for any number of callers, adapters, records, links
\* and rows, with the deaths that each of them meets.
THEOREM DeskTypesHold == DeskSpec => []DeskTypeOK
<1>1. RP!Spec => []RP!TypeOK
  BY RP!OutboxTypeCorrect, SameRequests, DeskAssumption
<1>2. Spec => []LinksInv
  BY LinksInvariance, DeskAssumption
<1>3. CP!Spec => []CP!RegistryInv
  BY CP!RegistryInvariant, SameCarriers, DeskAssumption
<1>4. RP!TypeOK /\ LinksInv /\ CP!RegistryInv => DeskTypeOK
  BY SameRequests, SameCarriers DEF DeskTypeOK, LinksInv, Sound, CP!RegistryInv
<1>5. QED
  BY <1>1, <1>2, <1>3, <1>4, DeskImplements, PTL

\* "the decorator's per-unit unique is the hard backstop", beside whatever confirms
\* and cancels the order meanwhile: two live rows of a kind never share a name under
\* the decorator, and without it not before calls overlap or a name is taken over.
THEOREM DeskNamesUnique == DeskSpec => []NamesUnique
<1>1. CP!Spec => []CP!NamesUnique
  BY CP!NamesStayUnique, SameCarriers, DeskAssumption
<1>2. CP!NamesUnique => NamesUnique
  BY SameCarriers DEF NamesUnique
<1>3. QED
  BY <1>1, <1>2, DeskImplements, PTL

\* A billing retry surfaces and a link is acknowledged once, whatever confirms and
\* cancels come from the desks beside it.
THEOREM DeskLinksSound == DeskSpec => [](MarkedOnce /\ SurplusSurfaces /\ BilledOnce)
<1>1. Spec => []MarkedOnce /\ []SurplusSurfaces /\ []BilledOnce
  BY AcknowledgedOnce, SurplusIsRefused, NoDoubleBill, DeskAssumption
<1>2. QED
  BY <1>1, DeskImplements, PTL

\* Every run of the desks is a run of requests that cover the order when they are
\* made and are handled once each: the two reads, the outbox, the relay's marks, the
\* in-process publish and the other desks' work are steps of that or stutters.
THEOREM DeskImplementsRequests == DeskSpec => ImplementsRequests
<1>1. RP!Spec => RP!ImplementsRequests
  BY RP!OutboxImplementsRequests, SameRequests, DeskAssumption
<1>2. RP!ImplementsRequests => Requests!ImplementsRequests
  <2>1. /\ RP!Promised!Init => Requests!Promised!Init
        /\ [RP!Promised!Next]_(RP!Promised!vars)
              => [Requests!Promised!Next]_(Requests!Promised!vars)
    BY SamePromise DEF RP!Promised!vars, Requests!Promised!vars
  <2>2. QED
    BY <2>1, PTL DEF RP!ImplementsRequests, Requests!ImplementsRequests, RP!Promised!Spec,
                     Requests!Promised!Spec
<1>3. QED
  BY <1>1, <1>2, DeskImplements, PTL DEF ImplementsRequests
=============================================================================
