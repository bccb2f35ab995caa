---------------------------- MODULE OutboundProofs ----------------------------
(***************************************************************************)
(* Theorems about the delivery of the outbox, for every value of the       *)
(* constants: what the operations do to its tables, the invariant every    *)
(* step keeps, what follows from it, and that the dispatchers implement    *)
(* ReliableDelivery.                                                       *)
(***************************************************************************)
EXTENDS OutboundDispatcher, FiniteSetTheorems, TLAPS

-----------------------------------------------------------------------------
(* What the operations of the queue do to its tables *)

Acked(R) == {e \in Events : R[e].state = "ACKED"}

\* Deleting rows leaves a table of rows.
LEMMA DeleteType ==
  ASSUME NEW R \in [Events -> Row], NEW gone
  PROVE  Delete(R, gone) \in [Events -> Row]
BY Zenon DEF Delete, Row, BlankRow, States

\* enforce_budget deletes evictable rows, which it counts, and acknowledged ones.
LEMMA BudgetOutcome ==
  ASSUME NEW R \in [Events -> Row], NEW required, NEW b \in enforce_budget(R, required)
  PROVE  /\ b.victims \subseteq Evictable(R)
         /\ \E batch \in SUBSET Acked(R) : b.rows = Delete(R, b.victims \cup batch)
<1>1. CASE Fits(R, required)
  <2>1. b = [rows |-> R, victims |-> {}]
    BY <1>1, Zenon DEF enforce_budget
  <2>2. R = Delete(R, {} \cup {})
    BY Zenon DEF Delete
  <2> QED BY SMTT(30), <2>1, <2>2
<1>2. CASE ~Fits(R, required)
  <2>1. PICK batch \in AckedBatches(R) :
          b = [rows |-> Delete(R, Victims(R, required) \cup batch),
               victims |-> Victims(R, required)]
    BY <1>2, Zenon DEF enforce_budget
  <2>2. batch \in SUBSET Acked(R)
    BY Zenon DEF AckedBatches, kSubset, Acked
  <2>3. Victims(R, required) \subseteq Evictable(R)
    BY Zenon DEF Victims
  <2> QED BY Zenon, <2>1, <2>2, <2>3
<1> QED BY SMTT(30), <1>1, <1>2

\* An insertion: some rows go, one comes.
LEMMA InsertEffect ==
  ASSUME QueueTypeOK, NEW k, NEW g, insert_event(k, g)
  PROVE  /\ next_event_counter \in Events
         /\ next_event_counter' = next_event_counter + 1
         /\ reported_dropped_low_priority' = reported_dropped_low_priority
         /\ \E victims \in SUBSET Evictable(rows), batch \in SUBSET Acked(rows) :
              /\ rows' = [Delete(rows, victims \cup batch)
                            EXCEPT ![next_event_counter] = NewRow(k, g)]
              /\ CountDropped(victims)
<1>1. PICK b \in enforce_budget(rows, PayloadOf(k) + RowOverhead) :
        /\ rows' = [b.rows EXCEPT ![next_event_counter] = NewRow(k, g)]
        /\ CountDropped(b.victims)
  BY Zenon DEF insert_event
<1>2. /\ b.victims \subseteq Evictable(rows)
      /\ \E batch \in SUBSET Acked(rows) : b.rows = Delete(rows, b.victims \cup batch)
  BY SMTT(30), BudgetOutcome DEF QueueTypeOK
<1>3. next_event_counter \in Events
  BY QueueAssumption DEF insert_event, QueueTypeOK, Events
<1> QED BY Zenon, <1>1, <1>2, <1>3 DEF insert_event

AttemptRow(e, seq, bytes) ==
  [rows[e] EXCEPT !.state = "IN_FLIGHT", !.attempted = TRUE, !.seq = seq,
                  !.env = bytes, !.fresh = TRUE]

\* A stored attempt: its row is updated, and others may go.
LEMMA StoreEffect ==
  ASSUME QueueTypeOK, NEW e \in Events, NEW seq \in Nat, NEW bytes \in Nat,
         store_attempt(e, seq, bytes)
  PROVE  \E victims \in SUBSET (Evictable(rows) \ {e}), batch \in SUBSET (Acked(rows) \ {e}) :
           /\ rows' = [Delete(rows, victims \cup batch) EXCEPT ![e] = AttemptRow(e, seq, bytes)]
           /\ CountDropped(victims)
<1> DEFINE R == Reserved(e)
<1>1. PICK b \in StoreOutcomes(e, bytes) :
        /\ rows' = [b.rows EXCEPT ![e].attempted = TRUE, ![e].seq = seq,
                                  ![e].env = bytes, ![e].fresh = TRUE]
        /\ CountDropped(b.victims)
  BY Zenon DEF store_attempt
<1>2. R \in [Events -> Row]
  BY DEF QueueTypeOK, Reserved, Row, States
<1>3. PICK batch \in SUBSET Acked(R) : /\ b.victims \subseteq Evictable(R)
                                       /\ b.rows = Delete(R, b.victims \cup batch)
  <2>1. CASE b \in enforce_budget(R, Growth(e, bytes))
    BY Zenon, <2>1, <1>2, BudgetOutcome
  <2>2. CASE b = [rows |-> R, victims |-> {}]
    <3>1. R = Delete(R, {} \cup {})
      BY <1>2, Zenon DEF Delete
    <3> QED BY <2>2, <3>1, Zenon
  <2> QED BY SMTT(30), <2>1, <2>2 DEF StoreOutcomes
<1>4. /\ R[e] = [rows[e] EXCEPT !.state = "IN_FLIGHT"]
      /\ \A f \in Events \ {e} : R[f] = rows[f]
  BY SMTT(30) DEF QueueTypeOK, Reserved
<1>5. b.victims \in SUBSET (Evictable(rows) \ {e})
  BY SMTT(30), <1>3, <1>4 DEF Evictable, QueueTypeOK, Row
<1>6. batch \in SUBSET (Acked(rows) \ {e})
  BY <1>3, <1>4 DEF Acked, QueueTypeOK, Row
<1>7. rows' = [Delete(rows, b.victims \cup batch) EXCEPT ![e] = AttemptRow(e, seq, bytes)]
  <2>1. b.rows \in [Events -> Row]
    BY SMTT(30), <1>2, <1>3, DeleteType
  <2>2. b.rows[e] = R[e]
    BY SMTT(30), <1>3, <1>5, <1>6 DEF Delete
  <2>3. rows' = [b.rows EXCEPT ![e] = AttemptRow(e, seq, bytes)]
    BY Zenon, <1>1, <1>4, <2>1, <2>2 DEF AttemptRow, QueueTypeOK, Row
  <2>4. \A f \in Events \ {e} : b.rows[f] = Delete(rows, b.victims \cup batch)[f]
    BY <1>3, <1>4, Zenon DEF Delete
  <2>5. Delete(rows, b.victims \cup batch) \in [Events -> Row]
    BY DeleteType, Zenon DEF QueueTypeOK
  <2> QED BY Zenon, <2>1, <2>3, <2>4, <2>5
<1> QED BY Zenon, <1>1, <1>5, <1>6, <1>7

-----------------------------------------------------------------------------
(* The inductive invariant *)

\* What ties a row to the history of its event.  The third conjunct is what makes
\* eviction safe: whatever has left the agent is marked as attempted.
RowOK(e) ==
  /\ e >= next_event_counter =>
       rows[e].state = "ABSENT" /\ e \notin sent /\ e \notin evicted
  /\ rows[e].env > 0 => rows[e].attempted
  /\ e \in sent => rows[e].state = "ABSENT" \/ rows[e].attempted
  /\ rows[e].state = "ACKED" => e \in receipts
  /\ e \in evicted => /\ rows[e].state = "ABSENT" /\ e \notin sent
                      /\ PriorityOf(rows[e].producer) <= 1
  /\ rows[e].state = "ABSENT" /\ e < next_event_counter =>
       e \in receipts \/ e \in evicted
  /\ rows[e].gap <= dropped_low_priority

RowInv == \A e \in Events : RowOK(e)

\* What a process remembers between two statements is still true.
ProcOK(p) ==
  /\ pc[p] \in {"sequence", "store", "await", "retry"} =>
       message[p] \in Message /\ message[p].event < next_event_counter
  /\ exchange[p] # Idle =>
       /\ pc[p] = "await" /\ exchange[p] \in Exchange
       /\ exchange[p].event = message[p].event /\ exchange[p].event \in sent
  /\ exchange[p].status = "ack" => exchange[p].event \in receipts
  /\ gap[p] <= dropped_low_priority

ProcInv == \A p \in Processes : ProcOK(p)

NetInv == receipts \subseteq sent /\ \A r \in orphans : r.event \in sent

TablesInv == QueueTypeOK /\ RowInv /\ DropsAreCounted /\ GapReportsAreTrue

IInv == TypeOK /\ TablesInv /\ ProcInv /\ NetInv

\* What the invariant of the tables says of one event.
LEMMA TablesFacts ==
  ASSUME TablesInv
  PROVE  /\ QueueTypeOK /\ RowInv /\ DropsAreCounted /\ GapReportsAreTrue
         /\ \A f \in Events : f \in Nat /\ rows[f] \in Row
         /\ next_event_counter \in Nat /\ dropped_low_priority \in Nat
BY SMTT(30), QueueAssumption DEF TablesInv, Events, QueueTypeOK

\* Event ids are counted from 1 up to the bound.
LEMMA EventsFinite == IsFiniteSet(Events)
BY FS_Interval, QueueAssumption DEF Events

\* The counter and the history of evictions move together.
LEMMA CountKeeps ==
  ASSUME evicted \subseteq Events, NEW victims \in SUBSET Events,
         victims \cap evicted = {}, DropsAreCounted, CountDropped(victims)
  PROVE  /\ DropsAreCounted'
         /\ evicted' = evicted \cup victims
         /\ dropped_low_priority' \in Nat
         /\ dropped_low_priority' >= dropped_low_priority
<1>1. IsFiniteSet(evicted) /\ IsFiniteSet(victims)
  BY EventsFinite, FS_Subset, Zenon
<1>2. Cardinality(evicted \cap victims) = 0
  BY FS_EmptySet, Zenon
<1>3. /\ Cardinality(evicted) \in Nat /\ Cardinality(victims) \in Nat
      /\ Cardinality(evicted \cup victims)
           = Cardinality(evicted) + Cardinality(victims) - Cardinality(evicted \cap victims)
  BY Zenon, <1>1, FS_Union, FS_CardinalityType
<1> QED BY <1>2, <1>3 DEF DropsAreCounted, CountDropped

\* A blank row has never been attempted and is in no state of a present row.
LEMMA BlankFields ==
  ASSUME NEW k, NEW g
  PROVE  /\ BlankRow(k, g).state = "ABSENT" /\ BlankRow(k, g).env = 0
         /\ BlankRow(k, g).producer = k /\ BlankRow(k, g).gap = g
         /\ ~BlankRow(k, g).attempted
BY Zenon DEF BlankRow

\* A report stays true as long as the keys of committed markers do.
LEMMA GapKeeps ==
  ASSUME GapReportsAreTrue, receipts \subseteq receipts',
         dropped_low_priority \in Nat, dropped_low_priority' \in Nat,
         dropped_low_priority' >= dropped_low_priority,
         reported_dropped_low_priority \in Nat,
         reported_dropped_low_priority' = reported_dropped_low_priority,
         \A e \in receipts : rows'[e].producer = rows[e].producer /\ rows'[e].gap = rows[e].gap
  PROVE  GapReportsAreTrue'
<1>1. reported_dropped_low_priority' <= dropped_low_priority'
  BY DEF GapReportsAreTrue
<1>2. ASSUME reported_dropped_low_priority' > 0
      PROVE  \E e \in receipts' : /\ rows'[e].producer = GapMarker
                                  /\ rows'[e].gap = reported_dropped_low_priority'
  <2>1. PICK e \in receipts : /\ rows[e].producer = GapMarker
                              /\ rows[e].gap = reported_dropped_low_priority
    BY SMTT(30), <1>2 DEF GapReportsAreTrue
  <2> QED BY SMTT(30), <2>1
<1> QED BY SMTT(30), <1>1, <1>2 DEF GapReportsAreTrue

\* A row that an operation leaves alone, or of which it only changes what the
\* invariant does not mention.
LEMMA SameRow ==
  ASSUME NEW e \in Nat, RowOK(e), rows[e] \in Row,
         next_event_counter \in Nat, next_event_counter' \in Nat,
         dropped_low_priority \in Nat, dropped_low_priority' \in Nat,
         dropped_low_priority' >= dropped_low_priority,
         e < next_event_counter' <=> e < next_event_counter,
         e \in sent' <=> e \in sent, e \in evicted' <=> e \in evicted,
         receipts \subseteq receipts',
         rows'[e].producer = rows[e].producer, rows'[e].gap = rows[e].gap,
         rows'[e].env = rows[e].env, rows'[e].state = rows[e].state,
         rows'[e].attempted = rows[e].attempted
  PROVE  RowOK(e)'
BY SMTT(30) DEF RowOK, Row

\* A row that an operation deletes, because it is acknowledged or as a victim.
LEMMA GoneRow ==
  ASSUME NEW e \in Nat, RowOK(e), rows[e] \in Row,
         next_event_counter \in Nat, next_event_counter' \in Nat,
         dropped_low_priority \in Nat, dropped_low_priority' \in Nat,
         dropped_low_priority' >= dropped_low_priority,
         e < next_event_counter' <=> e < next_event_counter,
         e \in sent' <=> e \in sent, receipts \subseteq receipts',
         rows'[e] = BlankRow(rows[e].producer, rows[e].gap),
         \/ rows[e].state = "ACKED" /\ (e \in evicted' <=> e \in evicted)
         \/ /\ rows[e].state = "PENDING" /\ ~rows[e].attempted
            /\ PriorityOf(rows[e].producer) <= 1 /\ e \in evicted'
  PROVE  RowOK(e)'
<1>1. /\ rows'[e].state = "ABSENT" /\ rows'[e].env = 0 /\ rows'[e].gap = rows[e].gap
      /\ rows'[e].producer = rows[e].producer
  BY SMTT(30), BlankFields
<1> QED BY SMTT(30), <1>1 DEF RowOK, Row

\* INSERT after enforce_budget keeps the invariant of the tables.
LEMMA InsertKeeps ==
  ASSUME TablesInv, receipts \subseteq sent, sent \subseteq Events,
         sent' = sent, receipts' = receipts,
         NEW k \in Producers \cup {GapMarker}, NEW g \in Nat,
         g <= dropped_low_priority, insert_event(k, g)
  PROVE  /\ TablesInv'
         /\ next_event_counter' >= next_event_counter
         /\ dropped_low_priority' >= dropped_low_priority
<1>0. /\ QueueTypeOK /\ RowInv /\ DropsAreCounted /\ GapReportsAreTrue
      /\ \A f \in Events : f \in Nat /\ rows[f] \in Row
      /\ next_event_counter \in Nat /\ dropped_low_priority \in Nat
  BY TablesFacts, Zenon
<1>1. /\ next_event_counter \in Events /\ next_event_counter' = next_event_counter + 1
      /\ reported_dropped_low_priority' = reported_dropped_low_priority
  BY SMTT(30), <1>0, InsertEffect
<1>2. PICK victims \in SUBSET Evictable(rows), batch \in SUBSET Acked(rows) :
        /\ rows' = [Delete(rows, victims \cup batch)
                      EXCEPT ![next_event_counter] = NewRow(k, g)]
        /\ CountDropped(victims)
  BY Zenon, <1>0, InsertEffect
<1>3. victims \in SUBSET Events /\ victims \cap evicted = {}
  BY SMTT(30), <1>0 DEF Evictable, RowInv, RowOK
<1>4. /\ DropsAreCounted' /\ evicted' = evicted \cup victims
      /\ dropped_low_priority' \in Nat /\ dropped_low_priority' >= dropped_low_priority
  BY SMTT(30), <1>0, <1>2, <1>3, CountKeeps DEF QueueTypeOK
<1>5. Delete(rows, victims \cup batch) \in [Events -> Row]
  BY <1>0, DeleteType, Zenon DEF QueueTypeOK
<1>6. rows' \in [Events -> Row] /\ NewRow(k, g) \in Row
  BY Zenon, <1>2, <1>5 DEF NewRow, BlankRow, Row, States
<1>7. QueueTypeOK'
  <2>1. next_event_counter' \in 1..(MaxEvents + 1)
    BY SMTT(30), <1>1, QueueAssumption DEF Events
  <2> QED BY SMTT(30), <2>1, <1>0, <1>1, <1>3, <1>4, <1>6 DEF QueueTypeOK
<1>8. /\ rows'[next_event_counter] = NewRow(k, g)
      /\ \A e \in Events \ {next_event_counter} :
           /\ e \in victims \cup batch =>
                rows'[e] = BlankRow(rows[e].producer, rows[e].gap)
           /\ e \notin victims \cup batch => rows'[e] = rows[e]
  BY SMTT(30), <1>1, <1>2, <1>5 DEF Delete
<1>9. ASSUME NEW e \in Events PROVE RowOK(e)'
  <2>0. /\ RowOK(e) /\ rows[e] \in Row /\ e \in Nat
        /\ next_event_counter \in Nat /\ dropped_low_priority \in Nat
    BY SMTT(30), <1>0, <1>1 DEF RowInv, QueueTypeOK
  <2>1. CASE e = next_event_counter
    <3>1. /\ rows'[e].state = "PENDING" /\ rows'[e].env = 0 /\ rows'[e].gap = g
      BY SMTT(30), <2>1, <1>8 DEF NewRow, BlankRow
    <3> QED BY SMTT(30), <2>0, <2>1, <3>1, <1>1, <1>4 DEF RowOK, Evictable
  <2>2. CASE e # next_event_counter /\ e \in victims \cup batch
    <3>1. \/ rows[e].state = "ACKED" /\ (e \in evicted' <=> e \in evicted)
          \/ /\ rows[e].state = "PENDING" /\ ~rows[e].attempted
             /\ PriorityOf(rows[e].producer) <= 1 /\ e \in evicted'
      BY SMTT(30), <2>2, <1>4 DEF Evictable, Acked
    <3>2. rows'[e] = BlankRow(rows[e].producer, rows[e].gap)
      BY SMTT(30), <2>2, <1>8
    <3>3. e < next_event_counter' <=> e < next_event_counter
      BY SMTT(30), <2>0, <2>2, <1>1
    <3> QED BY SMTT(30), <2>0, <3>1, <3>2, <3>3, <1>1, <1>4, GoneRow
  <2>3. CASE e # next_event_counter /\ e \notin victims \cup batch
    <3>1. rows'[e] = rows[e] /\ (e \in evicted' <=> e \in evicted)
      BY SMTT(30), <2>3, <1>4, <1>8
    <3>2. e < next_event_counter' <=> e < next_event_counter
      BY SMTT(30), <2>0, <2>3, <1>1
    <3> QED BY SMTT(40), <2>0, <3>1, <3>2, <1>1, <1>4, SameRow
  <2> QED BY SMTT(30), <2>1, <2>2, <2>3
<1>10. GapReportsAreTrue'
  <2>1. ASSUME NEW e \in receipts
        PROVE  rows'[e].producer = rows[e].producer /\ rows'[e].gap = rows[e].gap
    <3>1. e \in Events /\ e # next_event_counter
      BY SMTT(30), <1>0, <1>1 DEF RowInv, RowOK
    <3> QED BY SMTT(30), <3>1, <1>8, BlankFields
  <2> QED BY SMTT(30), <2>1, <1>0, <1>1, <1>4, GapKeeps DEF QueueTypeOK
<1> QED BY SMTT(30), <1>0, <1>1, <1>4, <1>7, <1>9, <1>10 DEF QueueTypeOK, TablesInv, RowInv

\* The attempt is marked before the envelope leaves: from here on its row cannot
\* be evicted.
LEMMA StoreKeeps ==
  ASSUME TablesInv, receipts \subseteq sent, sent \subseteq Events,
         NEW e \in Events, NEW seq \in Nat, NEW bytes \in Nat,
         e < next_event_counter, store_attempt(e, seq, bytes),
         sent' = sent \cup {e}, receipts' = receipts
  PROVE  /\ TablesInv'
         /\ next_event_counter' = next_event_counter
         /\ dropped_low_priority' >= dropped_low_priority
<1>0. /\ QueueTypeOK /\ RowInv /\ DropsAreCounted /\ GapReportsAreTrue
      /\ \A f \in Events : f \in Nat /\ rows[f] \in Row
      /\ next_event_counter \in Nat /\ dropped_low_priority \in Nat
  BY SMTT(30), TablesFacts
<1>1. /\ next_event_counter' = next_event_counter /\ rows[e].state # "ABSENT"
      /\ reported_dropped_low_priority' = reported_dropped_low_priority
  BY Zenon DEF store_attempt
<1>2. PICK victims \in SUBSET (Evictable(rows) \ {e}), batch \in SUBSET (Acked(rows) \ {e}) :
        /\ rows' = [Delete(rows, victims \cup batch) EXCEPT ![e] = AttemptRow(e, seq, bytes)]
        /\ CountDropped(victims)
  BY Zenon, <1>0, StoreEffect
<1>3. victims \in SUBSET Events /\ victims \cap evicted = {}
  BY SMTT(30), <1>0 DEF Evictable, RowInv, RowOK
<1>4. /\ DropsAreCounted' /\ evicted' = evicted \cup victims
      /\ dropped_low_priority' \in Nat /\ dropped_low_priority' >= dropped_low_priority
  BY SMTT(30), <1>0, <1>2, <1>3, CountKeeps DEF QueueTypeOK
<1>5. Delete(rows, victims \cup batch) \in [Events -> Row]
  BY <1>0, DeleteType, Zenon DEF QueueTypeOK
<1>6. rows' \in [Events -> Row]
  <2>1. rows[e] \in Row
    BY SMTT(30), <1>0 DEF QueueTypeOK
  <2>2. AttemptRow(e, seq, bytes) \in Row
    BY Zenon, <2>1 DEF AttemptRow, Row, States
  <2> QED BY Zenon, <1>2, <1>5, <2>2
<1>7. QueueTypeOK'
  BY SMTT(30), <1>0, <1>1, <1>3, <1>4, <1>6 DEF QueueTypeOK
<1>8. /\ rows'[e] = AttemptRow(e, seq, bytes)
      /\ \A f \in Events \ {e} :
           /\ f \in victims \cup batch =>
                rows'[f] = BlankRow(rows[f].producer, rows[f].gap)
           /\ f \notin victims \cup batch => rows'[f] = rows[f]
  BY SMTT(30), <1>2, <1>5 DEF Delete
<1>a. /\ rows'[e].state = "IN_FLIGHT" /\ rows'[e].attempted = TRUE
      /\ rows'[e].gap = rows[e].gap /\ rows'[e].producer = rows[e].producer
  BY SMTT(30), <1>0, <1>8 DEF AttemptRow, QueueTypeOK, Row
<1>9. ASSUME NEW f \in Events PROVE RowOK(f)'
  <2>0. RowOK(f) /\ rows[f] \in Row /\ f \in Nat
    BY SMTT(30), <1>0 DEF RowInv, QueueTypeOK
  <2>1. CASE f = e
    <3>1. e \notin evicted' /\ rows[e].gap <= dropped_low_priority /\ rows[e].gap \in Nat
      BY SMTT(30), <2>0, <2>1, <1>1, <1>2, <1>4 DEF RowOK, Row
    <3> QED BY SMTT(30), <2>0, <2>1, <3>1, <1>0, <1>1, <1>4, <1>a DEF RowOK
  <2>2. CASE f # e /\ f \in victims \cup batch
    <3>1. \/ rows[f].state = "ACKED" /\ (f \in evicted' <=> f \in evicted)
          \/ /\ rows[f].state = "PENDING" /\ ~rows[f].attempted
             /\ PriorityOf(rows[f].producer) <= 1 /\ f \in evicted'
      BY SMTT(30), <2>2, <1>4 DEF Evictable, Acked
    <3>2. rows'[f] = BlankRow(rows[f].producer, rows[f].gap)
      BY SMTT(30), <2>2, <1>8
    <3> QED BY SMTT(30), <2>0, <2>2, <3>1, <3>2, <1>0, <1>1, <1>4, GoneRow
  <2>3. CASE f # e /\ f \notin victims \cup batch
    <3>1. rows'[f] = rows[f] /\ (f \in evicted' <=> f \in evicted)
      BY SMTT(30), <2>3, <1>4, <1>8
    <3> QED BY SMTT(30), <2>0, <2>3, <3>1, <1>0, <1>1, <1>4, SameRow
  <2> QED BY SMTT(30), <2>1, <2>2, <2>3
<1>10. GapReportsAreTrue'
  <2>1. ASSUME NEW f \in receipts
        PROVE  rows'[f].producer = rows[f].producer /\ rows'[f].gap = rows[f].gap
    BY SMTT(30), <1>8, <1>a, BlankFields
  <2> QED BY SMTT(30), <2>1, <1>0, <1>1, <1>4, GapKeeps DEF QueueTypeOK
<1> QED BY SMTT(30), <1>0, <1>1, <1>4, <1>7, <1>9, <1>10 DEF TablesInv, RowInv

SameKey(row, old) ==
  /\ row.producer = old.producer /\ row.gap = old.gap
  /\ row.env = old.env /\ row.seq = old.seq /\ row.attempted = old.attempted

\* A change of state in place: what it may not do is delete the row, or call it
\* acknowledged without a receipt.
LEMMA UpdateKeeps ==
  ASSUME TablesInv, receipts \subseteq Events, NEW e \in Events, NEW row \in Row,
         rows[e].state # "ABSENT", SameKey(row, rows[e]),
         row.state # "ABSENT", row.state = "ACKED" => e \in receipts,
         rows' = [rows EXCEPT ![e] = row],
         UNCHANGED <<next_event_counter, dropped_low_priority, evicted, sent, receipts>>
  PROVE  /\ rows' \in [Events -> Row] /\ RowInv' /\ DropsAreCounted'
         /\ \A f \in receipts : rows'[f].producer = rows[f].producer /\ rows'[f].gap = rows[f].gap
<1>0. /\ QueueTypeOK /\ RowInv /\ DropsAreCounted /\ GapReportsAreTrue
      /\ \A f \in Events : f \in Nat /\ rows[f] \in Row
      /\ next_event_counter \in Nat /\ dropped_low_priority \in Nat
  BY SMTT(30), TablesFacts
<1>1. rows' \in [Events -> Row] /\ rows'[e] = row /\ \A f \in Events \ {e} : rows'[f] = rows[f]
  BY SMTT(30), <1>0 DEF QueueTypeOK
<1>2. ASSUME NEW f \in Events PROVE RowOK(f)'
  <2>0. RowOK(f)
    BY SMTT(30), <1>0 DEF RowInv
  <2>1. CASE f = e
    BY SMTT(30), <2>0, <2>1, <1>1 DEF RowOK, SameKey
  <2>2. CASE f # e
    BY SMTT(30), <2>0, <2>2, <1>0, <1>1, SameRow
  <2> QED BY SMTT(30), <2>1, <2>2
<1> QED BY SMTT(30), <1>0, <1>1, <1>2 DEF RowInv, DropsAreCounted, SameKey

\* Setting the state of a row changes no other column.
LEMMA StateFields ==
  ASSUME NEW row \in Row, NEW s \in States
  PROVE  LET new == [row EXCEPT !.state = s]
         IN  new \in Row /\ SameKey(new, row) /\ new.state = s
BY Zenon DEF Row, States, SameKey

\* mark_retry changes the state and the retry time of a row only.
LEMMA RetryFields ==
  ASSUME NEW row \in Row
  PROVE  LET new == [row EXCEPT !.state = "PENDING", !.due = FALSE]
         IN  new \in Row /\ SameKey(new, row) /\ new.state = "PENDING"
BY Zenon DEF Row, States, SameKey

\* mark_retry and mark_dead_letter keep every promise whatever the row's state is.
LEMMA RetryKeeps ==
  ASSUME TablesInv, receipts \subseteq Events, NEW e \in Events,
         mark_retry(e) \/ mark_dead_letter(e), sent' = sent, receipts' = receipts
  PROVE  TablesInv' /\ UNCHANGED <<next_event_counter, dropped_low_priority>>
<1>0. QueueTypeOK /\ rows[e] \in Row
  BY Zenon DEF TablesInv, QueueTypeOK
<1>1. UNCHANGED <<next_event_counter, dropped_low_priority, evicted,
                  reported_dropped_low_priority>>
  BY SMTT(30) DEF mark_retry, mark_dead_letter, UpdateRow
<1>2. CASE rows' = rows
  BY SMTT(30), <1>1, <1>2 DEF TablesInv, QueueTypeOK, RowInv, RowOK, DropsAreCounted, GapReportsAreTrue
<1>3. CASE rows' # rows
  <2>1. PICK row \in Row : /\ rows' = [rows EXCEPT ![e] = row] /\ SameKey(row, rows[e])
                           /\ row.state \in {"PENDING", "DEAD_LETTER"}
                           /\ rows[e].state # "ABSENT"
    <3>1. CASE mark_retry(e)
      BY Zenon, <1>0, <1>3, <3>1, RetryFields DEF mark_retry, UpdateRow
    <3>2. CASE mark_dead_letter(e)
      BY Zenon, <1>0, <1>3, <3>2, StateFields DEF mark_dead_letter, UpdateRow, States
    <3> QED BY SMTT(30), <3>1, <3>2
  <2>2. /\ rows' \in [Events -> Row] /\ RowInv' /\ DropsAreCounted'
        /\ \A f \in receipts : rows'[f].producer = rows[f].producer /\ rows'[f].gap = rows[f].gap
    BY Zenon, <1>1, <2>1, UpdateKeeps
  <2>3. GapReportsAreTrue'
    BY SMTT(30), <1>0, <1>1, <2>2, GapKeeps DEF TablesInv, QueueTypeOK
  <2> QED BY SMTT(30), <1>0, <1>1, <2>2, <2>3 DEF TablesInv, QueueTypeOK
<1> QED BY SMTT(30), <1>1, <1>2, <1>3

\* The MAX(a, b) of the metadata update is one of its arguments.
LEMMA MaxOfTwo ==
  ASSUME NEW a \in Nat, NEW b \in Nat
  PROVE  /\ Max({a, b}) \in {a, b}
         /\ Max({a, b}) >= a /\ Max({a, b}) >= b
<1>1. \E x \in {a, b} : \A y \in {a, b} : x >= y
  OBVIOUS
<1> QED BY SMTT(30), <1>1 DEF Max

\* An acknowledgement is recorded for a committed event; the count it reports, if
\* any, is the one its marker carries.
LEMMA AckKeeps ==
  ASSUME TablesInv, receipts \subseteq Events, NEW e \in Events, e \in receipts,
         mark_acknowledged(e), sent' = sent, receipts' = receipts
  PROVE  TablesInv' /\ UNCHANGED <<next_event_counter, dropped_low_priority>>
<1>0. QueueTypeOK /\ rows[e] \in Row /\ RowOK(e) /\ GapReportsAreTrue
  BY Zenon DEF TablesInv, QueueTypeOK, RowInv
<1>1. UNCHANGED <<next_event_counter, dropped_low_priority, evicted>>
  BY SMTT(30) DEF mark_acknowledged, UpdateRow
<1>2. CASE rows[e].state = "ABSENT"
  <2>1. rows' = rows /\ reported_dropped_low_priority' = reported_dropped_low_priority
    BY SMTT(30), <1>2 DEF mark_acknowledged, UpdateRow
  <2> QED BY SMTT(30), <1>1, <2>1
          DEF TablesInv, QueueTypeOK, RowInv, RowOK, DropsAreCounted, GapReportsAreTrue
<1>3. CASE rows[e].state # "ABSENT"
  <2>1. PICK row \in Row : /\ rows' = [rows EXCEPT ![e] = row] /\ SameKey(row, rows[e])
                           /\ row.state = "ACKED"
    BY Zenon, <1>0, <1>3, StateFields DEF mark_acknowledged, UpdateRow, States
  <2>2. /\ rows' \in [Events -> Row] /\ RowInv' /\ DropsAreCounted'
        /\ \A f \in receipts : rows'[f].producer = rows[f].producer /\ rows'[f].gap = rows[f].gap
    BY Zenon, <1>1, <1>3, <2>1, UpdateKeeps
  <2>3. reported_dropped_low_priority' \in Nat /\ GapReportsAreTrue'
    <3>1. CASE reported_dropped_low_priority' = reported_dropped_low_priority
      BY SMTT(30), <3>1, <1>0, <1>1, <2>2, GapKeeps DEF TablesInv, QueueTypeOK
    <3>2. CASE reported_dropped_low_priority' # reported_dropped_low_priority
      <4>1. rows[e].producer = GapMarker /\ reported_dropped_low_priority' = rows[e].gap
        BY Zenon, <3>2, <1>0, <1>3, MaxOfTwo DEF mark_acknowledged, QueueTypeOK, Row
      <4>2. rows[e].gap \in Nat /\ rows[e].gap <= dropped_low_priority
        BY SMTT(30), <1>0 DEF RowOK, Row
      <4> QED BY SMTT(30), <4>1, <4>2, <1>1, <2>2 DEF GapReportsAreTrue
    <3> QED BY SMTT(30), <3>1, <3>2
  <2> QED BY SMTT(30), <1>0, <1>1, <2>2, <2>3 DEF TablesInv, QueueTypeOK
<1> QED BY SMTT(30), <1>1, <1>2, <1>3

\* Only acknowledged rows are pruned, and those have a receipt.
LEMMA PruneKeeps ==
  ASSUME TablesInv, receipts \subseteq Events, prune_acknowledged,
         sent' = sent, receipts' = receipts
  PROVE  TablesInv' /\ UNCHANGED <<next_event_counter, dropped_low_priority>>
<1>0. /\ QueueTypeOK /\ RowInv /\ DropsAreCounted /\ GapReportsAreTrue
      /\ \A f \in Events : f \in Nat /\ rows[f] \in Row
      /\ next_event_counter \in Nat /\ dropped_low_priority \in Nat
  BY SMTT(30), TablesFacts
<1>1. UNCHANGED <<next_event_counter, dropped_low_priority, evicted,
                  reported_dropped_low_priority>>
  BY SMTT(30) DEF prune_acknowledged
<1>2. PICK old \in SUBSET Acked(rows) : rows' = Delete(rows, old)
  BY SMTT(30) DEF prune_acknowledged, Acked
<1>3. rows' \in [Events -> Row]
  BY SMTT(30), <1>0, <1>2, DeleteType DEF QueueTypeOK
<1>4. \A e \in Events : /\ e \in old => rows'[e] = BlankRow(rows[e].producer, rows[e].gap)
                        /\ e \notin old => rows'[e] = rows[e]
  BY SMTT(30), <1>2 DEF Delete
<1>5. ASSUME NEW e \in Events PROVE RowOK(e)'
  <2>0. RowOK(e)
    BY SMTT(30), <1>0 DEF RowInv
  <2>1. CASE e \in old
    <3>1. rows[e].state = "ACKED"
      BY SMTT(30), <2>1 DEF Acked
    <3> QED BY SMTT(30), <2>0, <2>1, <3>1, <1>0, <1>1, <1>4, GoneRow
  <2>2. CASE e \notin old
    BY SMTT(30), <2>0, <2>2, <1>0, <1>1, <1>4, SameRow
  <2> QED BY SMTT(30), <2>1, <2>2
<1>6. GapReportsAreTrue'
  <2>1. ASSUME NEW e \in receipts
        PROVE  rows'[e].producer = rows[e].producer /\ rows'[e].gap = rows[e].gap
    BY SMTT(30), <1>4, BlankFields
  <2> QED BY SMTT(30), <2>1, <1>0, <1>1, GapKeeps DEF QueueTypeOK
<1> QED BY SMTT(30), <1>0, <1>1, <1>3, <1>5, <1>6 DEF TablesInv, QueueTypeOK, RowInv, DropsAreCounted

\* Nothing happens to the tables, while an attempted event leaves the agent or
\* the coordinator commits one.
LEMMA TablesStutter ==
  ASSUME TablesInv, UNCHANGED queueVars, receipts \subseteq receipts',
         \A e \in sent' \ sent : e \in Events /\ rows[e].state # "ABSENT" /\ rows[e].attempted,
         sent \subseteq sent'
  PROVE  TablesInv'
<1>1. /\ rows' = rows /\ next_event_counter' = next_event_counter
      /\ dropped_low_priority' = dropped_low_priority /\ evicted' = evicted
      /\ reported_dropped_low_priority' = reported_dropped_low_priority
  BY SMTT(30) DEF queueVars
<1>2. ASSUME NEW e \in Events PROVE RowOK(e)'
  BY SMTT(30), <1>1, TablesFacts DEF RowInv, RowOK
<1>3. GapReportsAreTrue'
  BY <1>1, TablesFacts, GapKeeps DEF QueueTypeOK
<1> QED BY SMTT(30), <1>1, <1>2, <1>3, TablesFacts DEF TablesInv, RowInv, QueueTypeOK, DropsAreCounted

-----------------------------------------------------------------------------
(* The steps of submissions and of drain up to store_attempt *)

\* The counters and histories a process relies on only grow.
Grows ==
  /\ next_event_counter' \in Nat /\ next_event_counter' >= next_event_counter
  /\ dropped_low_priority' \in Nat /\ dropped_low_priority' >= dropped_low_priority
  /\ sent \subseteq sent' /\ receipts \subseteq receipts'

\* A row that falls due is a row. Every proof up to StepMaps uses this fact: a record update
\* among the hypotheses also has the SMT backend encode them without inferring types, which
\* takes longer than the proofs themselves.
LEMMA DueRow == \A row \in Row : [row EXCEPT !.due = TRUE] \in Row
BY Zenon DEF Row

USE DueRow

\* The state of a dispatcher that takes no part in a step stays as it was.
LEMMA SameProc ==
  ASSUME IInv, Grows, NEW p \in Processes,
         pc'[p] = pc[p], message'[p] = message[p],
         exchange'[p] = exchange[p], gap'[p] = gap[p]
  PROVE  ProcOK(p)'
<1>1. /\ ProcOK(p) /\ gap[p] \in Nat /\ next_event_counter \in Nat
      /\ dropped_low_priority \in Nat
  BY SMTT(30), TablesFacts DEF IInv, ProcInv, TypeOK
<1>2. message[p] \in Message => message[p].event \in Nat
  BY SMTT(30), QueueAssumption DEF Message, Events
<1> QED BY SMTT(30), <1>1, <1>2 DEF Grows, ProcOK

\* A step of process p (or of the network on its behalf) keeps the invariant if it
\* keeps the parts that it can disturb.
LEMMA ProcessStep ==
  ASSUME IInv, Grows, NEW p \in Processes, TypeOK', TablesInv', NetInv', ProcOK(p)',
         \A q \in Processes \ {p} :
           /\ pc'[q] = pc[q] /\ message'[q] = message[q]
           /\ exchange'[q] = exchange[q] /\ gap'[q] = gap[q]
  PROVE  IInv'
<1>1. ASSUME NEW q \in Processes PROVE ProcOK(q)'
  BY SMTT(30), SameProc
<1> QED BY SMTT(30), <1>1 DEF IInv, ProcInv

\* What a dispatcher read as the number of drops is at most the counter's value now.
LEMMA GapType == ASSUME IInv, NEW p \in Processes PROVE gap[p] \in Nat /\ gap[p] <= dropped_low_priority
BY SMTT(30) DEF IInv, TypeOK, ProcInv, ProcOK

\* enqueue: coalesced, inserted or refused.
LEMMA EnqueueKeeps ==
  ASSUME IInv, NEW k \in Producers \cup {GapMarker}, NEW g \in Nat,
         g <= dropped_low_priority, enqueue(k, g) \/ enqueueThrows(k, g),
         sent' = sent, receipts' = receipts
  PROVE  TablesInv' /\ Grows
<1>0. TablesInv /\ receipts \subseteq sent /\ sent \subseteq Events
  BY Zenon DEF IInv, TypeOK, NetInv
<1>1. CASE UNCHANGED queueVars
  BY SMTT(30), <1>0, <1>1, TablesStutter, TablesFacts DEF Grows, queueVars
<1>2. CASE insert_event(k, g)
  <2>1. /\ TablesInv' /\ next_event_counter' >= next_event_counter
        /\ dropped_low_priority' >= dropped_low_priority
    BY SMTT(30), <1>0, <1>2, InsertKeeps
  <2>2. next_event_counter' \in Nat /\ dropped_low_priority' \in Nat
    BY SMTT(30), <2>1, QueueAssumption DEF TablesInv, QueueTypeOK
  <2> QED BY SMTT(30), <2>1, <2>2 DEF Grows
<1> QED BY SMTT(30), <1>1, <1>2 DEF enqueue, enqueueThrows

\* submit_finding up to the start of its drain keeps the invariant.
LEMMA SubmitInv ==
  ASSUME IInv, NEW p \in Processes, NEW k \in Producers, SubmitFinding(p, k)
  PROVE  IInv'
<1>1. TablesInv' /\ Grows
  <2>1. 0 <= dropped_low_priority
    BY SMTT(30), TablesFacts DEF IInv
  <2> QED BY SMTT(30), <2>1, EnqueueKeeps DEF SubmitFinding, coordVars
<1>2. /\ pc' \in [Processes -> Steps] /\ pc'[p] \in {"idle", "prune"} /\ pc[p] = "idle"
      /\ \A q \in Processes \ {p} : pc'[q] = pc[q]
      /\ UNCHANGED <<message, attempted, gap, exchange, orphans, receipts, lastSequence,
                     sent, faults, heartbeats>>
      /\ submissions' \in 0..MaxSubmissions
  BY SMTT(30), DispatcherAssumption DEF SubmitFinding, Goto, IInv, TypeOK, Steps, netVars, coordVars
<1>3. TypeOK'
  BY SMTT(30), <1>1, <1>2 DEF IInv, TypeOK, TablesInv
<1>4. NetInv'
  BY SMTT(30), <1>2 DEF IInv, NetInv
<1>5. ProcOK(p)'
  BY SMTT(30), <1>1, <1>2, GapType, TablesFacts DEF IInv, ProcInv, ProcOK, Grows, Idle
<1> QED BY SMTT(30), <1>1, <1>2, <1>3, <1>4, <1>5, ProcessStep

\* A step that leaves tables, network and coordinator alone.
LEMMA LocalStep ==
  ASSUME IInv, NEW p \in Processes,
         UNCHANGED <<queueVars, exchange, orphans, receipts, lastSequence, sent, submissions,
                     heartbeats>>,
         faults' \in 0..MaxFaults,
         pc' \in [Processes -> Steps], message' \in [Processes -> Message \cup {NoMessage}],
         attempted' \in [Processes -> 0..MaximumMessages], gap' \in [Processes -> Nat],
         \A q \in Processes \ {p} :
           pc'[q] = pc[q] /\ message'[q] = message[q] /\ gap'[q] = gap[q],
         exchange[p] = Idle, gap'[p] <= dropped_low_priority,
         pc'[p] \in {"sequence", "store", "retry"} =>
           message'[p] \in Message /\ message'[p].event < next_event_counter,
         pc'[p] # "await"
  PROVE  IInv'
<1>1. TablesInv' /\ Grows
  BY SMTT(30), TablesStutter, TablesFacts DEF IInv, Grows, queueVars
<1>2. TypeOK'
  BY SMTT(30), <1>1 DEF IInv, TypeOK, TablesInv
<1>3. NetInv'
  BY SMTT(30) DEF IInv, NetInv
<1>4. ProcOK(p)'
  BY SMTT(30) DEF ProcOK, queueVars, Idle
<1> QED BY SMTT(30), <1>1, <1>2, <1>3, <1>4, ProcessStep

\* A process is in no exchange unless it waits for one.
LEMMA NotWaiting ==
  ASSUME IInv, NEW p \in Processes, pc[p] # "await"
  PROVE  exchange[p] = Idle
BY SMTT(30) DEF IInv, ProcInv, ProcOK

\* The start of the service's periodic drain keeps the invariant.
LEMMA PeriodicInv ==
  ASSUME IInv, PeriodicDrain
  PROVE  IInv'
<1>1. Service \in Processes /\ exchange[Service] = Idle /\ gap[Service] <= dropped_low_priority
  BY SMTT(30), DispatcherAssumption, NotWaiting, GapType DEF PeriodicDrain
<1>2. /\ UNCHANGED <<queueVars, exchange, orphans, receipts, lastSequence, sent, submissions,
                     heartbeats, faults, message, attempted, gap>>
      /\ pc' \in [Processes -> Steps] /\ pc'[Service] = "prune"
      /\ \A q \in Processes \ {Service} : pc'[q] = pc[q]
  BY SMTT(30), <1>1 DEF PeriodicDrain, Goto, Steps, IInv, TypeOK, netVars, coordVars, boundVars
<1> QED BY SMTT(30), <1>1, <1>2, LocalStep DEF IInv, TypeOK

\* prune_acknowledged at the start of a drain keeps the invariant.
LEMMA PruneInv ==
  ASSUME IInv, NEW p \in Processes, DrainPrune(p)
  PROVE  IInv'
<1>1. /\ UNCHANGED <<message, attempted, gap, exchange, orphans, receipts, lastSequence, sent,
                     submissions, faults, heartbeats>>
      /\ pc' \in [Processes -> Steps] /\ pc'[p] = "gap_read" /\ pc[p] = "prune"
      /\ \A q \in Processes \ {p} : pc'[q] = pc[q]
  BY Zenon DEF DrainPrune, Goto, Steps, IInv, TypeOK, netVars, coordVars, boundVars
<1>2. TablesInv' /\ Grows
  <2>1. TablesInv' /\ UNCHANGED <<next_event_counter, dropped_low_priority>>
    BY SMTT(30), <1>1, PruneKeeps DEF IInv, TypeOK, DrainPrune
  <2> QED BY SMTT(30), <2>1, <1>1, TablesFacts DEF IInv, Grows
<1>3. TypeOK'
  BY SMTT(30), <1>1, <1>2 DEF IInv, TypeOK, TablesInv
<1>4. NetInv'
  BY SMTT(30), <1>1 DEF IInv, NetInv
<1>5. ProcOK(p)'
  BY SMTT(30), <1>1, <1>2, GapType, NotWaiting, TablesFacts DEF IInv, ProcOK, Grows, Idle
<1> QED BY SMTT(30), <1>1, <1>2, <1>3, <1>4, <1>5, ProcessStep

\* Reading the counters for the gap marker keeps the invariant.
LEMMA GapReadInv ==
  ASSUME IInv, NEW p \in Processes, GapRead(p) \/ GapPending(p)
  PROVE  IInv'
<1>1. exchange[p] = Idle /\ gap[p] \in Nat /\ gap[p] <= dropped_low_priority
      /\ dropped_low_priority \in Nat
  BY SMTT(30), NotWaiting, GapType, TablesFacts DEF GapRead, GapPending, IInv
<1>2. /\ UNCHANGED <<queueVars, exchange, orphans, receipts, lastSequence, sent, submissions,
                     heartbeats, faults, message, attempted>>
      /\ pc' \in [Processes -> Steps]
      /\ pc'[p] \in {"next_ready", "gap_pending", "gap_enqueue"}
      /\ gap' \in [Processes -> Nat] /\ gap'[p] \in {0, gap[p], dropped_low_priority}
      /\ \A q \in Processes \ {p} : pc'[q] = pc[q] /\ gap'[q] = gap[q]
  BY SMTT(30), <1>1 DEF GapRead, GapPending, Goto, Steps, IInv, TypeOK, netVars, coordVars, boundVars
<1> QED BY SMTT(40), <1>1, <1>2, LocalStep DEF IInv, TypeOK

\* Enqueueing the gap marker, or failing to, keeps the invariant.
LEMMA GapEnqueueInv ==
  ASSUME IInv, NEW p \in Processes, GapEnqueue(p)
  PROVE  IInv'
<1>1. /\ UNCHANGED <<message, attempted, exchange, orphans, receipts, lastSequence, sent,
                     submissions, faults, heartbeats>>
      /\ pc' \in [Processes -> Steps] /\ pc'[p] = "next_ready" /\ pc[p] = "gap_enqueue"
      /\ gap' \in [Processes -> Nat] /\ gap'[p] = 0
      /\ \A q \in Processes \ {p} : pc'[q] = pc[q] /\ gap'[q] = gap[q]
  BY SMTT(30) DEF GapEnqueue, Goto, Steps, IInv, TypeOK, netVars, coordVars, boundVars
<1>2. TablesInv' /\ Grows
  BY SMTT(30), <1>1, GapType, EnqueueKeeps DEF GapEnqueue
<1>3. TypeOK'
  BY SMTT(30), <1>1, <1>2 DEF IInv, TypeOK, TablesInv
<1>4. NetInv'
  BY SMTT(30), <1>1 DEF IInv, NetInv
<1>5. ProcOK(p)'
  BY SMTT(30), <1>1, <1>2, NotWaiting DEF ProcOK, Grows, Idle
<1> QED BY SMTT(30), <1>1, <1>2, <1>3, <1>4, <1>5, ProcessStep

\* The envelope of event e leaves: its row is marked as attempted already.
LEMMA PostStep ==
  ASSUME IInv, NEW p \in Processes, NEW e \in Events, NEW seq \in Nat, NEW env \in Nat,
         Post(p, e, seq), TablesInv', Grows, e < next_event_counter,
         message'[p] = [event |-> e, seq |-> seq, env |-> env],
         \A q \in Processes \ {p} : message'[q] = message[q],
         message' \in [Processes -> Message \cup {NoMessage}],
         attempted' \in [Processes -> 0..MaximumMessages],
         UNCHANGED <<gap, orphans, receipts, lastSequence, submissions, faults, heartbeats>>
  PROVE  IInv'
<1> DEFINE x == [status |-> "request", event |-> e, seq |-> seq]
<1>1. x \in Exchange /\ x # Idle /\ x.status # "ack" /\ x.event = e
  BY SMTT(60) DEF Exchange, Idle
<1>2. /\ exchange' \in [Processes -> Exchange \cup {Idle}] /\ exchange'[p] = x
      /\ \A q \in Processes \ {p} : exchange'[q] = exchange[q]
  BY SMTT(30), <1>1 DEF Post, IInv, TypeOK
<1>3. /\ pc' \in [Processes -> Steps] /\ pc'[p] = "await"
      /\ \A q \in Processes \ {p} : pc'[q] = pc[q]
      /\ sent' = sent \cup {e}
  BY SMTT(30) DEF Post, Goto, Steps, IInv, TypeOK
<1>4. TypeOK'
  BY SMTT(30), <1>2, <1>3 DEF IInv, TypeOK, TablesInv
<1>5. NetInv'
  BY SMTT(30), <1>3 DEF IInv, NetInv
<1>6. ProcOK(p)'
  <2>1. message'[p] \in Message /\ message'[p].event = e
    BY SMTT(30) DEF Message
  <2>2. e \in Nat /\ next_event_counter \in Nat /\ gap[p] <= dropped_low_priority
        /\ gap[p] \in Nat /\ dropped_low_priority \in Nat
    BY SMTT(30), TablesFacts, GapType DEF IInv
  <2> HIDE DEF x
  <2> QED BY SMTT(30), <1>1, <1>2, <1>3, <2>1, <2>2 DEF ProcOK, Grows
<1> QED BY SMTT(30), <1>2, <1>3, <1>4, <1>5, <1>6, ProcessStep

\* The end of a drain keeps the invariant.
LEMMA EndDrainInv ==
  ASSUME IInv, NEW p \in Processes, pc[p] # "await", EndDrain(p),
         UNCHANGED <<queueVars, exchange, orphans, receipts, lastSequence, sent, submissions,
                     heartbeats, faults>>
  PROVE  IInv'
<1>1. /\ pc' \in [Processes -> Steps] /\ pc'[p] = "idle" /\ gap' = gap
      /\ message' \in [Processes -> Message \cup {NoMessage}]
      /\ attempted' \in [Processes -> 0..MaximumMessages]
      /\ \A q \in Processes \ {p} : pc'[q] = pc[q] /\ message'[q] = message[q]
  BY SMTT(30), DispatcherAssumption DEF EndDrain, Goto, Steps, IInv, TypeOK
<1>2. exchange[p] = Idle /\ gap[p] <= dropped_low_priority
  BY SMTT(30), NotWaiting, GapType
<1> QED BY SMTT(30), <1>1, <1>2, LocalStep DEF IInv, TypeOK

\* Selecting the next row, and sending again what has not expired, keeps the invariant.
LEMMA NextReadyInv ==
  ASSUME IInv, NEW p \in Processes, NextReady(p)
  PROVE  IInv'
<1>0. /\ UNCHANGED <<queueVars, orphans, receipts, lastSequence, submissions, heartbeats, faults>>
      /\ pc[p] = "next_ready"
  BY SMTT(30) DEF NextReady, coordVars, boundVars
<1>1. CASE EndDrain(p) /\ UNCHANGED <<exchange, sent>>
  BY SMTT(30), <1>0, <1>1, EndDrainInv
<1>2. CASE /\ WithinLimit(p) /\ UNCHANGED gap
           /\ attempted' = [attempted EXCEPT ![p] = @ + 1]
           /\ \E e \in next_ready :
                /\ message' = [message EXCEPT ![p] =
                     [event |-> e, seq |-> rows[e].seq, env |-> rows[e].env]]
                /\ IF Reusable(e)
                   THEN Post(p, e, rows[e].seq)
                   ELSE Goto(p, "sequence") /\ UNCHANGED <<exchange, sent>>
  <2>1. attempted' \in [Processes -> 0..MaximumMessages]
    <3>1. attempted[p] \in 0..MaximumMessages /\ MaximumMessages \in Nat
      BY SMTT(30), DispatcherAssumption DEF IInv, TypeOK
    <3>2. attempted[p] + 1 \in 0..MaximumMessages
      BY SMTT(30), <1>2, <3>1 DEF WithinLimit
    <3> QED BY SMTT(30), <1>2, <3>2 DEF IInv, TypeOK
  <2>2. PICK e \in next_ready :
          /\ message' = [message EXCEPT ![p] =
               [event |-> e, seq |-> rows[e].seq, env |-> rows[e].env]]
          /\ IF Reusable(e)
             THEN Post(p, e, rows[e].seq)
             ELSE Goto(p, "sequence") /\ UNCHANGED <<exchange, sent>>
    BY Zenon, <1>2
  <2>3. /\ e \in Events /\ e \in Nat /\ rows[e] \in Row
        /\ rows[e].state \in {"PENDING", "IN_FLIGHT"} /\ RowOK(e)
    BY SMTT(30), TablesFacts DEF IInv, next_ready, Ready, RowInv
  <2>4. e < next_event_counter /\ rows[e].seq \in Nat /\ rows[e].env \in Nat
    BY SMTT(40), <2>3, TablesFacts DEF IInv, RowOK, Row
  <2>5. /\ message'[p] = [event |-> e, seq |-> rows[e].seq, env |-> rows[e].env]
        /\ message'[p] \in Message
        /\ message' \in [Processes -> Message \cup {NoMessage}]
        /\ \A q \in Processes \ {p} : message'[q] = message[q]
    BY SMTT(30), <2>2, <2>3, <2>4 DEF IInv, TypeOK, Message
  <2>6. CASE Reusable(e)
    <3>1. Post(p, e, rows[e].seq) /\ sent' = sent \cup {e} /\ rows[e].attempted
      BY ZenonT(30), <2>2, <2>3, <2>6 DEF Reusable, RowOK, Post
    <3>2. TablesInv'
      <4>1. TablesInv /\ UNCHANGED queueVars /\ receipts \subseteq receipts'
        BY SMTT(30), <1>0 DEF IInv
      <4>2. \A f \in sent' \ sent : f \in Events /\ rows[f].state # "ABSENT" /\ rows[f].attempted
        BY SMTT(30), <2>3, <3>1
      <4>3. sent \subseteq sent'
        BY SMTT(30), <3>1
      <4> QED BY Zenon, <4>1, <4>2, <4>3, TablesStutter
    <3>3. Grows
      <4>1. next_event_counter \in Nat /\ dropped_low_priority \in Nat
        BY SMTT(30), TablesFacts DEF IInv
      <4> QED BY SMTT(30), <1>0, <3>1, <4>1 DEF Grows, queueVars
    <3> QED BY SMTT(60), <1>0, <1>2, <2>1, <2>3, <2>4, <2>5, <3>1, <3>2, <3>3, PostStep
  <2>7. CASE ~Reusable(e)
    <3>1. /\ UNCHANGED <<exchange, sent>> /\ pc'[p] = "sequence"
          /\ pc' \in [Processes -> Steps] /\ \A q \in Processes \ {p} : pc'[q] = pc[q]
      BY SMTT(30), <2>2, <2>7 DEF Goto, Steps, IInv, TypeOK
    <3>2. message'[p].event < next_event_counter
      BY SMTT(30), <2>4, <2>5
    <3>3. exchange[p] = Idle /\ gap[p] <= dropped_low_priority
      BY SMTT(30), <1>0, NotWaiting, GapType
    <3> QED BY ZenonT(30), <1>0, <1>2, <2>1, <2>5, <3>1, <3>2, <3>3, LocalStep DEF IInv, TypeOK
  <2> QED BY SMTT(30), <2>6, <2>7
<1> QED BY SMTT(30), <1>1, <1>2 DEF NextReady

\* The message of a process in the middle of an attempt.
LEMMA InHand ==
  ASSUME IInv, NEW p \in Processes, pc[p] \in {"sequence", "store", "await", "retry"}
  PROVE  /\ message[p] \in Message /\ message[p].event \in Events
         /\ message[p].seq \in Nat /\ message[p].env \in Nat
         /\ message[p].event < next_event_counter
BY Zenon DEF IInv, ProcInv, ProcOK, Message

\* Allocating a sequence for a fresh attempt keeps the invariant.
LEMMA AllocateInv ==
  ASSUME IInv, NEW p \in Processes, AllocateSequence(p) \/ AllocateSequenceThrows(p)
  PROVE  IInv'
<1>0. pc[p] = "sequence" /\ exchange[p] = Idle /\ gap[p] <= dropped_low_priority
  BY SMTT(30), NotWaiting, GapType DEF AllocateSequence, AllocateSequenceThrows
<1>1. CASE AllocateSequence(p)
  <2>1. PICK seq \in 1..MaxSequence, bytes \in EnvelopeBytes :
          message' = [message EXCEPT ![p].seq = seq, ![p].env = bytes]
    BY Zenon, <1>1 DEF AllocateSequence
  <2>2. seq \in Nat /\ bytes \in Nat
    BY SMTT(30), DispatcherAssumption, QueueAssumption
  <2>3. /\ message'[p] \in Message /\ message'[p].event = message[p].event
        /\ message' \in [Processes -> Message \cup {NoMessage}]
        /\ \A q \in Processes \ {p} : message'[q] = message[q]
    <3>1. message[p] \in Message
      BY SMTT(60), <1>0, InHand
    <3>2. [message[p] EXCEPT !.seq = seq, !.env = bytes] \in Message
      BY Zenon, <2>2, <3>1 DEF Message
    <3>3. message' = [message EXCEPT ![p] = [message[p] EXCEPT !.seq = seq, !.env = bytes]]
      BY Zenon, <2>1 DEF IInv, TypeOK
    <3>4. [message[p] EXCEPT !.seq = seq, !.env = bytes].event = message[p].event
      BY SMTT(30), <3>1 DEF Message
    <3> QED BY SMTT(30), <3>2, <3>3, <3>4 DEF IInv, TypeOK
  <2>4. /\ UNCHANGED <<queueVars, attempted, gap, exchange, orphans, receipts, lastSequence,
                       sent, submissions, faults, heartbeats>>
        /\ pc' \in [Processes -> Steps] /\ pc'[p] = "store"
        /\ \A q \in Processes \ {p} : pc'[q] = pc[q]
    BY Zenon, <1>1 DEF AllocateSequence, Goto, Steps, IInv, TypeOK, netVars, coordVars, boundVars
  <2>5. message'[p].event < next_event_counter
    BY SMTT(30), <1>0, <2>3, InHand
  <2> QED BY SMTT(30), <1>0, <2>3, <2>4, <2>5, LocalStep DEF IInv, TypeOK
<1>2. CASE AllocateSequenceThrows(p)
  <2>0. /\ pc \in [Processes -> Steps] /\ pc' = [pc EXCEPT ![p] = "retry"]
        /\ faults \in 0..MaxFaults /\ faults < MaxFaults /\ faults' = faults + 1
    BY SMTT(30), <1>2 DEF AllocateSequenceThrows, Fault, Goto, IInv, TypeOK
  <2>a. UNCHANGED <<queueVars, message, attempted, gap, exchange, orphans, receipts,
                    lastSequence, sent, submissions, heartbeats>>
    BY <1>2, Zenon DEF AllocateSequenceThrows, Fault, netVars, coordVars
  <2>b. faults' \in 0..MaxFaults
    BY SMTT(30), <2>0, DispatcherAssumption
  <2>c. /\ pc' \in [Processes -> Steps] /\ pc'[p] = "retry"
        /\ \A q \in Processes \ {p} : pc'[q] = pc[q]
    BY SMTT(30), <2>0 DEF Steps
  <2>1. /\ UNCHANGED <<queueVars, message, attempted, gap, exchange, orphans, receipts,
                       lastSequence, sent, submissions, heartbeats>>
        /\ faults' \in 0..MaxFaults
        /\ pc' \in [Processes -> Steps] /\ pc'[p] = "retry"
        /\ \A q \in Processes \ {p} : pc'[q] = pc[q]
    BY SMTT(30), <2>a, <2>b, <2>c
  <2>2. message[p] \in Message /\ message[p].event < next_event_counter
    BY SMTT(30), <1>0, InHand
  <2> QED BY SMTT(30), <1>0, <2>1, <2>2, LocalStep DEF IInv, TypeOK
<1> QED BY SMTT(30), <1>1, <1>2

\* store_attempt, successful or not, keeps the invariant.
LEMMA StoreInv ==
  ASSUME IInv, NEW p \in Processes, StoreAttempt(p)
  PROVE  IInv'
<1> DEFINE m == message[p]
<1>0. /\ pc[p] = "store"
      /\ UNCHANGED <<message, attempted, gap, orphans, receipts, lastSequence, submissions,
                     faults, heartbeats>>
  BY SMTT(30) DEF StoreAttempt, coordVars, boundVars
<1>1. /\ m \in Message /\ m.event \in Events /\ m.seq \in Nat /\ m.env \in Nat
      /\ m.event < next_event_counter
  BY SMTT(30), <1>0, InHand
<1>2. CASE store_attempt(m.event, m.seq, m.env) /\ Post(p, m.event, m.seq)
  <2>1. sent' = sent \cup {m.event}
    BY SMTT(30), <1>2 DEF Post
  <2>2. /\ TablesInv' /\ next_event_counter' = next_event_counter
        /\ dropped_low_priority' >= dropped_low_priority
    BY SMTT(30), <1>0, <1>1, <1>2, <2>1, StoreKeeps DEF IInv, TypeOK, NetInv
  <2>3. Grows
    <3>1. /\ next_event_counter \in Nat /\ dropped_low_priority \in Nat
          /\ dropped_low_priority' \in Nat
      BY SMTT(30), <2>2 DEF IInv, TablesInv, QueueTypeOK
    <3>2. receipts' = receipts
      BY SMTT(30), <1>0
    <3> QED BY SMTT(30), <2>1, <2>2, <3>1, <3>2 DEF Grows
  <2>4. m = [event |-> m.event, seq |-> m.seq, env |-> m.env]
    BY SMTT(30), <1>1 DEF Message
  <2> QED BY SMTT(30), <1>0, <1>1, <1>2, <2>2, <2>3, <2>4, PostStep DEF IInv, TypeOK
<1>3. CASE /\ store_attemptThrows(m.event, m.env)
           /\ Goto(p, "retry") /\ UNCHANGED <<exchange, sent>>
  <2>1. /\ UNCHANGED queueVars /\ pc' \in [Processes -> Steps] /\ pc'[p] = "retry"
        /\ \A q \in Processes \ {p} : pc'[q] = pc[q]
    BY ZenonT(30), <1>3 DEF store_attemptThrows, Goto, Steps, IInv, TypeOK
  <2>2. exchange[p] = Idle /\ gap[p] <= dropped_low_priority
    BY SMTT(30), <1>0, NotWaiting, GapType
  <2> QED BY SMTT(30), <1>0, <1>1, <1>3, <2>1, <2>2, LocalStep DEF IInv, TypeOK
<1> QED BY SMTT(30), <1>2, <1>3 DEF StoreAttempt

-----------------------------------------------------------------------------
(* The answers, the faults and the invariant *)

\* A process that stops waiting leaves its request to the network.
LEMMA AbandonStep ==
  ASSUME IInv, NEW p \in Processes, Abandon(p), Fault,
         UNCHANGED <<queueVars, receipts, lastSequence, sent>>,
         pc' \in [Processes -> Steps], message' \in [Processes -> Message \cup {NoMessage}],
         attempted' \in [Processes -> 0..MaximumMessages], gap' \in [Processes -> Nat],
         \A q \in Processes \ {p} :
           pc'[q] = pc[q] /\ message'[q] = message[q] /\ gap'[q] = gap[q],
         gap'[p] <= dropped_low_priority,
         pc'[p] \in {"sequence", "store", "await", "retry"} =>
           message'[p] \in Message /\ message'[p].event < next_event_counter
  PROVE  IInv'
<1>1. TablesInv' /\ Grows
  BY SMTT(30), TablesStutter, TablesFacts DEF IInv, Grows, queueVars
<1>2. /\ exchange' \in [Processes -> Exchange \cup {Idle}] /\ exchange'[p] = Idle
      /\ \A q \in Processes \ {p} : exchange'[q] = exchange[q]
  BY Zenon DEF Abandon, IInv, TypeOK
<1>3. orphans' \subseteq Request /\ \A r \in orphans' : r.event \in sent
  <2>1. CASE exchange[p].status = "request"
    <3>1. exchange[p] \in Exchange /\ exchange[p].event \in sent
      BY SMTT(30), <2>1 DEF IInv, ProcInv, ProcOK, Idle
    <3>2. [event |-> exchange[p].event, seq |-> exchange[p].seq] \in Request
      BY SMTT(30), <3>1 DEF Exchange, Request
    <3> QED BY SMTT(30), <2>1, <3>1, <3>2 DEF Abandon, IInv, TypeOK, NetInv
  <2>2. CASE exchange[p].status # "request"
    BY SMTT(30), <2>2 DEF Abandon, IInv, TypeOK, NetInv
  <2> QED BY SMTT(30), <2>1, <2>2
<1>4. TypeOK'
  BY SMTT(30), <1>1, <1>2, <1>3, DispatcherAssumption DEF IInv, TypeOK, TablesInv, Fault
<1>5. NetInv'
  BY SMTT(30), <1>3 DEF IInv, NetInv
<1>6. ProcOK(p)'
  BY SMTT(30), <1>2 DEF ProcOK, queueVars, Idle
<1> QED BY SMTT(30), <1>1, <1>2, <1>4, <1>5, <1>6, ProcessStep

\* A failed exchange, with its mark_retry, keeps the invariant.
LEMMA ConnectionFailsInv ==
  ASSUME IInv, NEW p \in Processes, ConnectionFails(p)
  PROVE  IInv'
<1>1. /\ Abandon(p) /\ Fault
      /\ UNCHANGED <<queueVars, message, attempted, gap, receipts, lastSequence, sent>>
      /\ pc' \in [Processes -> Steps] /\ pc'[p] = "retry"
      /\ \A q \in Processes \ {p} : pc'[q] = pc[q]
  BY Zenon DEF ConnectionFails, Goto, Steps, IInv, TypeOK, coordVars
<1>2. message[p] \in Message /\ message[p].event < next_event_counter
  BY SMTT(30), InHand DEF ConnectionFails
<1> QED BY SMTT(30), <1>1, <1>2, GapType, AbandonStep DEF IInv, TypeOK

\* A crash of a process keeps the invariant.
LEMMA CrashInv ==
  ASSUME IInv, NEW p \in Processes, Crash(p)
  PROVE  IInv'
<1>1. /\ Abandon(p) /\ Fault
      /\ UNCHANGED <<queueVars, receipts, lastSequence, sent>>
      /\ pc' \in [Processes -> Steps] /\ pc'[p] = "idle"
      /\ message' \in [Processes -> Message \cup {NoMessage}]
      /\ attempted' \in [Processes -> 0..MaximumMessages]
      /\ gap' \in [Processes -> Nat] /\ gap'[p] = 0
      /\ \A q \in Processes \ {p} :
           pc'[q] = pc[q] /\ message'[q] = message[q] /\ gap'[q] = gap[q]
  BY SMTT(30), DispatcherAssumption DEF Crash, Goto, Steps, IInv, TypeOK, coordVars
<1>2. 0 <= dropped_low_priority
  BY SMTT(30), TablesFacts DEF IInv
<1> QED BY SMTT(30), <1>1, <1>2, AbandonStep

\* The end of an exchange: the process updates a row and forgets the exchange.
LEMMA SettleStep ==
  ASSUME IInv, NEW p \in Processes, TablesInv',
         UNCHANGED <<next_event_counter, dropped_low_priority>>,
         exchange' = [exchange EXCEPT ![p] = Idle],
         UNCHANGED <<gap, orphans, receipts, lastSequence, sent, submissions, faults, heartbeats>>,
         pc' \in [Processes -> Steps], pc'[p] \in {"idle", "next_ready"},
         message' \in [Processes -> Message \cup {NoMessage}],
         attempted' \in [Processes -> 0..MaximumMessages],
         \A q \in Processes \ {p} : pc'[q] = pc[q] /\ message'[q] = message[q]
  PROVE  IInv'
<1>1. Grows
  BY SMTT(30), TablesFacts DEF IInv, Grows
<1>2. /\ exchange' \in [Processes -> Exchange \cup {Idle}] /\ exchange'[p] = Idle
      /\ \A q \in Processes \ {p} : exchange'[q] = exchange[q]
  BY SMTT(30) DEF IInv, TypeOK
<1>3. TypeOK'
  BY SMTT(30), <1>2 DEF IInv, TypeOK, TablesInv
<1>4. NetInv'
  BY SMTT(30) DEF IInv, NetInv
<1>5. ProcOK(p)'
  BY SMTT(30), <1>2, GapType DEF ProcOK, Idle
<1> QED BY SMTT(30), <1>1, <1>2, <1>3, <1>4, <1>5, ProcessStep

\* A validated ACK, with its mark_acknowledged, keeps the invariant.
LEMMA AcknowledgeInv ==
  ASSUME IInv, NEW p \in Processes, Acknowledge(p)
  PROVE  IInv'
<1>1. message[p].event \in Events /\ message[p].event \in receipts
  <2>1. exchange[p] # Idle /\ exchange[p].status = "ack" /\ pc[p] = "await"
    BY SMTT(30) DEF Acknowledge, Idle
  <2> QED BY SMTT(30), <2>1, InHand DEF IInv, ProcInv, ProcOK
<1>2. /\ UNCHANGED <<message, attempted, gap, orphans, receipts, lastSequence, sent,
                     submissions, faults, heartbeats>>
      /\ exchange' = [exchange EXCEPT ![p] = Idle]
      /\ pc' \in [Processes -> Steps] /\ pc'[p] = "next_ready"
      /\ \A q \in Processes \ {p} : pc'[q] = pc[q]
  BY SMTT(30) DEF Acknowledge, Goto, Steps, IInv, TypeOK, coordVars, boundVars
<1>3. TablesInv' /\ UNCHANGED <<next_event_counter, dropped_low_priority>>
  BY SMTT(30), <1>1, <1>2, AckKeeps DEF Acknowledge, IInv, TypeOK
<1> QED BY Zenon, <1>2, <1>3, SettleStep DEF IInv, TypeOK

\* mark_retry and mark_dead_letter after an answer keep the invariant.
LEMMA RetryInv ==
  ASSUME IInv, NEW p \in Processes, DeadLetter(p) \/ Retry(p)
  PROVE  IInv'
<1>1. message[p].event \in Events
  BY SMTT(30), InHand DEF DeadLetter, Retry
<1>2. /\ UNCHANGED <<gap, orphans, receipts, lastSequence, sent, submissions, faults, heartbeats>>
      /\ exchange' = [exchange EXCEPT ![p] = Idle]
      /\ mark_dead_letter(message[p].event) \/ mark_retry(message[p].event)
      /\ EndDrain(p)
  BY SMTT(30) DEF DeadLetter, Retry, EndDrain, coordVars, boundVars
<1>3. /\ pc' \in [Processes -> Steps] /\ pc'[p] = "idle"
      /\ message' \in [Processes -> Message \cup {NoMessage}]
      /\ attempted' \in [Processes -> 0..MaximumMessages]
      /\ \A q \in Processes \ {p} : pc'[q] = pc[q] /\ message'[q] = message[q]
  BY SMTT(30), <1>2, DispatcherAssumption DEF EndDrain, Goto, Steps, IInv, TypeOK
<1>4. TablesInv' /\ UNCHANGED <<next_event_counter, dropped_low_priority>>
  BY SMTT(30), <1>1, <1>2, RetryKeeps DEF IInv, TypeOK
<1> QED BY Zenon, <1>2, <1>3, <1>4, SettleStep

\* The coordinator commits only what was sent.
LEMMA HandleKeeps ==
  ASSUME IInv, NEW e \in sent, NEW seq \in Nat, NEW status, Handle(e, seq, status),
         UNCHANGED <<queueVars, sent>>
  PROVE  /\ TablesInv' /\ Grows /\ receipts' \subseteq sent /\ lastSequence' \in Nat
         /\ status = "ack" => e \in receipts'
<1>1. receipts \subseteq receipts' /\ receipts' \subseteq sent /\ lastSequence' \in Nat
  BY Zenon DEF Handle, coordVars, IInv, NetInv, TypeOK
<1>2. status = "ack" => e \in receipts'
  BY SMTT(30) DEF Handle, coordVars
<1>3. TablesInv' /\ Grows
  BY SMTT(30), <1>1, TablesStutter, TablesFacts DEF IInv, Grows, queueVars
<1> QED BY SMTT(30), <1>1, <1>2, <1>3

\* The coordinator's answer to a waiting dispatcher keeps the invariant.
LEMMA AnswerInv ==
  ASSUME IInv, NEW p \in Processes, CoordinatorAnswers(p) \/ CoordinatorFails(p)
  PROVE  IInv'
<1> DEFINE x == exchange[p]
<1>0. /\ x \in Exchange /\ x.event \in sent /\ x.event \in Events /\ x.seq \in Nat
      /\ pc[p] = "await" /\ x.event = message[p].event
  <2>1. x # Idle
    BY SMTT(30) DEF CoordinatorAnswers, CoordinatorFails, Idle
  <2> QED BY SMTT(30), <2>1 DEF IInv, ProcInv, ProcOK, Exchange
<1>1. /\ UNCHANGED <<queueVars, pc, message, attempted, gap, orphans, sent, submissions,
                     heartbeats>>
      /\ faults' \in 0..MaxFaults
  BY SMTT(30), DispatcherAssumption DEF CoordinatorAnswers, CoordinatorFails, procVars, boundVars, Fault,
                              IInv, TypeOK
<1>2. PICK status \in {"ack", "permanent", "transient"} :
        /\ exchange' = [exchange EXCEPT ![p].status = status]
        /\ TablesInv' /\ Grows /\ receipts' \subseteq sent /\ lastSequence' \in Nat
        /\ status = "ack" => x.event \in receipts'
  <2>1. CASE CoordinatorAnswers(p)
    BY Zenon, <2>1, <1>0, <1>1, HandleKeeps DEF CoordinatorAnswers
  <2>2. CASE CoordinatorFails(p)
    <3>1. UNCHANGED <<receipts, lastSequence>> /\ exchange' = [exchange EXCEPT ![p].status = "transient"]
      BY SMTT(30), <2>2 DEF CoordinatorFails, coordVars
    <3>2. TablesInv' /\ Grows
      BY SMTT(30), <1>1, <3>1, TablesStutter, TablesFacts DEF IInv, Grows, queueVars
    <3> QED BY SMTT(30), <3>1, <3>2 DEF IInv, NetInv, TypeOK
  <2> QED BY SMTT(30), <2>1, <2>2
<1>3. /\ exchange'[p] = [x EXCEPT !.status = status]
      /\ \A q \in Processes \ {p} : exchange'[q] = exchange[q]
      /\ exchange' = [exchange EXCEPT ![p] = [x EXCEPT !.status = status]]
  BY SMTT(30), <1>2 DEF IInv, TypeOK
<1>4. /\ exchange'[p] \in Exchange /\ exchange'[p].event = x.event
      /\ exchange'[p].status = status /\ exchange'[p] # Idle
  BY SMTT(30), <1>0, <1>3 DEF Exchange, Idle
<1>5. exchange' \in [Processes -> Exchange \cup {Idle}]
  BY SMTT(30), <1>3, <1>4 DEF IInv, TypeOK
<1>6. TypeOK'
  BY SMTT(30), <1>1, <1>2, <1>5 DEF IInv, TypeOK, TablesInv
<1>7. NetInv'
  BY SMTT(30), <1>1, <1>2 DEF IInv, NetInv
<1>8. ProcOK(p)'
  <2>1. /\ message[p] \in Message /\ message[p].event < next_event_counter
        /\ gap[p] <= dropped_low_priority
    BY SMTT(30), <1>0, InHand, GapType
  <2> QED BY SMTT(30), <1>0, <1>1, <1>2, <1>4, <2>1 DEF ProcOK, queueVars
<1> QED BY SMTT(30), <1>1, <1>2, <1>3, <1>6, <1>7, <1>8, ProcessStep

\* The coordinator handling a request nobody waits for keeps the invariant.
LEMMA OrphanInv ==
  ASSUME IInv, CoordinatorHandlesOrphan
  PROVE  IInv'
<1>1. PICK r \in orphans :
        /\ \E status \in {"ack", "permanent", "transient"} : Handle(r.event, r.seq, status)
        /\ orphans' = orphans \ {r}
  BY SMTT(30) DEF CoordinatorHandlesOrphan
<1>2. UNCHANGED <<queueVars, pc, message, attempted, gap, exchange, sent, submissions, faults,
                  heartbeats>>
  BY SMTT(30) DEF CoordinatorHandlesOrphan, procVars, boundVars
<1>3. r.event \in sent /\ r.seq \in Nat
  BY SMTT(30) DEF IInv, NetInv, TypeOK, Request
<1>4. TablesInv' /\ Grows /\ receipts' \subseteq sent /\ lastSequence' \in Nat
  BY SMTT(30), <1>1, <1>2, <1>3, HandleKeeps
<1>5. TypeOK' /\ NetInv'
  BY SMTT(30), <1>1, <1>2, <1>4 DEF IInv, TypeOK, TablesInv, NetInv
<1>6. Service \in Processes /\ ProcOK(Service)'
  BY SMTT(30), <1>2, <1>4, DispatcherAssumption, SameProc
<1> QED BY SMTT(30), <1>2, <1>4, <1>5, <1>6, ProcessStep

\* A heartbeat, which takes a sequence of its own, keeps the invariant.
LEMMA OtherMessageInv ==
  ASSUME IInv, OtherMessage
  PROVE  IInv'
<1>1. /\ UNCHANGED <<queueVars, pc, message, attempted, gap, exchange, orphans, receipts, sent,
                     submissions, faults>>
      /\ lastSequence' \in Nat /\ heartbeats' \in 0..MaxHeartbeats
  BY SMTT(30), DispatcherAssumption DEF OtherMessage, procVars, netVars, IInv, TypeOK
<1>2. TablesInv' /\ Grows
  BY SMTT(30), <1>1, TablesStutter, TablesFacts DEF IInv, Grows, queueVars
<1>3. TypeOK' /\ NetInv'
  BY SMTT(30), <1>1, <1>2 DEF IInv, TypeOK, TablesInv, NetInv
<1>4. Service \in Processes /\ ProcOK(Service)'
  BY SMTT(30), <1>1, <1>2, DispatcherAssumption, SameProc
<1> QED BY SMTT(30), <1>1, <1>2, <1>3, <1>4, ProcessStep

\* The passage of time changes the two timing columns only.
LEMMA TimeFields ==
  ASSUME NEW row \in Row
  PROVE  /\ LET new == [row EXCEPT !.due = TRUE]
            IN  new \in Row /\ SameKey(new, row) /\ new.state = row.state
         /\ LET new == [row EXCEPT !.fresh = FALSE]
            IN  new \in Row /\ SameKey(new, row) /\ new.state = row.state
BY Zenon DEF Row, SameKey

\* The end of a retry delay or of an attempt keeps the invariant.
LEMMA TimeInv ==
  ASSUME IInv, NEW e \in Events, RetryDelayEnds(e) \/ AttemptExpires(e)
  PROVE  IInv'
<1>0. rows[e] \in Row /\ rows[e].state \in {"PENDING", "IN_FLIGHT"}
  BY SMTT(30), TablesFacts DEF IInv, RetryDelayEnds, AttemptExpires
<1>1. PICK row \in Row : TimePasses(e, row) /\ SameKey(row, rows[e]) /\ row.state = rows[e].state
  <2>1. CASE RetryDelayEnds(e)
    BY Zenon, <2>1, <1>0, TimeFields DEF RetryDelayEnds
  <2>2. CASE AttemptExpires(e)
    BY Zenon, <2>2, <1>0, TimeFields DEF AttemptExpires
  <2> QED BY SMTT(30), <2>1, <2>2
<1>2. /\ rows' = [rows EXCEPT ![e] = row]
      /\ UNCHANGED <<next_event_counter, dropped_low_priority, evicted,
                     reported_dropped_low_priority, pc, message, attempted, gap, exchange,
                     orphans, receipts, lastSequence, sent, submissions, faults, heartbeats>>
  BY SMTT(30), <1>1 DEF TimePasses, procVars, netVars, coordVars, boundVars
<1>3. /\ rows' \in [Events -> Row] /\ RowInv' /\ DropsAreCounted'
      /\ \A f \in receipts : rows'[f].producer = rows[f].producer /\ rows'[f].gap = rows[f].gap
  BY Zenon, <1>0, <1>1, <1>2, UpdateKeeps DEF IInv, TypeOK
<1>4. GapReportsAreTrue'
  BY SMTT(30), <1>2, <1>3, TablesFacts, GapKeeps DEF IInv, QueueTypeOK
<1>5. TablesInv' /\ Grows
  BY SMTT(30), <1>2, <1>3, <1>4, TablesFacts DEF IInv, TablesInv, QueueTypeOK, Grows
<1>6. TypeOK' /\ NetInv'
  BY SMTT(30), <1>2, <1>5 DEF IInv, TypeOK, TablesInv, NetInv
<1>7. Service \in Processes /\ ProcOK(Service)'
  BY SMTT(30), <1>2, <1>5, DispatcherAssumption, SameProc
<1> QED BY ZenonT(30), <1>2, <1>5, <1>6, <1>7, ProcessStep

-----------------------------------------------------------------------------
(* Theorems *)

\* The empty tables satisfy the invariant.
LEMMA InitInv == Init => IInv
<1> SUFFICES ASSUME Init PROVE IInv
  BY Zenon
<1>1. BlankRow(GapMarker, 0) \in Row
  BY SMTT(30) DEF BlankRow, Row
<1>2. QueueTypeOK
  BY SMTT(30), <1>1, QueueAssumption DEF Init, QueueInit, QueueTypeOK
<1>3. TypeOK
  BY SMTT(30), <1>2, DispatcherAssumption DEF Init, TypeOK, Steps
<1>4. RowInv
  <2> SUFFICES ASSUME NEW e \in Events PROVE RowOK(e)
    BY SMTT(30) DEF RowInv
  <2>1. e \in Nat /\ e >= 1 /\ rows[e] = BlankRow(GapMarker, 0)
    BY SMTT(30), QueueAssumption DEF Init, QueueInit, Events
  <2> QED BY SMTT(30), <2>1, BlankFields DEF Init, QueueInit, RowOK
<1>5. DropsAreCounted /\ GapReportsAreTrue
  BY SMTT(30), FS_EmptySet DEF Init, QueueInit, DropsAreCounted, GapReportsAreTrue
<1>6. ProcInv /\ NetInv
  BY SMTT(30) DEF Init, QueueInit, ProcInv, ProcOK, NetInv, Idle
<1> QED BY SMTT(30), <1>2, <1>3, <1>4, <1>5, <1>6 DEF IInv, TablesInv

\* Every step keeps the invariant: one case per action.
LEMMA NextInv == IInv /\ [Next]_vars => IInv'
<1> SUFFICES ASSUME IInv, [Next]_vars PROVE IInv'
  BY Zenon
<1>1. ASSUME NEW p \in Processes, NEW k \in Producers, SubmitFinding(p, k) PROVE IInv'
  BY SMTT(30), <1>1, SubmitInv
<1>2. ASSUME NEW p \in Processes, Step(p) PROVE IInv'
  BY SMTT(30), <1>2, PruneInv, GapReadInv, GapEnqueueInv, NextReadyInv, AllocateInv, StoreInv,
     AcknowledgeInv, RetryInv DEF Step
<1>3. ASSUME NEW p \in Processes,
             AllocateSequenceThrows(p) \/ ConnectionFails(p) \/ Crash(p)
      PROVE  IInv'
  BY SMTT(30), <1>3, AllocateInv, ConnectionFailsInv, CrashInv
<1>4. ASSUME NEW p \in Processes, CoordinatorAnswers(p) \/ CoordinatorFails(p) PROVE IInv'
  BY SMTT(30), <1>4, AnswerInv
<1>5. CASE PeriodicDrain \/ CoordinatorHandlesOrphan \/ OtherMessage
  BY SMTT(30), <1>5, PeriodicInv, OrphanInv, OtherMessageInv
<1>6. ASSUME NEW e \in Events, RetryDelayEnds(e) \/ AttemptExpires(e) PROVE IInv'
  BY SMTT(30), <1>6, TimeInv
<1>7. CASE UNCHANGED vars
  <2>1. UNCHANGED <<queueVars, pc, message, attempted, gap, exchange, orphans, receipts,
                    lastSequence, sent, submissions, faults, heartbeats>>
    BY SMTT(30), <1>7 DEF vars, procVars, netVars, coordVars, boundVars
  <2>2. TablesInv' /\ Grows
    BY SMTT(30), <2>1, TablesStutter, TablesFacts DEF IInv, Grows, queueVars
  <2>3. TypeOK' /\ NetInv'
    BY SMTT(30), <2>1, <2>2 DEF IInv, TypeOK, TablesInv, NetInv
  <2>4. Service \in Processes /\ ProcOK(Service)'
    BY SMTT(30), <2>1, <2>2, DispatcherAssumption, SameProc
  <2> QED BY SMTT(30), <2>1, <2>2, <2>3, <2>4, ProcessStep
<1> QED BY SMTT(30), <1>1, <1>2, <1>3, <1>4, <1>5, <1>6, <1>7 DEF Next

\* The inductive invariant behind every result below holds in every reachable
\* state of the dispatchers, whatever their number and whatever the bounds.
THEOREM Invariance == Spec => []IInv
BY InitInv, NextInv, PTL DEF Spec

\* The variables of every process, of the tables, of the network and of the
\* coordinator keep their types, for any number of processes and events.
THEOREM TypeCorrect == Spec => []TypeOK
<1>1. IInv => TypeOK
  BY Zenon DEF IInv
<1> QED BY <1>1, Invariance, PTL

\* No accepted event is lost silently, whatever dispatchers, crashes and lost
\* answers do (NoSilentLoss).
THEOREM NoLoss == Spec => []NoSilentLoss
<1>1. IInv => NoSilentLoss
  <2> SUFFICES ASSUME IInv, NEW e \in Events, e < next_event_counter
               PROVE  \/ e \in receipts
                      \/ rows[e].state \in {"PENDING", "IN_FLIGHT", "DEAD_LETTER"}
                      \/ e \in evicted \ sent /\ PriorityOf(rows[e].producer) <= 1
    BY SMTT(30) DEF NoSilentLoss
  <2>1. RowOK(e) /\ rows[e].state \in States \cup {"ABSENT"}
    BY SMTT(30), TablesFacts DEF IInv, RowInv, Row
  <2> QED BY SMTT(30), <2>1 DEF RowOK, States
<1> QED BY <1>1, Invariance, PTL

\* The durable counter of drops counts every evicted event once, and what the
\* agent believes it has reported has reached the coordinator.
THEOREM DropAccounting == Spec => [](DropsAreCounted /\ GapReportsAreTrue)
<1>1. IInv => DropsAreCounted /\ GapReportsAreTrue
  BY Zenon DEF IInv, TablesInv
<1> QED BY <1>1, Invariance, PTL

-----------------------------------------------------------------------------
(* One dispatcher *)

\* What a deleted row, or one not yet inserted, does not have: a stored attempt.
AbsentHasNoAttempt == \A e \in Events : rows[e].state = "ABSENT" => rows[e].env = 0

\* What the row in hand still is when its dispatcher comes to write it.
RowInHand(p) ==
  /\ pc[p] \in {"sequence", "store", "await", "retry"} => rows[message[p].event].state # "ACKED"
  /\ pc[p] \in {"sequence", "store"} => ~Reusable(message[p].event)

OneInv(p) == IInv /\ AbsentHasNoAttempt /\ RowInHand(p)

\* What RowsStand says of one step.
Stands ==
  \A e \in Events :
    /\ KeepsAttempt(e)
    /\ rows[e].state = "ACKED" => rows'[e].state \in {"ACKED", "ABSENT"}

\* A step that writes no row.
LEMMA NoRowWritten ==
  ASSUME AbsentHasNoAttempt, rows' = rows
  PROVE  Stands /\ AbsentHasNoAttempt'
BY SMTT(30) DEF AbsentHasNoAttempt, Stands, KeepsAttempt

\* A step that only deletes rows.
LEMMA RowsDeleted ==
  ASSUME AbsentHasNoAttempt, rows \in [Events -> Row], NEW gone, rows' = Delete(rows, gone)
  PROVE  Stands /\ AbsentHasNoAttempt'
<1>1. \A e \in Events : \/ rows'[e] = rows[e]
                        \/ rows'[e].state = "ABSENT" /\ rows'[e].env = 0
  BY SMTT(30), BlankFields DEF Delete
<1> QED BY SMTT(30), <1>1 DEF AbsentHasNoAttempt, Stands, KeepsAttempt

\* A step that deletes rows and writes one.
LEMMA OneRowWritten ==
  ASSUME AbsentHasNoAttempt, rows \in [Events -> Row], NEW gone, NEW e \in Events, NEW row,
         rows' = [Delete(rows, gone) EXCEPT ![e] = row],
         row.state # "ABSENT", rows[e].state = "ACKED" => row.state = "ACKED",
         Reusable(e) => row.seq = rows[e].seq /\ row.env = rows[e].env
  PROVE  Stands /\ AbsentHasNoAttempt'
<1>1. rows'[e] = row
  BY SMTT(30) DEF Delete
<1>2. \A f \in Events \ {e} : \/ rows'[f] = rows[f]
                              \/ rows'[f].state = "ABSENT" /\ rows'[f].env = 0
  BY SMTT(30), BlankFields DEF Delete
<1>3. \A f \in Events \ {e} :
        /\ KeepsAttempt(f)
        /\ rows[f].state = "ACKED" => rows'[f].state \in {"ACKED", "ABSENT"}
        /\ rows'[f].state = "ABSENT" => rows'[f].env = 0
  BY SMTT(30), <1>2 DEF AbsentHasNoAttempt, KeepsAttempt
<1>4. /\ KeepsAttempt(e)
      /\ rows[e].state = "ACKED" => rows'[e].state \in {"ACKED", "ABSENT"}
      /\ rows'[e].state = "ABSENT" => rows'[e].env = 0
  BY SMTT(30), <1>1 DEF KeepsAttempt, Reusable
<1> QED BY SMTT(30), <1>3, <1>4 DEF AbsentHasNoAttempt, Stands

\* A step that writes one row and deletes none.
LEMMA RowUpdated ==
  ASSUME AbsentHasNoAttempt, rows \in [Events -> Row], NEW e \in Events, NEW row,
         rows' = [rows EXCEPT ![e] = row],
         row.state # "ABSENT", rows[e].state = "ACKED" => row.state = "ACKED",
         Reusable(e) => row.seq = rows[e].seq /\ row.env = rows[e].env
  PROVE  Stands /\ AbsentHasNoAttempt'
<1>1. Delete(rows, {}) = rows
  BY Zenon DEF Delete
<1> QED BY Zenon, <1>1, OneRowWritten

\* enqueue writes a new row, if any.
LEMMA EnqueueStands ==
  ASSUME IInv, AbsentHasNoAttempt, NEW k, NEW g, enqueue(k, g) \/ enqueueThrows(k, g)
  PROVE  Stands /\ AbsentHasNoAttempt'
<1>1. CASE UNCHANGED queueVars
  BY SMTT(30), <1>1, NoRowWritten DEF queueVars
<1>2. CASE insert_event(k, g)
  <2>1. QueueTypeOK /\ rows \in [Events -> Row]
    BY Zenon DEF IInv, TypeOK, QueueTypeOK
  <2>2. PICK gone : /\ next_event_counter \in Events
                    /\ rows' = [Delete(rows, gone) EXCEPT ![next_event_counter] = NewRow(k, g)]
    BY Zenon, <1>2, <2>1, InsertEffect
  <2>3. rows[next_event_counter].state = "ABSENT" /\ next_event_counter \in Nat
    BY SMTT(30), <2>2, TablesFacts DEF IInv, RowInv, RowOK
  <2>4. ~Reusable(next_event_counter)
    BY SMTT(30), <2>2, <2>3 DEF AbsentHasNoAttempt, Reusable
  <2>5. NewRow(k, g).state = "PENDING"
    BY Zenon DEF NewRow, BlankRow
  <2> QED BY Zenon, <2>1, <2>2, <2>3, <2>4, <2>5, OneRowWritten
<1> QED BY SMTT(30), <1>1, <1>2 DEF enqueue, enqueueThrows

\* Selecting a row, reusing its attempt or setting out to replace it.
LEMMA NextReadyHolds ==
  ASSUME NEW p \in Processes, OneInv(p), NextReady(p)
  PROVE  RowInHand(p)'
<1>1. rows' = rows /\ pc \in [Processes -> Steps]
      /\ message \in [Processes -> Message \cup {NoMessage}]
  BY SMTT(30) DEF NextReady, queueVars, OneInv, IInv, TypeOK
<1>2. CASE EndDrain(p)
  BY SMTT(30), <1>1, <1>2 DEF EndDrain, Goto, RowInHand
<1>3. CASE \E e \in next_ready :
             /\ message' = [message EXCEPT ![p] =
                  [event |-> e, seq |-> rows[e].seq, env |-> rows[e].env]]
             /\ IF Reusable(e)
                THEN Post(p, e, rows[e].seq)
                ELSE Goto(p, "sequence") /\ UNCHANGED <<exchange, sent>>
  <2>1. PICK e \in next_ready :
          /\ message' = [message EXCEPT ![p] =
               [event |-> e, seq |-> rows[e].seq, env |-> rows[e].env]]
          /\ IF Reusable(e)
             THEN Post(p, e, rows[e].seq)
             ELSE Goto(p, "sequence") /\ UNCHANGED <<exchange, sent>>
    BY Zenon, <1>3
  <2>2. message'[p].event = e /\ rows[e].state # "ACKED"
    BY SMTT(30), <1>1, <2>1 DEF next_ready, Ready
  <2>3. pc'[p] = IF Reusable(e) THEN "await" ELSE "sequence"
    BY SMTT(30), <1>1, <2>1 DEF Post, Goto
  <2> QED BY SMTT(30), <1>1, <2>2, <2>3 DEF RowInHand, Reusable
<1> QED BY Zenon, <1>2, <1>3 DEF NextReady

\* store_attempt replaces an attempt that was not to be reused, of a row that is
\* not acknowledged.
LEMMA StoreStands ==
  ASSUME NEW p \in Processes, OneInv(p), StoreAttempt(p)
  PROVE  Stands /\ AbsentHasNoAttempt' /\ RowInHand(p)'
<1> DEFINE e == message[p].event
<1>1. /\ e \in Events /\ message[p].seq \in Nat /\ message[p].env \in Nat
      /\ rows[e].state # "ACKED" /\ ~Reusable(e) /\ message' = message
      /\ QueueTypeOK /\ rows \in [Events -> Row] /\ rows[e] \in Row /\ pc \in [Processes -> Steps]
      /\ AbsentHasNoAttempt
  BY SMTT(30), InHand, TablesFacts
     DEF StoreAttempt, OneInv, RowInHand, IInv, TypeOK, QueueTypeOK
<1>2. CASE /\ store_attempt(e, message[p].seq, message[p].env)
           /\ Post(p, e, message[p].seq)
  <2> DEFINE row == AttemptRow(e, message[p].seq, message[p].env)
  <2>1. PICK gone : rows' = [Delete(rows, gone) EXCEPT ![e] = row]
    BY Zenon, <1>1, <1>2, StoreEffect
  <2>2. row.state = "IN_FLIGHT"
    BY Zenon, <1>1 DEF AttemptRow, Row
  <2>3. Stands /\ AbsentHasNoAttempt'
    <3> HIDE DEF row, e
    <3> QED BY Zenon, <1>1, <2>1, <2>2, OneRowWritten
  <2>4. rows'[e] = row /\ pc'[p] = "await"
    <3> HIDE DEF row
    <3> QED BY SMTT(30), <1>1, <1>2, <2>1 DEF Delete, Post, Goto
  <2> QED BY SMTT(30), <1>1, <2>2, <2>3, <2>4 DEF RowInHand
<1>3. CASE UNCHANGED queueVars /\ Goto(p, "retry")
  BY SMTT(30), <1>1, <1>3, NoRowWritten DEF queueVars, Goto, RowInHand
<1> QED BY Zenon, <1>2, <1>3 DEF StoreAttempt, store_attemptThrows

\* The statement an answer leads to, or the failure of an attempt.
LEMMA AnswerStands ==
  ASSUME NEW p \in Processes, OneInv(p), Acknowledge(p) \/ DeadLetter(p) \/ Retry(p)
  PROVE  Stands /\ AbsentHasNoAttempt' /\ RowInHand(p)'
<1> DEFINE e == message[p].event
<1>1. /\ e \in Events /\ rows[e].state # "ACKED" /\ AbsentHasNoAttempt
      /\ rows \in [Events -> Row] /\ rows[e] \in Row /\ pc \in [Processes -> Steps]
  BY SMTT(30), InHand, TablesFacts
     DEF Acknowledge, DeadLetter, Retry, OneInv, RowInHand, IInv, TypeOK, QueueTypeOK
<1>2. PICK row \in Row : UpdateRow(e, row) /\ SameKey(row, rows[e]) /\ row.state # "ABSENT"
  <2>1. CASE Acknowledge(p)
    BY Zenon, <2>1, <1>1, StateFields DEF Acknowledge, mark_acknowledged, States
  <2>2. CASE DeadLetter(p)
    BY Zenon, <2>2, <1>1, StateFields DEF DeadLetter, mark_dead_letter, States
  <2>3. CASE Retry(p)
    BY Zenon, <2>3, <1>1, RetryFields DEF Retry, mark_retry
  <2> QED BY SMTT(30), <2>1, <2>2, <2>3
<1>3. Stands /\ AbsentHasNoAttempt'
  <2> HIDE DEF e
  <2>1. CASE rows' = rows
    BY SMTT(30), <1>1, <2>1, NoRowWritten
  <2>2. CASE rows' = [rows EXCEPT ![e] = row]
    BY Zenon, <1>1, <1>2, <2>2, RowUpdated DEF SameKey
  <2> QED BY Zenon, <1>2, <2>1, <2>2 DEF UpdateRow
<1>4. pc'[p] \in {"next_ready", "idle"}
  BY SMTT(30), <1>1 DEF Acknowledge, DeadLetter, Retry, EndDrain, Goto
<1> QED BY SMTT(30), <1>3, <1>4 DEF RowInHand

\* Time changes neither a row's state nor its attempt.
LEMMA TimeStands ==
  ASSUME NEW p \in Processes, OneInv(p), NEW e \in Events, RetryDelayEnds(e) \/ AttemptExpires(e)
  PROVE  Stands /\ AbsentHasNoAttempt' /\ RowInHand(p)'
<1>1. /\ rows \in [Events -> Row] /\ rows[e] \in Row /\ AbsentHasNoAttempt
      /\ rows[e].state \in {"PENDING", "IN_FLIGHT"}
      /\ pc[p] \in {"sequence", "store", "await", "retry"} => message[p].event \in Events
  BY SMTT(30), InHand, TablesFacts
     DEF OneInv, IInv, TypeOK, QueueTypeOK, RetryDelayEnds, AttemptExpires
<1>2. PICK row \in Row : /\ TimePasses(e, row) /\ SameKey(row, rows[e])
                         /\ row.state = rows[e].state /\ (row.fresh => rows[e].fresh)
  <2>1. CASE RetryDelayEnds(e)
    <3>1. [rows[e] EXCEPT !.due = TRUE].fresh = rows[e].fresh
      BY Zenon, <1>1 DEF Row
    <3> QED BY Zenon, <2>1, <3>1, <1>1, TimeFields DEF RetryDelayEnds
  <2>2. CASE AttemptExpires(e)
    <3>1. rows[e].fresh
      BY <2>2, Zenon DEF AttemptExpires
    <3> QED BY Zenon, <2>2, <3>1, <1>1, TimeFields DEF AttemptExpires
  <2> QED BY SMTT(30), <2>1, <2>2
<1>3. rows' = [rows EXCEPT ![e] = row] /\ UNCHANGED <<pc, message>>
  BY SMTT(30), <1>2 DEF TimePasses, procVars
<1>4. Stands /\ AbsentHasNoAttempt'
  BY Zenon, <1>1, <1>2, <1>3, RowUpdated DEF SameKey
<1>5. \A f \in Events : rows'[f].state = rows[f].state /\ (Reusable(f)' => Reusable(f))
  BY SMTT(30), <1>1, <1>2, <1>3 DEF Reusable, SameKey
<1> QED BY SMTT(30), <1>1, <1>3, <1>4, <1>5 DEF RowInHand, OneInv, Reusable

\* A step that writes no row and gives the dispatcher none.
LEMMA QuietStands ==
  ASSUME NEW p \in Processes, OneInv(p), rows' = rows,
         \/ pc'[p] = pc[p] /\ message'[p] = message[p]
         \/ pc'[p] \notin {"sequence", "store", "await", "retry"}
         \/ /\ message'[p].event = message[p].event
            /\ pc[p] = "sequence" /\ pc'[p] \in {"store", "retry"}
         \/ /\ message'[p].event = message[p].event
            /\ pc[p] = "await" /\ pc'[p] = "retry"
  PROVE  Stands /\ AbsentHasNoAttempt' /\ RowInHand(p)'
BY SMTT(30), NoRowWritten DEF OneInv, RowInHand, Reusable

\* Every step of the only dispatcher, of the coordinator and of time.
LEMMA OneStep ==
  ASSUME NEW p, Processes = {p}, OneInv(p), Next
  PROVE  Stands /\ OneInv(p)'
<1>0. /\ p \in Processes /\ IInv /\ AbsentHasNoAttempt /\ IInv' /\ Service = p
      /\ pc \in [Processes -> Steps] /\ message \in [Processes -> Message \cup {NoMessage}]
      /\ rows \in [Events -> Row]
  BY SMTT(30), NextInv, DispatcherAssumption DEF OneInv, IInv, TypeOK, QueueTypeOK
<1>1. ASSUME NEW k \in Producers, SubmitFinding(p, k)
      PROVE  Stands /\ OneInv(p)'
  <2>1. Stands /\ AbsentHasNoAttempt'
    BY Zenon, <1>0, <1>1, EnqueueStands DEF SubmitFinding
  <2>2. pc'[p] \in {"idle", "prune"}
    BY SMTT(30), <1>0, <1>1 DEF SubmitFinding, Goto
  <2> QED BY SMTT(30), <1>0, <2>1, <2>2 DEF RowInHand, OneInv
<1>2. CASE DrainPrune(p)
  <2>1. Stands /\ AbsentHasNoAttempt'
    <3>1. PICK gone : rows' = Delete(rows, gone)
      BY Zenon, <1>2 DEF DrainPrune, prune_acknowledged
    <3> QED BY SMTT(30), <1>0, <3>1, RowsDeleted
  <2>2. pc'[p] = "gap_read"
    BY SMTT(30), <1>0, <1>2 DEF DrainPrune, Goto
  <2> QED BY SMTT(30), <1>0, <2>1, <2>2 DEF RowInHand, OneInv
<1>3. CASE GapEnqueue(p)
  <2>1. Stands /\ AbsentHasNoAttempt'
    BY Zenon, <1>0, <1>3, EnqueueStands DEF GapEnqueue
  <2>2. pc'[p] = "next_ready"
    BY SMTT(30), <1>0, <1>3 DEF GapEnqueue, Goto
  <2> QED BY SMTT(30), <1>0, <2>1, <2>2 DEF RowInHand, OneInv
<1>4. CASE NextReady(p)
  <2>1. rows' = rows
    BY SMTT(30), <1>4 DEF NextReady, queueVars
  <2> QED BY SMTT(30), <1>0, <1>4, <2>1, NextReadyHolds, NoRowWritten DEF OneInv
<1>5. CASE StoreAttempt(p)
  BY SMTT(30), <1>0, <1>5, StoreStands DEF OneInv
<1>6. CASE Acknowledge(p) \/ DeadLetter(p) \/ Retry(p)
  BY SMTT(30), <1>0, <1>6, AnswerStands DEF OneInv
<1>7. CASE GapRead(p) \/ GapPending(p) \/ PeriodicDrain \/ Crash(p)
  <2>1. rows' = rows /\ pc'[p] \in {"gap_pending", "next_ready", "gap_enqueue", "prune", "idle"}
    BY SMTT(30), <1>0, <1>7 DEF GapRead, GapPending, PeriodicDrain, Crash, Goto, queueVars
  <2> QED BY SMTT(30), <1>0, <2>1, QuietStands DEF OneInv
<1>8. CASE AllocateSequence(p) \/ AllocateSequenceThrows(p)
  <2>1. /\ rows' = rows /\ message'[p].event = message[p].event
        /\ pc[p] = "sequence" /\ pc'[p] \in {"store", "retry"}
    <3>1. rows' = rows /\ pc[p] = "sequence" /\ pc'[p] \in {"store", "retry"}
      BY SMTT(30), <1>0, <1>8 DEF AllocateSequence, AllocateSequenceThrows, Goto, queueVars
    <3>2. message[p] \in Message
      BY SMTT(30), <1>0, <3>1, InHand
    <3>3. message'[p].event = message[p].event
      <4>1. CASE message' = message
        BY <4>1, Zenon
      <4>2. CASE \E seq, bytes : message' = [message EXCEPT ![p].seq = seq, ![p].env = bytes]
        BY Zenon, <1>0, <3>2, <4>2 DEF Message
      <4> QED BY Zenon, <1>8, <4>1, <4>2 DEF AllocateSequence, AllocateSequenceThrows
    <3> QED BY <3>1, <3>3, Zenon
  <2> QED BY SMTT(30), <1>0, <2>1, QuietStands DEF OneInv
<1>9. CASE ConnectionFails(p)
  <2>1. rows' = rows /\ message' = message /\ pc[p] = "await" /\ pc'[p] = "retry"
    BY SMTT(30), <1>0, <1>9 DEF ConnectionFails, Goto, queueVars
  <2> QED BY SMTT(30), <1>0, <2>1, QuietStands DEF OneInv
<1>10. CASE \/ CoordinatorAnswers(p) \/ CoordinatorFails(p)
            \/ CoordinatorHandlesOrphan \/ OtherMessage
  <2>1. UNCHANGED <<rows, pc, message>>
    BY SMTT(30), <1>10 DEF CoordinatorAnswers, CoordinatorFails, CoordinatorHandlesOrphan,
                           OtherMessage, queueVars, procVars
  <2> QED BY SMTT(30), <1>0, <2>1, QuietStands DEF OneInv
<1>11. ASSUME NEW e \in Events, RetryDelayEnds(e) \/ AttemptExpires(e)
       PROVE  Stands /\ OneInv(p)'
  BY SMTT(30), <1>0, <1>11, TimeStands DEF OneInv
<1> QED BY Zenon, <1>0, <1>1, <1>2, <1>3, <1>4, <1>5, <1>6, <1>7, <1>8, <1>9, <1>10, <1>11
        DEF Next, Step

\* While one dispatcher works on the queue (the service's, with no command that
\* submits beside it), what a row says stands, although store_attempt, mark_retry
\* and mark_dead_letter do not look at the row's state (RowsStand).
THEOREM RowsHold ==
  ASSUME NEW p, Processes = {p}
  PROVE  Spec => RowsStand
<1>1. Init => OneInv(p)
  <2>1. Init => \A e \in Events : rows[e].state = "ABSENT" /\ rows[e].env = 0
    BY SMTT(30), BlankFields DEF Init, QueueInit
  <2>2. Init => pc[p] = "idle"
    BY Zenon DEF Init
  <2> QED BY SMTT(30), <2>1, <2>2, InitInv DEF OneInv, AbsentHasNoAttempt, RowInHand
<1>2. OneInv(p) /\ [Next]_vars => OneInv(p)'
  <2>1. ASSUME OneInv(p), UNCHANGED vars PROVE OneInv(p)'
    <3>1. IInv'
      BY <2>1, NextInv, Zenon DEF OneInv
    <3> QED BY SMTT(30), <2>1, <3>1
            DEF OneInv, AbsentHasNoAttempt, RowInHand, Reusable, vars, queueVars, procVars
  <2> QED BY <2>1, OneStep, Zenon
<1>3. OneInv(p) /\ [Next]_vars =>
        [\A e \in Events :
           /\ KeepsAttempt(e)
           /\ rows[e].state = "ACKED" => rows'[e].state \in {"ACKED", "ABSENT"}]_vars
  BY OneStep, Zenon DEF Stands
<1> QED BY <1>1, <1>2, <1>3, PTL DEF Spec, RowsStand

-----------------------------------------------------------------------------
(* The refinement *)

\* What a step can do that the submitting side can see: nothing,
Labels ==
  \A e \in Events : e < next_event_counter => rows'[e].producer = rows[e].producer

Quiet ==
  /\ Labels
  /\ UNCHANGED <<next_event_counter, dropped_low_priority, evicted, receipts>>

\* admit an event at the expense of others,
Admits ==
  /\ Labels /\ receipts' = receipts
  /\ next_event_counter \in Events /\ next_event_counter' = next_event_counter + 1
  /\ \E victims \in SUBSET Evictable(rows) : CountDropped(victims)

\* make room for an attempt,
MakesRoom ==
  /\ Labels /\ UNCHANGED <<next_event_counter, receipts>>
  /\ \E victims \in SUBSET Evictable(rows) : CountDropped(victims)

\* or commit an event at the coordinator.
Commits ==
  /\ Labels /\ UNCHANGED <<next_event_counter, dropped_low_priority, evicted>>
  /\ \E e \in sent \ receipts : receipts' = receipts \cup {e}

\* A step that touches none of the tables is invisible.
LEMMA QuietTables ==
  ASSUME UNCHANGED <<queueVars, receipts>>
  PROVE  Quiet
BY SMTT(30) DEF queueVars, Quiet, Labels

\* What enqueue looks like: an admission, or nothing.
LEMMA EnqueueVisible ==
  ASSUME IInv, NEW k, NEW g, enqueue(k, g) \/ enqueueThrows(k, g), receipts' = receipts
  PROVE  Quiet \/ Admits
<1>1. CASE UNCHANGED queueVars
  BY SMTT(30), <1>1, QuietTables
<1>2. CASE insert_event(k, g)
  <2>1. QueueTypeOK
    BY Zenon DEF IInv, TypeOK
  <2>2. next_event_counter \in Events /\ next_event_counter' = next_event_counter + 1
    BY SMTT(30), <1>2, <2>1, InsertEffect
  <2>3. PICK victims \in SUBSET Evictable(rows), batch \in SUBSET Acked(rows) :
          /\ rows' = [Delete(rows, victims \cup batch)
                        EXCEPT ![next_event_counter] = NewRow(k, g)]
          /\ CountDropped(victims)
    BY Zenon, <1>2, <2>1, InsertEffect
  <2>4. ASSUME NEW e \in Events, e < next_event_counter
        PROVE  rows'[e].producer = rows[e].producer
    <3>1. e # next_event_counter
      BY SMTT(30), <2>4, TablesFacts DEF IInv
    <3>2. rows'[e] = Delete(rows, victims \cup batch)[e]
      BY SMTT(30), <2>1, <2>3, <3>1, DeleteType DEF QueueTypeOK
    <3>3. rows'[e] = rows[e] \/ rows'[e] = BlankRow(rows[e].producer, rows[e].gap)
      BY <3>2, Zenon DEF Delete
    <3> QED BY SMTT(30), <3>3, BlankFields
  <2> QED BY Zenon, <2>2, <2>3, <2>4 DEF Admits, Labels
<1> QED BY SMTT(30), <1>1, <1>2 DEF enqueue, enqueueThrows

\* What store_attempt looks like: room is made, or nothing.
LEMMA StoreVisible ==
  ASSUME IInv, NEW e \in Events, NEW seq \in Nat, NEW bytes \in Nat,
         store_attempt(e, seq, bytes), receipts' = receipts
  PROVE  MakesRoom
<1>1. QueueTypeOK
  BY Zenon DEF IInv, TypeOK
<1>2. PICK victims \in SUBSET (Evictable(rows) \ {e}), batch \in SUBSET (Acked(rows) \ {e}) :
        /\ rows' = [Delete(rows, victims \cup batch) EXCEPT ![e] = AttemptRow(e, seq, bytes)]
        /\ CountDropped(victims)
  BY Zenon, <1>1, StoreEffect
<1>3. ASSUME NEW f \in Events PROVE rows'[f].producer = rows[f].producer
  <2>1. CASE f = e
    <3>1. rows[e] \in Row /\ rows'[e] = AttemptRow(e, seq, bytes)
      BY SMTT(30), <1>1, <1>2, DeleteType DEF QueueTypeOK
    <3> QED BY SMTT(30), <2>1, <3>1 DEF AttemptRow, Row
  <2>2. CASE f # e
    <3>1. rows'[f] = Delete(rows, victims \cup batch)[f]
      BY SMTT(30), <1>1, <1>2, <2>2, DeleteType DEF QueueTypeOK
    <3>2. rows'[f] = rows[f] \/ rows'[f] = BlankRow(rows[f].producer, rows[f].gap)
      BY SMTT(30), <3>1 DEF Delete
    <3> QED BY SMTT(30), <3>2, BlankFields
  <2> QED BY SMTT(30), <2>1, <2>2
<1> QED BY Zenon, <1>2, <1>3 DEF MakesRoom, Labels, store_attempt

\* An update of the state of one row is invisible.
LEMMA UpdateVisible ==
  ASSUME IInv, NEW e \in Events, receipts' = receipts,
         mark_retry(e) \/ mark_dead_letter(e) \/ mark_acknowledged(e)
  PROVE  Quiet
<1>1. rows \in [Events -> Row] /\ rows[e] \in Row
  BY SMTT(30) DEF IInv, TypeOK, QueueTypeOK
<1>2. CASE rows' = rows
  BY SMTT(30), <1>2 DEF Quiet, Labels, mark_retry, mark_dead_letter, mark_acknowledged, UpdateRow
<1>3. CASE rows' # rows
  <2>1. PICK row \in Row : rows' = [rows EXCEPT ![e] = row] /\ SameKey(row, rows[e])
    <3>1. CASE mark_retry(e)
      BY Zenon, <1>1, <1>3, <3>1, RetryFields DEF mark_retry, UpdateRow
    <3>2. CASE mark_dead_letter(e)
      BY Zenon, <1>1, <1>3, <3>2, StateFields DEF mark_dead_letter, UpdateRow, States
    <3>3. CASE mark_acknowledged(e)
      BY Zenon, <1>1, <1>3, <3>3, StateFields DEF mark_acknowledged, UpdateRow, States
    <3> QED BY SMTT(30), <3>1, <3>2, <3>3
  <2>2. Labels
    BY SMTT(30), <1>1, <2>1 DEF Labels, SameKey
  <2> QED BY SMTT(30), <2>2 DEF Quiet, mark_retry, mark_dead_letter, mark_acknowledged, UpdateRow
<1> QED BY SMTT(30), <1>2, <1>3

\* Pruning acknowledged rows is invisible.
LEMMA PruneVisible ==
  ASSUME IInv, prune_acknowledged, receipts' = receipts
  PROVE  Quiet
<1>1. PICK old \in SUBSET Acked(rows) : rows' = Delete(rows, old)
  BY SMTT(30) DEF prune_acknowledged, Acked
<1>2. ASSUME NEW e \in Events PROVE rows'[e].producer = rows[e].producer
  <2>1. rows'[e] = rows[e] \/ rows'[e] = BlankRow(rows[e].producer, rows[e].gap)
    BY SMTT(30), <1>1 DEF Delete
  <2> QED BY SMTT(30), <2>1, BlankFields
<1> QED BY SMTT(30), <1>2 DEF Quiet, Labels, prune_acknowledged

\* What the coordinator does with a request: a delivery, or nothing.
LEMMA HandleVisible ==
  ASSUME NEW e \in sent, NEW seq, NEW status, Handle(e, seq, status), UNCHANGED queueVars
  PROVE  Quiet \/ Commits
BY SMTT(30) DEF Handle, coordVars, Quiet, Commits, Labels, queueVars

\* Every step of the dispatchers is one of the visible changes or none.
LEMMA StepVisible ==
  ASSUME IInv, [Next]_vars
  PROVE  Quiet \/ Admits \/ MakesRoom \/ Commits
<1>1. CASE UNCHANGED <<queueVars, receipts>>
  BY SMTT(30), <1>1, QuietTables
<1>2. ASSUME NEW p \in Processes, NEW k \in Producers, SubmitFinding(p, k)
      PROVE  Quiet \/ Admits
  BY SMTT(30), <1>2, EnqueueVisible DEF SubmitFinding, coordVars
<1>3. ASSUME NEW p \in Processes, Step(p)
      PROVE  Quiet \/ Admits \/ MakesRoom
  <2>1. CASE DrainPrune(p)
    BY SMTT(30), <2>1, PruneVisible DEF DrainPrune, coordVars
  <2>2. CASE GapEnqueue(p)
    BY SMTT(30), <2>2, EnqueueVisible DEF GapEnqueue, coordVars
  <2>3. CASE StoreAttempt(p)
    <3>1. /\ message[p].event \in Events /\ message[p].seq \in Nat /\ message[p].env \in Nat
          /\ receipts' = receipts
      BY SMTT(30), <2>3, InHand DEF StoreAttempt, coordVars
    <3>2. CASE store_attempt(message[p].event, message[p].seq, message[p].env)
      BY SMTT(30), <3>1, <3>2, StoreVisible
    <3>3. CASE store_attemptThrows(message[p].event, message[p].env)
      BY SMTT(30), <3>1, <3>3, QuietTables DEF store_attemptThrows
    <3> QED BY SMTT(30), <2>3, <3>2, <3>3 DEF StoreAttempt
  <2>4. CASE Acknowledge(p) \/ DeadLetter(p) \/ Retry(p)
    <3>1. message[p].event \in Events /\ receipts' = receipts
      BY SMTT(30), <2>4, InHand DEF Acknowledge, DeadLetter, Retry, coordVars
    <3> QED BY SMTT(30), <2>4, <3>1, UpdateVisible DEF Acknowledge, DeadLetter, Retry
  <2>5. CASE GapRead(p) \/ GapPending(p) \/ NextReady(p) \/ AllocateSequence(p)
    BY SMTT(30), <2>5, QuietTables DEF GapRead, GapPending, NextReady, AllocateSequence, coordVars
  <2> QED BY SMTT(30), <1>3, <2>1, <2>2, <2>3, <2>4, <2>5 DEF Step
<1>4. ASSUME NEW p \in Processes, AllocateSequenceThrows(p) \/ ConnectionFails(p) \/ Crash(p)
      PROVE  Quiet
  BY SMTT(30), <1>4, QuietTables DEF AllocateSequenceThrows, ConnectionFails, Crash, coordVars
<1>5. ASSUME NEW p \in Processes, CoordinatorAnswers(p) \/ CoordinatorFails(p)
      PROVE  Quiet \/ Commits
  <2>1. CASE CoordinatorFails(p)
    BY SMTT(30), <2>1, QuietTables DEF CoordinatorFails, coordVars
  <2>2. CASE CoordinatorAnswers(p)
    <3>1. exchange[p].event \in sent
      BY SMTT(30), <2>2 DEF CoordinatorAnswers, IInv, ProcInv, ProcOK, Idle
    <3> QED BY SMTT(30), <2>2, <3>1, HandleVisible DEF CoordinatorAnswers
  <2> QED BY SMTT(30), <1>5, <2>1, <2>2
<1>6. CASE CoordinatorHandlesOrphan
  BY SMTT(30), <1>6, HandleVisible DEF CoordinatorHandlesOrphan, IInv, NetInv
<1>7. CASE PeriodicDrain \/ OtherMessage
  BY SMTT(30), <1>7, QuietTables DEF PeriodicDrain, OtherMessage, coordVars
<1>8. ASSUME NEW e \in Events, RetryDelayEnds(e) \/ AttemptExpires(e)
      PROVE  Quiet
  <2>1. rows[e] \in Row /\ rows \in [Events -> Row]
    BY SMTT(30) DEF IInv, TypeOK, QueueTypeOK
  <2>2. PICK row \in Row : TimePasses(e, row) /\ SameKey(row, rows[e])
    BY SMTT(30), <1>8, <2>1, TimeFields DEF RetryDelayEnds, AttemptExpires
  <2> QED BY SMTT(30), <2>1, <2>2 DEF TimePasses, Quiet, Labels, SameKey, coordVars
<1>9. CASE UNCHANGED vars
  BY SMTT(30), <1>1, <1>9 DEF vars, coordVars
<1> QED BY SMTT(30), <1>2, <1>3, <1>4, <1>5, <1>6, <1>7, <1>8, <1>9 DEF Next

-----------------------------------------------------------------------------
(* The mapping *)

\* Under the invariant the status of an event can be read off the receipts, the
\* history of evictions and the counter.
LEMMA StatusIs ==
  ASSUME IInv
  PROVE  DeliveryStatus = [e \in Events |-> IF e \in receipts THEN "delivered"
                                            ELSE IF e \in evicted THEN "evicted"
                                            ELSE IF e < next_event_counter THEN "queued"
                                            ELSE "none"]
<1> SUFFICES ASSUME NEW e \in Events, e \notin receipts
             PROVE  /\ rows[e].state \in {"PENDING", "IN_FLIGHT", "DEAD_LETTER"}
                         <=> e < next_event_counter /\ e \notin evicted
                    /\ e \in evicted => e < next_event_counter
  BY SMTT(30) DEF DeliveryStatus
<1>1. /\ RowOK(e) /\ rows[e].state \in States \cup {"ABSENT"} /\ e \in Nat
      /\ next_event_counter \in Nat
  BY SMTT(30), TablesFacts DEF IInv, RowInv, Row
<1> QED BY SMTT(30), <1>1 DEF RowOK, States

\* Victims are expendable and queued.
LEMMA VictimsQueued ==
  ASSUME IInv, NEW victims \in SUBSET Evictable(rows)
  PROVE  /\ victims \subseteq Expendable /\ victims \cap receipts = {}
         /\ victims \cap evicted = {} /\ next_event_counter \notin victims
         /\ \A e \in victims : DeliveryStatus[e] = "queued"
<1> SUFFICES ASSUME NEW e \in victims
             PROVE  /\ e \in Expendable /\ e \notin receipts /\ e \notin evicted
                    /\ e # next_event_counter /\ DeliveryStatus[e] = "queued"
  BY Zenon
<1>1. /\ e \in Events /\ rows[e].state = "PENDING" /\ ~rows[e].attempted
      /\ PriorityOf(rows[e].producer) <= 1
  BY SMTT(30) DEF Evictable
<1>2. RowOK(e) /\ e \in Nat /\ next_event_counter \in Nat /\ receipts \subseteq sent
  BY SMTT(30), <1>1, TablesFacts DEF IInv, RowInv, NetInv
<1>3. e \notin receipts /\ e \notin evicted /\ e < next_event_counter
  BY SMTT(30), <1>1, <1>2 DEF RowOK
<1>4. DeliveryStatus[e] = "queued"
  BY SMTT(30), <1>1, <1>3 DEF DeliveryStatus
<1> QED BY SMTT(30), <1>1, <1>2, <1>3, <1>4 DEF Expendable

StatusOf(R, V, n) ==
  [e \in Events |-> IF e \in R THEN "delivered" ELSE IF e \in V THEN "evicted"
                    ELSE IF e < n THEN "queued" ELSE "none"]

\* The refinement mapping in terms of three variables only.
LEMMA StatusNow == IInv => DeliveryStatus = StatusOf(receipts, evicted, next_event_counter)
BY SMTT(30), StatusIs DEF StatusOf

\* The same, in the next state.
LEMMA StatusNext == IInv' => (DeliveryStatus = StatusOf(receipts, evicted, next_event_counter))'
BY StatusNow, PTL

\* Both of them at once, for a step that keeps the invariant.
LEMMA StatusPair ==
  ASSUME IInv, IInv'
  PROVE  /\ DeliveryStatus = StatusOf(receipts, evicted, next_event_counter)
         /\ DeliveryStatus' = StatusOf(receipts', evicted', next_event_counter')
<1>1. StatusOf(receipts, evicted, next_event_counter)'
        = StatusOf(receipts', evicted', next_event_counter')
  BY Zenon DEF StatusOf, Events
<1> QED BY SMTT(30), <1>1, StatusNow, StatusNext

\* A step that inserts no row keeps the set of expendable events.
LEMMA SameExpendable ==
  ASSUME Labels, next_event_counter' = next_event_counter
  PROVE  Expendable' = Expendable
<1>1. ASSUME NEW e \in Events PROVE e \in Expendable' <=> e \in Expendable
  BY SMTT(30) DEF Labels, Expendable, Events, PriorityOf
<1>2. Expendable' \subseteq Events /\ Expendable \subseteq Events
  BY Zenon DEF Expendable, Events
<1> QED BY SMTT(30), <1>1, <1>2

\* The abstract module counts with the same Cardinality.
LEMMA SameCardinality == \A S : Abstract!Cardinality(S) = Cardinality(S)
BY SMTT(30) DEF Abstract!Cardinality, Cardinality

\* An eviction maps to an abstract eviction.
LEMMA EvictMaps ==
  ASSUME IInv, NEW victims \in SUBSET Evictable(rows), CountDropped(victims)
  PROVE  Abstract!Evict(victims) /\ evicted' = evicted \cup victims
BY SMTT(30), VictimsQueued, SameCardinality DEF Abstract!Evict, CountDropped

\* StepMaps is found faster with types.
HIDE DueRow

\* Every step maps to a step of the abstract specification or to a stutter.
LEMMA StepMaps ==
  ASSUME IInv, IInv', [Next]_vars
  PROVE  [Abstract!Next]_(Abstract!vars)
<1>0. /\ DeliveryStatus = StatusOf(receipts, evicted, next_event_counter)
      /\ DeliveryStatus' = StatusOf(receipts', evicted', next_event_counter')
  BY SMTT(30), StatusPair
<1>1. CASE Quiet
  BY SMTT(30), <1>0, <1>1, SameExpendable DEF Quiet, Abstract!vars
<1>2. CASE Admits
  <2> DEFINE n == next_event_counter
  <2>1. PICK victims \in SUBSET Evictable(rows) : CountDropped(victims)
    BY SMTT(30), <1>2 DEF Admits
  <2>2. Abstract!Evict(victims) /\ evicted' = evicted \cup victims
    BY SMTT(30), <2>1, EvictMaps
  <2>3. /\ n \in Events /\ n \in Nat /\ n' = n + 1 /\ n \notin receipts /\ n \notin evicted
        /\ \A e \in Events : e \in Nat
    <3>1. n \in Events /\ n' = n + 1 /\ RowOK(n) /\ receipts \subseteq sent
      BY SMTT(30), <1>2, TablesFacts DEF Admits, IInv, RowInv, NetInv
    <3> QED BY SMTT(30), <3>1, TablesFacts DEF IInv, RowOK
  <2>4. /\ victims \cap receipts = {} /\ n \notin victims /\ victims \subseteq Events
    BY Zenon, VictimsQueued DEF Evictable
  <2>5. DeliveryStatus[n] = "none"
    BY SMTT(30), <1>0, <2>3 DEF StatusOf
  <2>6. DeliveryStatus' = [f \in Events |-> IF f \in victims THEN "evicted"
                             ELSE IF f = n THEN "queued" ELSE DeliveryStatus[f]]
    <3>1. receipts' = receipts
      BY SMTT(30), <1>2 DEF Admits
    <3> SUFFICES ASSUME NEW f \in Events
                 PROVE  StatusOf(receipts', evicted', next_event_counter')[f]
                          = IF f \in victims THEN "evicted"
                            ELSE IF f = n THEN "queued" ELSE DeliveryStatus[f]
      BY SMTT(30), <1>0 DEF StatusOf
    <3>2. f < n' <=> f < n \/ f = n
      BY SMTT(30), <2>3
    <3> QED BY SMTT(30), <1>0, <2>2, <2>3, <2>4, <3>1, <3>2 DEF StatusOf
  <2>7. Expendable' \in {Expendable, Expendable \cup {n}}
    <3>1. \A f \in Events \ {n} : f \in Expendable' <=> f \in Expendable
      BY SMTT(30), <1>2, <2>3 DEF Admits, Labels, Expendable, Events, PriorityOf
    <3>2. Expendable' \subseteq Events /\ Expendable \subseteq Events /\ n \notin Expendable
      BY SMTT(30), <2>3 DEF Expendable, Events
    <3> QED BY SMTT(30), <3>1, <3>2
  <2>8. Abstract!Admit(n, victims)
    BY SMTT(30), <2>2, <2>5, <2>6, <2>7 DEF Abstract!Admit
  <2> QED BY SMTT(30), <2>3, <2>4, <2>8 DEF Abstract!Next
<1>3. CASE MakesRoom
  <2>1. PICK victims \in SUBSET Evictable(rows) : CountDropped(victims)
    BY SMTT(30), <1>3 DEF MakesRoom
  <2>2. Abstract!Evict(victims) /\ evicted' = evicted \cup victims
    BY SMTT(60), <2>1, EvictMaps
  <2>3. victims \cap receipts = {} /\ victims \subseteq Events
    BY SMTT(30), VictimsQueued DEF Evictable
  <2>4. DeliveryStatus' = [f \in Events |-> IF f \in victims THEN "evicted"
                                            ELSE DeliveryStatus[f]]
    BY SMTT(30), <1>0, <1>3, <2>2, <2>3 DEF StatusOf, MakesRoom
  <2>5. Abstract!MakeRoom(victims)
    BY SMTT(30), <1>3, <2>2, <2>4, SameExpendable DEF Abstract!MakeRoom, MakesRoom
  <2> QED BY SMTT(30), <2>3, <2>5 DEF Abstract!Next
<1>4. CASE Commits
  <2>1. PICK e \in sent \ receipts : receipts' = receipts \cup {e}
    BY SMTT(30), <1>4 DEF Commits
  <2>2. e \in Events /\ e \notin evicted /\ e < next_event_counter
    <3>1. e \in Events
      BY SMTT(30) DEF IInv, TypeOK
    <3>2. RowOK(e) /\ e \in Nat /\ next_event_counter \in Nat
      BY SMTT(30), <3>1, TablesFacts DEF IInv, RowInv
    <3> QED BY SMTT(30), <3>1, <3>2 DEF RowOK
  <2>3. DeliveryStatus[e] = "queued"
    BY SMTT(30), <1>0, <2>2 DEF StatusOf
  <2>4. DeliveryStatus' = [DeliveryStatus EXCEPT ![e] = "delivered"]
    BY SMTT(30), <1>0, <1>4, <2>1, <2>2 DEF StatusOf, Commits
  <2>5. Abstract!Deliver(e)
    BY SMTT(30), <1>4, <2>3, <2>4, SameExpendable DEF Abstract!Deliver, Commits
  <2> QED BY SMTT(30), <2>2, <2>5 DEF Abstract!Next
<1> QED BY SMTT(30), <1>1, <1>2, <1>3, <1>4, StepVisible

\* Initial states map to the abstract initial state.
LEMMA InitMaps == Init => Abstract!Init
<1> SUFFICES ASSUME Init PROVE Abstract!Init
  BY Zenon
<1>1. ASSUME NEW e \in Events PROVE e \in Nat /\ ~(e < 1) /\ rows[e].state = "ABSENT"
  <2>1. rows[e] = BlankRow(GapMarker, 0)
    BY SMTT(30) DEF Init, QueueInit
  <2> QED BY SMTT(30), <2>1, BlankFields, QueueAssumption DEF Events
<1>2. DeliveryStatus = [e \in Events |-> "none"]
  BY SMTT(30), <1>1 DEF DeliveryStatus, Init, QueueInit
<1>3. Expendable = {}
  BY SMTT(30), <1>1 DEF Expendable, Init, QueueInit
<1> QED BY SMTT(30), <1>2, <1>3 DEF Abstract!Init, Init, QueueInit

\* The outbox with its dispatchers, their crashes, the network and the coordinator
\* implements reliable delivery, for every value of the constants.
THEOREM Refinement == Spec => ImplementsReliableDelivery
BY InitMaps, StepMaps, Invariance, PTL DEF Spec, Abstract!Spec, ImplementsReliableDelivery
==============================================================================
