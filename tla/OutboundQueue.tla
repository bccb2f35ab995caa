---------------------------- MODULE OutboundQueue ----------------------------
(***************************************************************************)
(* The durable outbox: the SQLite tables outbound_messages and             *)
(* outbound_metadata and the operations of class OutboundQueue             *)
(* (src/core/outbound_queue.cpp).  Every operation is one SQLite           *)
(* transaction or statement, hence one atomic step.  An operation that     *)
(* throws has rolled its transaction back; its action is a separate        *)
(* operator whose name ends in Throws and which leaves the tables alone.   *)
(*                                                                         *)
(* Data kept per row: what the SQL conditions read.  attempt_count is kept *)
(* as "was it ever incremented"; next_attempt_at_ns and                    *)
(* attempt_expires_at_ns are kept as the truth value of the comparison     *)
(* they take part in (due: the retry delay is over; fresh: the attempt has *)
(* not expired), which time changes in actions of the environment.         *)
(* created_at_ns is ordered like event_counter: both are taken by the same *)
(* call.  The metrics coalesced and last_ack_ns, which no decision reads,  *)
(* are left out.                                                           *)
(***************************************************************************)
EXTENDS Integers, FiniteSets, FiniteSetsExt

CONSTANTS
  Producers,      \* producer keys of findings and evidence summaries
  Priority,       \* priority of each of them, 1..4
  PayloadBytes,   \* payload length of each of them
  GapMarker,      \* stands for "EvidenceSummary:TelemetryGap:", not a producer
  GapBytes,       \* payload length of a gap marker
  RowOverhead,    \* 512 in the code
  EnvelopeBytes,  \* the lengths an attempt envelope may have
  MaxBytes,       \* NETA_OUTBOX_MAX_MB in bytes; 0 means no limit
  AckPruneLimit,  \* 256 in the code
  MaxEvents       \* model bound: events ever enqueued

ASSUME QueueAssumption ==
  /\ GapMarker \notin Producers
  /\ Priority \in [Producers -> 0..4]
  /\ PayloadBytes \in [Producers -> Nat]
  /\ EnvelopeBytes \subseteq Nat \ {0}
  /\ {GapBytes, RowOverhead, MaxBytes, AckPruneLimit, MaxEvents} \subseteq Nat

VARIABLES
  rows,                           \* outbound_messages, by event_counter
  next_event_counter,
  dropped_low_priority,
  reported_dropped_low_priority,
  evicted                         \* history: the events enforce_budget deleted

queueVars == <<rows, next_event_counter, dropped_low_priority,
               reported_dropped_low_priority, evicted>>

Events == 1..MaxEvents
States == {"PENDING", "IN_FLIGHT", "ACKED", "DEAD_LETTER"}

Row == [state     : States \cup {"ABSENT"},
        producer  : Producers \cup {GapMarker},
        gap       : Nat,        \* finding_key of a gap marker, 0 for the others
        attempted : BOOLEAN,    \* attempt_count > 0
        env       : Nat,        \* length of attempt_envelope_json, 0 if NULL
        seq       : Nat,        \* attempt_sequence
        fresh     : BOOLEAN,
        due       : BOOLEAN]

BlankRow(k, g) == [state |-> "ABSENT", producer |-> k, gap |-> g,
                   attempted |-> FALSE, env |-> 0, seq |-> 0,
                   fresh |-> FALSE, due |-> FALSE]

QueueTypeOK ==
  /\ rows \in [Events -> Row]
  /\ next_event_counter \in 1..(MaxEvents + 1)
  /\ dropped_low_priority \in Nat
  /\ reported_dropped_low_priority \in Nat
  /\ evicted \subseteq Events

QueueInit ==
  /\ rows = [e \in Events |-> BlankRow(GapMarker, 0)]
  /\ next_event_counter = 1
  /\ dropped_low_priority = 0
  /\ reported_dropped_low_priority = 0
  /\ evicted = {}

Present(R) == {e \in Events : R[e].state # "ABSENT"}
Unacked(R) == {e \in Present(R) : R[e].state # "ACKED"}
PriorityOf(k) == IF k = GapMarker THEN 4 ELSE Priority[k]
PayloadOf(k) == IF k = GapMarker THEN GapBytes ELSE PayloadBytes[k]

-----------------------------------------------------------------------------
(* Capacity *)

RowBytes(row) == PayloadOf(row.producer) + row.env + RowOverhead
Used(R) == MapThenSumSet(LAMBDA e : RowBytes(R[e]), Unacked(R))
Fits(R, required) == MaxBytes = 0 \/ Used(R) + required <= MaxBytes

\* A deleted row keeps, as history, the key it had.
Delete(R, gone) ==
  [e \in Events |-> IF e \in gone THEN BlankRow(R[e].producer, R[e].gap) ELSE R[e]]

\* Mutant: attempted rows are evicted like the others.
Evictable_Attempted(R) == {e \in Events : /\ R[e].state = "PENDING"
                                          /\ PriorityOf(R[e].producer) <= 1}

Evictable(R) == {e \in Events : /\ R[e].state = "PENDING"
                                /\ ~R[e].attempted
                                /\ PriorityOf(R[e].producer) <= 1}

\* ORDER BY priority,created_at_ns
DroppedBefore(R, x, y) ==
  LET px == PriorityOf(R[x].producer)
      py == PriorityOf(R[y].producer)
  IN  px < py \/ (px = py /\ x < y)

\* The rows the eviction loop deletes: v goes when the deletion of everything
\* that goes before it has not made enough room.
Victims(R, required) ==
  {v \in Evictable(R) :
     ~Fits(Delete(R, {u \in Evictable(R) : DroppedBefore(R, u, v)}), required)}

AckedBatches(R) ==
  LET acked == {e \in Events : R[e].state = "ACKED"}
  IN  kSubset(Min({Cardinality(acked), AckPruneLimit}), acked)

\* The tables enforce_budget can return with; none if it throws.
enforce_budget(R, required) ==
  IF Fits(R, required)
  THEN {[rows |-> R, victims |-> {}]}
  ELSE LET victims == Victims(R, required)
       IN  IF Fits(Delete(R, victims), required)
           THEN {[rows |-> Delete(R, victims \cup batch), victims |-> victims] :
                   batch \in AckedBatches(R)}
           ELSE {}

CountDropped(victims) ==
  /\ dropped_low_priority' = dropped_low_priority + Cardinality(victims)
  /\ evicted' = evicted \cup victims

-----------------------------------------------------------------------------
(* Operations *)

\* The row that holds producer key (k, g), whatever its state.
Existing(k, g) == {e \in Present(rows) : rows[e].producer = k /\ rows[e].gap = g}

NewRow(k, g) == [BlankRow(k, g) EXCEPT !.state = "PENDING", !.due = TRUE]

insert_event(k, g) ==
  /\ next_event_counter <= MaxEvents
  /\ \E b \in enforce_budget(rows, PayloadOf(k) + RowOverhead) :
       /\ rows' = [b.rows EXCEPT ![next_event_counter] = NewRow(k, g)]
       /\ CountDropped(b.victims)
  /\ next_event_counter' = next_event_counter + 1
  /\ UNCHANGED reported_dropped_low_priority

enqueue(k, g) ==
  IF Existing(k, g) # {}
  THEN UNCHANGED queueVars     \* coalesced
  ELSE insert_event(k, g)

enqueueThrows(k, g) ==
  /\ Existing(k, g) = {}
  /\ enforce_budget(rows, PayloadOf(k) + RowOverhead) = {}
  /\ UNCHANGED queueVars

\* Mutant: an interrupted attempt is not taken up again.
Ready_PendingOnly == {e \in Events : rows[e].state = "PENDING" /\ rows[e].due}

\* The events next_ready may return: its one row, or none.
Ready == {e \in Events : rows[e].state \in {"PENDING", "IN_FLIGHT"} /\ rows[e].due}

next_ready ==
  {e \in Ready : \A f \in Ready \ {e} :
      LET pe == PriorityOf(rows[e].producer)
          pf == PriorityOf(rows[f].producer)
      IN  pe > pf \/ (pe = pf /\ e < f)}

\* The first UPDATE of store_attempt, seen by its own budget query.
Reserved(e) == [rows EXCEPT ![e].state = "IN_FLIGHT"]

Growth(e, bytes) == bytes - rows[e].env

StoreOutcomes(e, bytes) ==
  IF Growth(e, bytes) > 0
  THEN enforce_budget(Reserved(e), Growth(e, bytes))
  ELSE {[rows |-> Reserved(e), victims |-> {}]}

store_attempt(e, seq, bytes) ==
  /\ rows[e].state # "ABSENT"
  /\ \E b \in StoreOutcomes(e, bytes) :
       /\ rows' = [b.rows EXCEPT ![e].attempted = TRUE, ![e].seq = seq,
                                 ![e].env = bytes, ![e].fresh = TRUE]
       /\ CountDropped(b.victims)
  /\ UNCHANGED <<next_event_counter, reported_dropped_low_priority>>

store_attemptThrows(e, bytes) ==
  /\ rows[e].state = "ABSENT" \/ StoreOutcomes(e, bytes) = {}
  /\ UNCHANGED queueVars

\* An UPDATE ... WHERE event_id=? of a row that is gone changes nothing.
UpdateRow(e, row) ==
  /\ rows' = IF rows[e].state = "ABSENT" THEN rows ELSE [rows EXCEPT ![e] = row]
  /\ UNCHANGED <<next_event_counter, dropped_low_priority, evicted>>

mark_retry(e) ==
  /\ UpdateRow(e, [rows[e] EXCEPT !.state = "PENDING", !.due = FALSE])
  /\ UNCHANGED reported_dropped_low_priority

mark_dead_letter(e) ==
  /\ UpdateRow(e, [rows[e] EXCEPT !.state = "DEAD_LETTER"])
  /\ UNCHANGED reported_dropped_low_priority

\* Mutant: any acknowledgement counts as a report of the gap.
mark_acknowledged_AnyRow(e) ==
  /\ UpdateRow(e, [rows[e] EXCEPT !.state = "ACKED"])
  /\ reported_dropped_low_priority' = dropped_low_priority

mark_acknowledged(e) ==
  /\ UpdateRow(e, [rows[e] EXCEPT !.state = "ACKED"])
  /\ reported_dropped_low_priority' =
       IF rows[e].state # "ABSENT" /\ rows[e].producer = GapMarker
       THEN Max({reported_dropped_low_priority, rows[e].gap})
       ELSE reported_dropped_low_priority

\* Mutant: rows that are being delivered are pruned as well.
prune_acknowledged_InFlight ==
  /\ \E old \in SUBSET {e \in Events : rows[e].state \in {"ACKED", "IN_FLIGHT"}} :
       rows' = Delete(rows, old)
  /\ UNCHANGED <<next_event_counter, dropped_low_priority,
                 reported_dropped_low_priority, evicted>>

\* Deletes the rows acknowledged before the retention: any of them, as time goes.
prune_acknowledged ==
  /\ \E old \in SUBSET {e \in Events : rows[e].state = "ACKED"} :
       rows' = Delete(rows, old)
  /\ UNCHANGED <<next_event_counter, dropped_low_priority,
                 reported_dropped_low_priority, evicted>>

\* Mutant: the first drop is not worth a report.
GapUnreported_OffByOne ==
  dropped_low_priority > reported_dropped_low_priority + 1

\* The first and the second query of enqueue_gap_marker.
GapUnreported == dropped_low_priority > reported_dropped_low_priority

GapMarkerPending ==
  \E e \in Events : /\ rows[e].producer = GapMarker
                    /\ rows[e].state \in {"PENDING", "IN_FLIGHT"}
==============================================================================
