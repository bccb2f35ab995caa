-------------------------- MODULE OutboundDispatcher --------------------------
(***************************************************************************)
(* Delivery of the outbox to the coordinator: ReliableFleetClient and      *)
(* OutboundDispatcher (src/core/reliable_fleet_client.cpp,                 *)
(* src/core/outbound_dispatcher.cpp) running in several processes over one *)
(* database, the network, and the coordinator.                             *)
(*                                                                         *)
(* The agent service drains the outbox every five seconds and after each   *)
(* finding it submits; "neta-agent fleet announce" and "announce-          *)
(* connection" do the same from a process of their own with the same       *)
(* database.  pc[p] names the next statement of drain() that process p     *)
(* executes; one action is one SQLite statement or transaction, one        *)
(* sequence allocation, or one network event, so that everything another   *)
(* process can do in between does happen in between.                       *)
(*                                                                         *)
(* The coordinator is not part of the repository.  It is modelled from     *)
(* what the agent relies on: it keeps a durable receipt per idempotency    *)
(* key, accepts a new message only with a sequence above the last one it   *)
(* accepted, answers a message it has a receipt for with ALREADY_ACCEPTED, *)
(* and rejects malformed content permanently.  A request the client has    *)
(* given up on may still reach it.                                         *)
(***************************************************************************)
EXTENDS OutboundQueue

CONSTANTS
  Processes,        \* the processes that open the database
  Service,          \* the one that drains periodically
  Malformed,        \* producer keys whose payload the coordinator rejects
  MaximumMessages,  \* drain's limit (32)
  MaxSequence,      \* model bound: no run reaches it
  MaxSubmissions,   \* model bound: calls of submit_finding
  MaxFaults,        \* model bound: crashes, lost or failed exchanges, failed allocations
  MaxHeartbeats     \* model bound: messages sent outside the outbox

ASSUME DispatcherAssumption ==
  /\ Service \in Processes
  /\ Malformed \subseteq Producers \cup {GapMarker}
  /\ {MaximumMessages, MaxSequence, MaxSubmissions, MaxFaults, MaxHeartbeats} \subseteq Nat

VARIABLES
  pc,          \* next statement of each process
  message,     \* the OutboundMessage each process works on
  attempted,   \* result.attempted of each process
  gap,         \* dropped as read by enqueue_gap_marker
  exchange,    \* the HTTPS exchange each process waits for
  orphans,     \* requests still under way whose sender has given up
  receipts,    \* coordinator: idempotency keys committed
  lastSequence,\* coordinator: highest sequence accepted
  sent,        \* history: events whose envelope was handed to the network
  submissions, faults, heartbeats   \* what the bounds count

procVars == <<pc, message, attempted, gap>>
netVars == <<exchange, orphans>>
coordVars == <<receipts, lastSequence>>
boundVars == <<submissions, faults, heartbeats>>
vars == <<queueVars, procVars, netVars, coordVars, sent, boundVars>>

NoMessage == [event |-> 0, seq |-> 0, env |-> 0]
Message == [event : Events, seq : Nat, env : Nat]
Request == [event : Events, seq : Nat]
Idle == [status |-> "none", event |-> 0, seq |-> 0]
Exchange == [status : {"request", "ack", "permanent", "transient"},
             event : Events, seq : Nat]
Steps == {"idle", "prune", "gap_read", "gap_pending", "gap_enqueue", "next_ready",
          "sequence", "store", "await", "retry"}

TypeOK ==
  /\ QueueTypeOK
  /\ pc \in [Processes -> Steps]
  /\ message \in [Processes -> Message \cup {NoMessage}]
  /\ attempted \in [Processes -> 0..MaximumMessages]
  /\ gap \in [Processes -> Nat]
  /\ exchange \in [Processes -> Exchange \cup {Idle}]
  /\ orphans \subseteq Request
  /\ lastSequence \in Nat
  /\ receipts \subseteq Events /\ sent \subseteq Events
  /\ submissions \in 0..MaxSubmissions
  /\ faults \in 0..MaxFaults /\ heartbeats \in 0..MaxHeartbeats

Init ==
  /\ QueueInit
  /\ pc = [p \in Processes |-> "idle"]
  /\ message = [p \in Processes |-> NoMessage]
  /\ attempted = [p \in Processes |-> 0]
  /\ gap = [p \in Processes |-> 0]
  /\ exchange = [p \in Processes |-> Idle]
  /\ orphans = {}
  /\ lastSequence = 0
  /\ receipts = {} /\ sent = {}
  /\ submissions = 0 /\ faults = 0 /\ heartbeats = 0

Goto(p, step) == pc' = [pc EXCEPT ![p] = step]
\* drain returns; its locals are gone.
EndDrain(p) ==
  /\ Goto(p, "idle")
  /\ message' = [message EXCEPT ![p] = NoMessage]
  /\ attempted' = [attempted EXCEPT ![p] = 0]
  /\ UNCHANGED gap
Fault == faults < MaxFaults /\ faults' = faults + 1 /\ UNCHANGED <<submissions, heartbeats>>

-----------------------------------------------------------------------------
(* Submission *)

\* submit_finding and submit_evidence_summary: enqueue, then drain.  When
\* enqueue throws, so does the call.
SubmitFinding(p, k) ==
  /\ pc[p] = "idle"
  /\ submissions < MaxSubmissions
  /\ submissions' = submissions + 1
  /\ \/ enqueue(k, 0) /\ Goto(p, "prune")
     \/ enqueueThrows(k, 0) /\ UNCHANGED pc
  /\ UNCHANGED <<message, attempted, gap, netVars, coordVars, sent, faults, heartbeats>>

\* The periodic callback of the service.
PeriodicDrain ==
  /\ pc[Service] = "idle"
  /\ Goto(Service, "prune")
  /\ UNCHANGED <<queueVars, message, attempted, gap, netVars, coordVars,
                 sent, boundVars>>

-----------------------------------------------------------------------------
(* drain *)

DrainPrune(p) ==
  /\ pc[p] = "prune"
  /\ prune_acknowledged
  /\ Goto(p, "gap_read")
  /\ UNCHANGED <<message, attempted, gap, netVars, coordVars, sent, boundVars>>

\* enqueue_gap_marker reads both counters in one statement,
GapRead(p) ==
  /\ pc[p] = "gap_read"
  /\ IF GapUnreported
     THEN /\ Goto(p, "gap_pending")
          /\ gap' = [gap EXCEPT ![p] = dropped_low_priority]
     ELSE Goto(p, "next_ready") /\ UNCHANGED gap
  /\ UNCHANGED <<queueVars, message, attempted, netVars, coordVars,
                 sent, boundVars>>

\* looks for an unacknowledged marker in another,
GapPending(p) ==
  /\ pc[p] = "gap_pending"
  /\ IF GapMarkerPending
     THEN Goto(p, "next_ready") /\ gap' = [gap EXCEPT ![p] = 0]
     ELSE Goto(p, "gap_enqueue") /\ UNCHANGED gap
  /\ UNCHANGED <<queueVars, message, attempted, netVars, coordVars,
                 sent, boundVars>>

\* and enqueues a marker for the value it read; drain swallows its exception.
GapEnqueue(p) ==
  /\ pc[p] = "gap_enqueue"
  /\ enqueue(GapMarker, gap[p]) \/ enqueueThrows(GapMarker, gap[p])
  /\ gap' = [gap EXCEPT ![p] = 0]
  /\ Goto(p, "next_ready")
  /\ UNCHANGED <<message, attempted, netVars, coordVars, sent, boundVars>>

\* post_nap_envelope: the request leaves.  (That a crash may strike before it
\* does is covered by a crash after it and a request that never arrives.)
Post(p, e, seq) ==
  /\ exchange' = [exchange EXCEPT ![p] = [status |-> "request", event |-> e, seq |-> seq]]
  /\ sent' = sent \cup {e}
  /\ Goto(p, "await")

\* Mutant: a stored attempt is reused only if the row is still IN_FLIGHT.
Reusable_InFlight(e) == rows[e].state = "IN_FLIGHT" /\ rows[e].fresh

WithinLimit(p) == attempted[p] < MaximumMessages
Reusable(e) == rows[e].env > 0 /\ rows[e].fresh

\* next_ready copies the row; prepare_attempt takes the copy's envelope if it
\* has one that is not about to expire, and allocates a sequence otherwise.
NextReady(p) ==
  /\ pc[p] = "next_ready"
  /\ \/ /\ WithinLimit(p)
        /\ \E e \in next_ready :
             /\ message' = [message EXCEPT ![p] =
                  [event |-> e, seq |-> rows[e].seq, env |-> rows[e].env]]
             /\ IF Reusable(e)
                THEN Post(p, e, rows[e].seq)
                ELSE Goto(p, "sequence") /\ UNCHANGED <<exchange, sent>>
        /\ attempted' = [attempted EXCEPT ![p] = @ + 1]
        /\ UNCHANGED gap
     \/ /\ ~WithinLimit(p) \/ next_ready = {}
        /\ EndDrain(p)
        /\ UNCHANGED <<exchange, sent>>
  /\ UNCHANGED <<queueVars, orphans, coordVars, boundVars>>

\* Only the order of sequences matters here, so the model allocates the least
\* number above those still in use; the NapSequence modules show that the code's
\* allocation is above every earlier one.
SequencesInUse ==
  {lastSequence} \cup {rows[e].seq : e \in Events}
    \cup {message[p].seq : p \in Processes} \cup {r.seq : r \in orphans}

next_nap_sequence(seq) ==
  seq - 1 \in SequencesInUse /\ \A used \in SequencesInUse : used < seq

AllocateSequence(p) ==
  /\ pc[p] = "sequence"
  /\ \E seq \in 1..MaxSequence, bytes \in EnvelopeBytes :
       /\ next_nap_sequence(seq)
       /\ message' = [message EXCEPT ![p].seq = seq, ![p].env = bytes]
  /\ Goto(p, "store")
  /\ UNCHANGED <<queueVars, attempted, gap, netVars, coordVars, sent, boundVars>>

\* load_identity, random_uuid or next_nap_sequence throws.
AllocateSequenceThrows(p) ==
  /\ pc[p] = "sequence"
  /\ Fault
  /\ Goto(p, "retry")
  /\ UNCHANGED <<queueVars, message, attempted, gap, netVars, coordVars, sent>>

StoreAttempt(p) ==
  /\ pc[p] = "store"
  /\ \/ /\ store_attempt(message[p].event, message[p].seq, message[p].env)
        /\ Post(p, message[p].event, message[p].seq)
     \/ /\ store_attemptThrows(message[p].event, message[p].env)
        /\ Goto(p, "retry")
        /\ UNCHANGED <<exchange, sent>>
  /\ UNCHANGED <<message, attempted, gap, orphans, coordVars, boundVars>>

\* What is left of a request when its sender stops waiting for the answer.
Abandon(p) ==
  /\ orphans' = IF exchange[p].status = "request"
                THEN orphans \cup {[event |-> exchange[p].event, seq |-> exchange[p].seq]}
                ELSE orphans
  /\ exchange' = [exchange EXCEPT ![p] = Idle]

\* The connection breaks before the response has been read.
ConnectionFails(p) ==
  /\ pc[p] = "await"
  /\ Fault
  /\ Abandon(p)
  /\ Goto(p, "retry")
  /\ UNCHANGED <<queueVars, message, attempted, gap, coordVars, sent>>

\* The response has come; the statement it leads to: the ACK validates,
Acknowledge(p) ==
  /\ pc[p] = "await" /\ exchange[p].status = "ack"
  /\ exchange' = [exchange EXCEPT ![p] = Idle]
  /\ mark_acknowledged(message[p].event)
  /\ Goto(p, "next_ready")
  /\ UNCHANGED <<message, attempted, gap, orphans, coordVars, sent, boundVars>>

\* is_permanent_rejection holds (a failure ends the drain),
DeadLetter(p) ==
  /\ pc[p] = "await" /\ exchange[p].status = "permanent"
  /\ exchange' = [exchange EXCEPT ![p] = Idle]
  /\ mark_dead_letter(message[p].event)
  /\ EndDrain(p)
  /\ UNCHANGED <<orphans, coordVars, sent, boundVars>>

\* or any other exception was thrown, by the exchange or before it.
Retry(p) ==
  /\ pc[p] = "retry" \/ (pc[p] = "await" /\ exchange[p].status = "transient")
  /\ exchange' = [exchange EXCEPT ![p] = Idle]
  /\ mark_retry(message[p].event)
  /\ EndDrain(p)
  /\ UNCHANGED <<orphans, coordVars, sent, boundVars>>

\* The process dies (and is started again); the tables survive.
Crash(p) ==
  /\ pc[p] # "idle"
  /\ Fault
  /\ Abandon(p)
  /\ message' = [message EXCEPT ![p] = NoMessage]
  /\ attempted' = [attempted EXCEPT ![p] = 0]
  /\ gap' = [gap EXCEPT ![p] = 0]
  /\ Goto(p, "idle")
  /\ UNCHANGED <<queueVars, coordVars, sent>>

-----------------------------------------------------------------------------
(* The coordinator *)

\* Its answer to a request, with what it has committed before answering.
Handle(event, seq, status) ==
  \/ /\ event \in receipts                             \* ALREADY_ACCEPTED
     /\ status = "ack"
     /\ UNCHANGED coordVars
  \/ /\ event \notin receipts
     /\ rows[event].producer \in Malformed
     /\ status = "permanent"
     /\ UNCHANGED coordVars
  \/ /\ event \notin receipts /\ seq <= lastSequence   \* sequence failure
     /\ status = "transient"
     /\ UNCHANGED coordVars
  \/ /\ event \notin receipts /\ seq > lastSequence    \* ACCEPTED
     /\ rows[event].producer \notin Malformed
     /\ status = "ack"
     /\ receipts' = receipts \cup {event}
     /\ lastSequence' = seq

CoordinatorAnswers(p) ==
  /\ exchange[p].status = "request"
  /\ \E status \in {"ack", "permanent", "transient"} :
       /\ Handle(exchange[p].event, exchange[p].seq, status)
       /\ exchange' = [exchange EXCEPT ![p].status = status]
  /\ UNCHANGED <<queueVars, procVars, orphans, sent, boundVars>>

\* A server or certificate error: nothing is committed.
CoordinatorFails(p) ==
  /\ exchange[p].status = "request"
  /\ Fault
  /\ exchange' = [exchange EXCEPT ![p].status = "transient"]
  /\ UNCHANGED <<queueVars, procVars, orphans, coordVars, sent>>

\* A request arrives whose sender no longer waits for it.
CoordinatorHandlesOrphan ==
  /\ \E r \in orphans :
       /\ \E status \in {"ack", "permanent", "transient"} : Handle(r.event, r.seq, status)
       /\ orphans' = orphans \ {r}
  /\ UNCHANGED <<queueVars, procVars, exchange, sent, boundVars>>

\* Heartbeat, AgentHello or UpgradeProgress: allocated and delivered while
\* SequenceSendLease holds the sequence lock.
OtherMessage ==
  /\ heartbeats < MaxHeartbeats
  /\ heartbeats' = heartbeats + 1
  /\ \E seq \in 1..MaxSequence : next_nap_sequence(seq) /\ lastSequence' = seq
  /\ UNCHANGED <<queueVars, procVars, netVars, receipts, sent, submissions, faults>>

-----------------------------------------------------------------------------
(* Time *)

TimePasses(e, row) ==
  /\ rows' = [rows EXCEPT ![e] = row]
  /\ UNCHANGED <<next_event_counter, dropped_low_priority,
                 reported_dropped_low_priority, evicted>>
  /\ UNCHANGED <<procVars, netVars, coordVars, sent, boundVars>>

\* next_attempt_at_ns is reached.
RetryDelayEnds(e) ==
  /\ rows[e].state \in {"PENDING", "IN_FLIGHT"} /\ ~rows[e].due
  /\ TimePasses(e, [rows[e] EXCEPT !.due = TRUE])

\* attempt_expires_at_ns comes closer than the refresh margin.
AttemptExpires(e) ==
  /\ rows[e].state \in {"PENDING", "IN_FLIGHT"} /\ rows[e].fresh
  /\ TimePasses(e, [rows[e] EXCEPT !.fresh = FALSE])


Step(p) ==
  \/ DrainPrune(p) \/ GapRead(p) \/ GapPending(p) \/ GapEnqueue(p)
  \/ NextReady(p) \/ AllocateSequence(p) \/ StoreAttempt(p)
  \/ Acknowledge(p) \/ DeadLetter(p) \/ Retry(p)

Next ==
  \/ \E p \in Processes :
       \/ \E k \in Producers : SubmitFinding(p, k)
       \/ Step(p)
       \/ AllocateSequenceThrows(p) \/ ConnectionFails(p) \/ Crash(p)
       \/ CoordinatorAnswers(p) \/ CoordinatorFails(p)
  \/ PeriodicDrain
  \/ CoordinatorHandlesOrphan
  \/ OtherMessage
  \/ \E e \in Events : RetryDelayEnds(e) \/ AttemptExpires(e)

Spec == Init /\ [][Next]_vars

\* The service's timer fires, every started drain goes on, the clock runs and the
\* coordinator answers; nothing is assumed of submissions, faults, heartbeats
\* and orphaned requests.
Fairness ==
  /\ WF_vars(PeriodicDrain)
  /\ \A p \in Processes : WF_vars(Step(p)) /\ WF_vars(CoordinatorAnswers(p))
  /\ \A e \in Events : WF_vars(RetryDelayEnds(e)) /\ WF_vars(AttemptExpires(e))

FairSpec == Spec /\ Fairness

-----------------------------------------------------------------------------
(* Properties *)

\* "Attempted or important events are never silently evicted" and an
\* acknowledgement is never assumed: an event that was enqueued is committed at
\* the coordinator, or is still in the table in a state other than ACKED, or was
\* evicted, and then it was of low priority, is counted and never left the agent.
\* (enforce_budget, store_attempt, mark_acknowledged, prune_acknowledged against
\* every interleaving of two dispatchers, crashes and lost answers.)
NoSilentLoss ==
  \A e \in Events : e < next_event_counter =>
    \/ e \in receipts
    \/ rows[e].state \in {"PENDING", "IN_FLIGHT", "DEAD_LETTER"}
    \/ e \in evicted \ sent /\ PriorityOf(rows[e].producer) <= 1

\* The durable counter dropped_low_priority is exactly the number of events that
\* were evicted: a rolled-back enqueue or store_attempt leaves no trace in it.
DropsAreCounted == dropped_low_priority = Cardinality(evicted)

\* What the agent believes it has reported is true: the coordinator holds a
\* telemetry-gap marker with that very count, and the count is not above the
\* number of drops (mark_acknowledged, enqueue_gap_marker's unlocked reads).
GapReportsAreTrue ==
  /\ reported_dropped_low_priority <= dropped_low_priority
  /\ reported_dropped_low_priority > 0 =>
       \E e \in receipts : /\ rows[e].producer = GapMarker
                           /\ rows[e].gap = reported_dropped_low_priority

\* "An unexpired attempt is retried byte-for-byte": as long as the stored attempt
\* is fresh it is not replaced by another one (prepare_attempt, store_attempt).
KeepsAttempt(e) ==
  rows[e].env > 0 /\ rows[e].fresh /\ rows'[e].state # "ABSENT" => rows'[e].seq = rows[e].seq /\ rows'[e].env = rows[e].env
UnexpiredAttemptIsKept == [][\A e \in Events : KeepsAttempt(e)]_vars

\* What a row says stands while one dispatcher works on the queue: an unexpired
\* attempt is kept, and an acknowledged row stays so until it is pruned, although
\* mark_retry, mark_dead_letter and store_attempt do not look at the state.
RowsStand ==
  [][\A e \in Events :
       /\ KeepsAttempt(e)
       /\ rows[e].state = "ACKED" => rows'[e].state \in {"ACKED", "ABSENT"}]_vars

\* Every event the service has accepted for delivery is settled: committed at the
\* coordinator and acknowledged here, dead-lettered, or evicted.
EverythingSettles ==
  \A e \in Events :
    (e < next_event_counter)
      ~> \/ e \in receipts /\ rows[e].state \in {"ACKED", "ABSENT"}
         \/ rows[e].state = "DEAD_LETTER"
         \/ e \in evicted

\* Dropped events do not stay unreported: the coordinator learns the full count
\* once evictions stop (drain retries the marker until it is acknowledged).
DropsAreReported ==
  <>[](reported_dropped_low_priority = dropped_low_priority)

-----------------------------------------------------------------------------
(* Refinement *)

\* What the tables and the coordinator's receipts say of an event.
DeliveryStatus ==
  [e \in Events |->
     IF e \in receipts THEN "delivered"
     ELSE IF rows[e].state \in {"PENDING", "IN_FLIGHT", "DEAD_LETTER"} THEN "queued"
     ELSE IF e < next_event_counter THEN "evicted"
     ELSE "none"]

Expendable ==
  {e \in Events : e < next_event_counter /\ PriorityOf(rows[e].producer) <= 1}

Abstract == INSTANCE ReliableDelivery
  WITH status <- DeliveryStatus, expendable <- Expendable,
       counted <- dropped_low_priority

\* The agent implements reliable delivery: every step of every process, of the
\* coordinator and of the network is an admission, an eviction that is counted,
\* a delivery, or changes nothing the submitting side relies on.
ImplementsReliableDelivery == Abstract!Spec
==============================================================================
