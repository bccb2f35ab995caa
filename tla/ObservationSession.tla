-------------------------- MODULE ObservationSession --------------------------
(***************************************************************************)
(* ObservationSession::run (src/core/observation_session.cpp): one thread  *)
(* polls the lifecycle observer, samples the sockets, keeps candidates for *)
(* sockets that no event has announced, and reports each connection that   *)
(* has ended once the evidence about it has had time to arrive.  The       *)
(* admission policy and the evidence scheduler are part of it.             *)
(*                                                                         *)
(* Around it, the sockets of the host: each is opened and closed once, and *)
(* the lifecycle observer queues an event for it, or loses the event and   *)
(* counts the loss.  They move whenever the session is about to read them. *)
(***************************************************************************)
EXTENDS ConnectionTracker

CONSTANTS
  Configs,          \* platforms and modes of observation, see ConfigSpace
  Matching,         \* the sockets that match the filter, and the target if there is one
  MaxCandidates,    \* max_snapshot_reconciliation_candidates
  Live,             \* bound: one of these sets has the sockets that the session may meet
  MaxFaults         \* bound: events lost, owners not found and TLS sessions announced

\* exact: the lifecycle observer has the events that the mode needs.  Without them
\* there is only target mode (src/cli/observation_command.cpp).
ConfigSpace ==
  {c \in [platform : {"linux", "windows"}, mode : {"all", "outbound", "inbound", "target"},
          exact : BOOLEAN] : c.exact \/ c.mode = "target"}

ASSUME SessionAssumption ==
  /\ Configs \subseteq ConfigSpace
  /\ Matching \subseteq Sockets
  /\ Live \subseteq SUBSET Sockets
  /\ {MaxCandidates, MaxFaults} \subseteq Nat

VARIABLES
  config,      \* platform, mode and whether lifecycle events are active
  phase,       \* of each socket
  ring,        \* the events the lifecycle observer has queued
  lost,        \* it has lost an event: LifecycleHealth::evidence_may_be_incomplete
  handshakes,  \* the TLS sessions its observer has queued
  faults,      \* counts towards MaxFaults
  pc,          \* where run() is
  batch,       \* the events of the last poll that are left
  ses,         \* the session's collections, the tracker and the history
  candidates,  \* pending_snapshot_candidates: key -> socket
  scan         \* the snapshot: degraded, the sockets left, candidates_seen, inner

world == <<phase, ring, lost, handshakes>>
vars == <<config, world, faults, pc, batch, ses, candidates, scan>>

EmptySession ==
  [T |-> EmptyTracker,
   active |-> {},       \* EvidenceScheduler::active_
   due |-> {},          \* EvidenceScheduler::pending_routes_
   requests |-> <<>>,   \* route_requests
   pending |-> {},      \* pending_completed_connections
   dispatched |-> {},   \* dispatched_completed_connections
   sessions |-> {},     \* tls_session_observations
   keys |-> {}]         \* attached_tls_session_keys

NoScan == [degraded |-> FALSE, todo |-> {}, seen |-> {}, inner |-> FALSE]

Polling == ~config.exact
Visible == {s \in Sockets : phase[s] \in {"open", "tail"}}

Init ==
  /\ config \in Configs
  /\ phase \in {p \in [Sockets -> {"none", "open", "gone"}] :
                  /\ {s \in Sockets : p[s] # "gone"} \in Live
                  /\ \A s, t \in Sockets : s # t /\ p[s] = "open" /\ p[t] = "open"
                                            => TupleOf[s] # TupleOf[t]}
  /\ ring = <<>> /\ lost = FALSE /\ handshakes = {} /\ faults = 0
  /\ pc = IF config.exact THEN "sample" ELSE "loop"
  /\ batch = <<>> /\ ses = EmptySession /\ candidates = <<>> /\ scan = NoScan

-----------------------------------------------------------------------------
(* The host *)

\* The session reads the host when it polls and when it takes a snapshot.
HostMoves == pc \in {"loop", "sample"} /\ UNCHANGED <<config, pc, batch, ses, candidates, scan>>

\* The event reaches the queue of the observer, or is lost and counted.
Announce(s, type) ==
  \/ /\ ring' = IF config.exact THEN Append(ring, [type |-> type, socket |-> s]) ELSE ring
     /\ UNCHANGED <<lost, faults>>
  \/ /\ config.exact /\ faults < MaxFaults
     /\ lost' = TRUE /\ faults' = faults + 1
     /\ UNCHANGED ring

\* A tuple is free once the socket that had it is gone.
Open(s) ==
  /\ phase[s] = "none"
  /\ HostMoves
  /\ \A t \in Visible : TupleOf[t] # TupleOf[s]
  /\ phase' = [phase EXCEPT ![s] = "open"]
  /\ Announce(s, IF s \in Accepted THEN "ACCEPT" ELSE "CONNECT")
  /\ UNCHANGED handshakes

Handshake(s) ==
  /\ phase[s] = "open" /\ faults < MaxFaults
  /\ HostMoves
  /\ handshakes' = handshakes \cup {s}
  /\ faults' = faults + 1
  /\ UNCHANGED <<phase, ring, lost>>

\* A closed socket stays in snapshots for a while, without an owner.
Close(s) ==
  /\ phase[s] = "open"
  /\ HostMoves
  /\ phase' = [phase EXCEPT ![s] = "tail"]
  /\ Announce(s, "CLOSE")
  /\ UNCHANGED handshakes

Vanish(s) ==
  /\ phase[s] = "tail"
  /\ HostMoves
  /\ phase' = [phase EXCEPT ![s] = "gone"]
  /\ UNCHANGED <<ring, lost, handshakes, faults>>

-----------------------------------------------------------------------------
(* ConnectionAdmissionPolicy *)

DirectionOf(s) == IF s \in Accepted THEN "INBOUND" ELSE "OUTBOUND"

permits(direction) ==
  direction \in CASE config.mode \in {"target", "outbound"} -> {"OUTBOUND"}
                  [] config.mode = "inbound" -> {"INBOUND"}
                  [] OTHER -> {"OUTBOUND", "INBOUND"}

evaluate(event) ==
  event.type = "CLOSE" \/ (permits(DirectionOf(event.socket)) /\ event.socket \in Matching)

evaluate_new_socket(s, eligible) == eligible /\ config.mode = "target" /\ s \in Matching

evaluate_reconciliation_socket(s, eligible) ==
  eligible /\ s \in Matching /\ config.mode \in {"target", "all"}

-----------------------------------------------------------------------------
(* TLS evidence: correlate_tls_session and correlate_tls_sessions *)

\* CandidateKind of the row n for the TLS session of s; its cookie is known on Linux.
CandidateKind(S, s, n) ==
  LET row == S.T.rows[n]
      cookie == config.platform = "linux"
  IN  CASE \/ row.direction # DirectionOf(s)
           \/ ProcessOf[row.socket] # ProcessOf[s] -> "none"
        [] cookie /\ row.cookie # NoSocket -> IF row.cookie = s THEN "match" ELSE "none"
        [] OTHER -> IF TupleOf[row.socket] # TupleOf[s] THEN "none"
                    ELSE IF cookie THEN "awaiting" ELSE "match"

OfKind(S, s, kind) == {n \in DOMAIN S.T.rows : CandidateKind(S, s, n) = kind}
Matched(S, s) == Cardinality(OfKind(S, s, "match")) = 1
Ambiguous(S, s) ==
  \/ Cardinality(OfKind(S, s, "match")) > 1
  \/ OfKind(S, s, "match") = {} /\ Cardinality(OfKind(S, s, "awaiting")) > 1

\* The TLS sessions that have one row and are not attached yet, and those of the row n.
Fresh(S) == {s \in S.sessions : Matched(S, s) /\ s \notin S.keys}
FreshFor(S, n) == {s \in Fresh(S) : OfKind(S, s, "match") = {n}}

\* They are attached to their rows, and those that are ambiguous are dropped.
AttachedRows(S) ==
  [n \in DOMAIN S.T.rows |-> [S.T.rows[n] EXCEPT !.tls = @ \cup FreshFor(S, n)]]
AttachSessions(S) ==
  [S EXCEPT !.T.rows = AttachedRows(S),
            !.keys = @ \cup Fresh(S),
            !.sessions = {s \in @ : ~Matched(S, s) /\ ~Ambiguous(S, s)}]

\* Mutant of correlate_tls_sessions: what was reported is not reported again.
CorrelateOnly(S) == IF S.sessions = {} THEN S ELSE AttachSessions(S)

\* Evidence for a connection that was reported already has it reported again.
correlate_tls_sessions(S) ==
  IF S.sessions = {} THEN S
  ELSE LET A == AttachSessions(S)
           again == {n \in S.dispatched \ S.pending : A.T.rows[n].tls # S.T.rows[n].tls}
       IN  [A EXCEPT !.pending = @ \cup again, !.dispatched = @ \ again]

\* drain_tls_sessions: the observations in late are too old or too many.
drain_tls_sessions(S, late) ==
  correlate_tls_sessions([S EXCEPT !.sessions = (@ \cup handshakes) \ late])

-----------------------------------------------------------------------------
(* What the session does with an admission, and reports *)

connection_closed(S, ids) ==
  [S EXCEPT !.active = @ \ ids, !.due = @ \ ids,
            !.requests = Restrict(@, DOMAIN @ \ ids),
            !.pending = @ \cup ids]

record_admission(S, id, direction) ==
  correlate_tls_sessions(
    [S EXCEPT !.active = @ \cup {id}, !.due = @ \cup {id},
              !.requests = [n \in DOMAIN @ \cup {id} |-> IF n = id THEN direction ELSE @[n]]])

record_direction_promotion(S, id, direction) ==
  [S EXCEPT !.requests = [n \in DOMAIN @ |-> IF n = id THEN direction ELSE @[n]]]

\* The session after the tracker has answered with the admission A.
Apply(S, A, direction) ==
  LET updated == [S EXCEPT !.T = A.T]
  IN  IF A.new THEN record_admission(updated, A.id, direction)
      ELSE IF A.promoted THEN record_direction_promotion(updated, A.id, direction)
      ELSE IF A.closed THEN connection_closed(updated, {A.id})
      ELSE updated

\* dispatch_completed, when the grace of the connections in ids has passed: the rows
\* for which the callback is called, and the session.
CalledRows(S, ids) ==
  [n \in DOMAIN S.T.rows |->
     IF n \in ids \ S.dispatched
     THEN [S.T.rows[n] EXCEPT !.told = @ \cup {S.T.rows[n].tls},
                              !.repeated = @ \/ S.T.rows[n].tls \in S.T.rows[n].told]
     ELSE S.T.rows[n]]
dispatch_completed(S, ids) ==
  [S EXCEPT !.pending = @ \ ids,
            !.dispatched = @ \cup ids,
            !.T.rows = CalledRows(S, ids)]

\* observe_scheduled_routes: the row has the relation of the route, if there is one.
Asked(S) == S.due \cap DOMAIN S.requests
RoutedRows(S) ==
  [n \in DOMAIN S.T.rows |->
     IF n \in Asked(S) THEN [S.T.rows[n] EXCEPT !.route = S.requests[n]] ELSE S.T.rows[n]]
observe_scheduled_routes(S) ==
  [S EXCEPT !.due = {},
            !.requests = Restrict(@, DOMAIN @ \ Asked(S)),
            !.T.rows = RoutedRows(S)]

\* Where the loop goes on.  (immediate_transport_ is never set here: a sample follows
\* every admission.)
transport_due(S) ==
  CASE candidates # <<>> -> {"sample"}
    [] S.active # {} -> {"sample", "loop"}
    [] OTHER -> {"loop"}

-----------------------------------------------------------------------------
(* Events *)

Poll ==
  /\ pc = "loop" /\ config.exact
  /\ batch' = ring /\ ring' = <<>>
  /\ pc' = "events"
  /\ UNCHANGED <<config, phase, lost, handshakes, faults, ses, candidates, scan>>

\* snapshot_tuple_key: Linux sockets have no owner, unless a filter asks for it.
SnapshotKey(s, resolved) ==
  CASE config.platform = "linux" -> <<TupleOf[s]>>
    [] resolved -> <<TupleOf[s], ProcessOf[s]>>
    [] OTHER -> <<TupleOf[s], ProcessOf[s], "start 0">>

\* lifecycle_tuple_key
LifecycleKey(tuple, s) == IF s \in Attributed THEN <<tuple, ProcessOf[s]>> ELSE <<tuple>>

Without(keys) == Restrict(candidates, DOMAIN candidates \ keys)

\* One event of the batch.  After an admission the sockets are sampled at once.
HandleEvent ==
  /\ pc = "events" /\ batch # <<>>
  /\ LET event == Head(batch)
         s == event.socket
         direction == DirectionOf(s)
         A == IF evaluate(event) THEN observe_lifecycle(config.platform, ses.T, event, direction)
              ELSE Nothing(ses.T)
     IN  /\ candidates' = Without({LifecycleKey(TupleOf[s], s)} \cup
                                  IF event.type = "CLOSE"
                                  THEN {LifecycleKey(Reverse(TupleOf[s]), s)} ELSE {})
         /\ ses' = Apply(ses, A, direction)
         /\ pc' = IF A.new THEN "sample" ELSE "events"
         /\ scan' = [NoScan EXCEPT !.inner = A.new]
  /\ batch' = Tail(batch)
  /\ UNCHANGED <<config, world, faults>>

\* The end of the batch.
EndEvents ==
  /\ pc = "events" /\ batch = <<>>
  /\ \E late \in SUBSET (ses.sessions \cup handshakes) :
       LET drained == drain_tls_sessions(ses, late)
       IN  \E ids \in SUBSET drained.pending : ses' = dispatch_completed(drained, ids)
  /\ handshakes' = {}
  /\ pc' \in transport_due(ses')
  /\ UNCHANGED <<config, phase, ring, lost, faults, batch, candidates, scan>>

-----------------------------------------------------------------------------
(* sample_transport *)

BeginSample ==
  /\ pc = "sample" \/ (pc = "loop" /\ Polling)
  /\ ses' = [ses EXCEPT !.T = begin_snapshot(@)]
  /\ scan' = [scan EXCEPT !.degraded = config.exact /\ lost, !.todo = Visible, !.seen = {}]
  /\ pc' = "snapshot"
  /\ UNCHANGED <<config, world, faults, batch, candidates>>

\* The process of an open socket is found, but for a failure of the resolver.
Resolves(s, resolved) ==
  /\ resolved => phase[s] = "open"
  /\ phase[s] = "open" /\ ~resolved => faults < MaxFaults
  /\ faults' = IF phase[s] = "open" /\ ~resolved THEN faults + 1 ELSE faults

Observe(s, allow_new, resolved, eligible) ==
  observe_socket(config.platform, ses.T, s, "UNKNOWN", allow_new,
                 IF scan.degraded THEN "AFTER_LOSS" ELSE "PREEXISTING", resolved, eligible)

\* A socket in the snapshot while events are active: enrichment or a candidate.
Reconcile(s, resolved, eligible, grace_elapsed) ==
  LET key == SnapshotKey(s, resolved)
      enrichment == Observe(s, FALSE, resolved, eligible)
      admit == scan.degraded \/ grace_elapsed
      A == IF enrichment.id # 0 THEN enrichment
           ELSE IF evaluate_reconciliation_socket(s, eligible) /\ admit
                THEN Observe(s, TRUE, resolved, eligible) ELSE Nothing(ses.T)
      pends == enrichment.id = 0 /\ evaluate_reconciliation_socket(s, eligible)
  IN  /\ grace_elapsed => key \in DOMAIN candidates
      /\ ses' = Apply(ses, A, "UNKNOWN")
      /\ candidates' = IF pends /\ ~admit
                       THEN [k \in DOMAIN candidates \cup {key} |->
                               IF k = key THEN s ELSE candidates[k]]
                       ELSE IF pends \/ enrichment.id # 0 THEN Without({key}) ELSE candidates
      /\ scan' = [scan EXCEPT !.todo = @ \ {s}, !.seen = IF pends THEN @ \cup {key} ELSE @]

\* A socket in the snapshot while polling discovers the connections.
Discover(s, resolved, eligible) ==
  /\ ses' = Apply(ses, Observe(s, evaluate_new_socket(s, eligible), resolved, eligible), "UNKNOWN")
  /\ scan' = [scan EXCEPT !.todo = @ \ {s}]
  /\ UNCHANGED candidates

\* A closing socket may be a connection still or a lifecycle tail.
SeeSocket(s) ==
  /\ pc = "snapshot" /\ s \in scan.todo
  /\ \E resolved, eligible \in BOOLEAN :
       /\ phase[s] = "open" => eligible
       /\ Resolves(s, resolved)
       /\ IF config.exact THEN \E grace \in BOOLEAN : Reconcile(s, resolved, eligible, grace)
          ELSE Discover(s, resolved, eligible)
  /\ UNCHANGED <<config, world, pc, batch>>

\* A candidate that the snapshot no longer has is admitted after a loss, or dropped.
DropCandidate(key) ==
  /\ pc = "snapshot" /\ scan.todo = {}
  /\ key \in DOMAIN candidates \ scan.seen
  /\ \E resolved \in BOOLEAN :
       /\ Resolves(candidates[key], resolved)
       /\ ses' = IF scan.degraded
                 THEN Apply(ses, Observe(candidates[key], TRUE, resolved, TRUE), "UNKNOWN")
                 ELSE ses
  /\ candidates' = Without({key})
  /\ UNCHANGED <<config, world, pc, batch, scan>>

\* end_snapshot to observe_scheduled_routes.  Candidates over the limit are dropped;
\* none is ever stale.
EndSample ==
  /\ pc = "snapshot" /\ scan.todo = {}
  /\ config.exact => DOMAIN candidates \subseteq scan.seen
  /\ \E keep \in SUBSET DOMAIN candidates :
       /\ IF Cardinality(DOMAIN candidates) <= MaxCandidates THEN keep = DOMAIN candidates
          ELSE Cardinality(keep) = MaxCandidates
       /\ candidates' = Restrict(candidates, keep)
  /\ LET absent == {ses.T.conns[i].id : i \in Absent(ses.T, Polling, scan.degraded)}
         ended == [ses EXCEPT !.T = end_snapshot(@, Polling, scan.degraded)]
         closed == connection_closed(ended, absent)
     IN  \E late \in SUBSET (ses.sessions \cup handshakes) :
           LET drained == drain_tls_sessions(closed, late)
           IN  \E ids \in SUBSET drained.pending :
                 ses' = observe_scheduled_routes(dispatch_completed(drained, ids))
  /\ handshakes' = {}
  /\ pc' = IF scan.inner THEN "events" ELSE "loop"
  /\ scan' = NoScan
  /\ UNCHANGED <<config, phase, ring, lost, faults, batch>>

\* The end of run(): a stop request or the deadline.
Stop ==
  /\ pc = "loop"
  /\ \E late \in SUBSET (ses.sessions \cup handshakes) :
       LET drained == drain_tls_sessions(ses, late)
           first == dispatch_completed(drained, drained.pending)
           second == correlate_tls_sessions(first)
           last == dispatch_completed(second, second.pending)
       IN  ses' = [last EXCEPT !.T = finish_observation(@, Polling)]
  /\ handshakes' = {}
  /\ pc' = "stopped"
  /\ UNCHANGED <<config, phase, ring, lost, faults, batch, candidates, scan>>

-----------------------------------------------------------------------------
Run ==
  \/ Poll \/ HandleEvent \/ EndEvents \/ BeginSample \/ EndSample
  \/ \E s \in Sockets : SeeSocket(s)
  \/ \E key \in DOMAIN candidates : DropCandidate(key)

Host == \E s \in Sockets : Open(s) \/ Handshake(s) \/ Close(s) \/ Vanish(s)

Next == Run \/ Stop \/ Host

\* Time has passed since the last round: a sample is due, and so is every report.
TimePasses ==
  /\ \/ EndEvents /\ (ses'.active # {} => pc' = "sample")
     \/ Polling /\ EndSample
  /\ ses'.pending = {}

\* The loop goes on, time passes in it, and closed sockets leave the kernel.
Fairness ==
  /\ WF_vars(Run)
  /\ SF_vars(TimePasses)
  /\ \A s \in Sockets : SF_vars(Vanish(s))

Spec == Init /\ [][Next]_vars /\ Fairness

-----------------------------------------------------------------------------
Rows == DOMAIN ses.T.rows
Tracked == {ses.T.conns[i].id : i \in DOMAIN ses.T.conns}

\* Types.
TypeOK ==
  /\ pc \in {"loop", "events", "sample", "snapshot", "stopped"}
  /\ phase \in [Sockets -> {"none", "open", "tail", "gone"}]
  /\ faults \in 0 .. MaxFaults /\ lost \in BOOLEAN
  /\ \A i \in DOMAIN ses.T.conns :
       /\ ses.T.conns[i].origin \in Origins
       /\ ses.T.conns[i].misses \in 0 .. reconciliation_miss_limit
  /\ \A n \in Rows :
       /\ ses.T.rows[n].state \in RowStates
       /\ ses.T.rows[n].direction \in {"UNKNOWN", "INBOUND", "OUTBOUND"}
       /\ ses.T.rows[n].about \subseteq Sockets /\ ses.T.rows[n].about # {}
  /\ ses.pending \cup ses.dispatched \cup ses.active \subseteq Rows
  /\ \A key \in DOMAIN candidates : candidates[key] \in Sockets

\* The tracker's entries, its tuple index, the scheduler and the history agree: an
\* entry is indexed and scheduled for as long as its row has not ended, whatever its
\* identity was changed to, so that memory is bounded by the sockets that are active.
HistoryAgrees ==
  /\ DOMAIN ses.T.index = DOMAIN ses.T.conns
  /\ \A i, j \in DOMAIN ses.T.conns : ses.T.conns[i].id = ses.T.conns[j].id => i = j
  /\ ses.active = Tracked
  /\ ses.active = {n \in Rows : ses.T.rows[n].state \notin Ended} \/ pc = "stopped"
  /\ DOMAIN ses.requests \subseteq ses.active

\* No ended connection is forgotten, reported early, or reported again without new
\* evidence: it waits to be reported or it was, all of the TLS evidence was reported
\* when nothing waits, and no report said what an earlier one had said.
CompletionAccounted ==
  /\ pc # "stopped" => Rows \ Tracked = ses.pending \cup ses.dispatched
  /\ ses.pending \cap ses.dispatched = {}
  /\ \A n \in Rows : n \in ses.dispatched <=> ses.T.rows[n].tls \in ses.T.rows[n].told
  /\ \A n \in Rows : ~ses.T.rows[n].repeated
  /\ pc = "stopped" => ses.pending = {}

\* The sockets whose tuple no other socket has, in either direction.
Alone ==
  {s \in Sockets : \A t \in Sockets \ {s} : TupleOf[t] \notin {TupleOf[s], Reverse(TupleOf[s])}}

\* Lifecycle events and snapshots of a socket refer to one record, in whatever order
\* and however late observe_lifecycle and observe_socket are told of them.
OneLogicalConnection ==
  \A s \in Alone :
    \A m, n \in Rows : s \in ses.T.rows[m].about \cap ses.T.rows[n].about => m = n

\* They do for as long as the lifecycle observer has lost no event, but for records of
\* preexisting sockets that end_snapshot has given up: the samples between the events of
\* one poll may miss a socket three times before its first event is read.
OneRecord ==
  LET Kept(s) == {n \in Rows : /\ s \in ses.T.rows[n].about
                               /\ ses.T.rows[n].state # "PREEXISTING_DISAPPEARED"}
  IN  ~lost => \A s \in Alone : \A m, n \in Kept(s) : m = n

\* What a record says is about its own socket: samples and events, the cookie, the
\* direction, the relation of the route and the TLS sessions.
EvidenceBelongs ==
  \A n \in Rows :
    LET row == ses.T.rows[n]
    IN  row.socket \in Alone =>
          /\ row.about = {row.socket}
          /\ row.cookie \in {NoSocket, row.socket}
          /\ row.direction \in {"UNKNOWN", DirectionOf(row.socket)}
          /\ row.route \in {"none", "UNKNOWN", row.direction}
          /\ row.tls \subseteq {row.socket}

\* Each socket has one record, which speaks of it alone: OneRecord and EvidenceBelongs.
RecordIsTheSockets == OneRecord /\ EvidenceBelongs

\* A record that has ended keeps its state, its cookie and its direction, and a
\* direction that is known is never replaced.
EndedForGood ==
  [][\A n \in Rows :
       LET row == ses.T.rows[n]
           next == ses'.T.rows[n]
       IN  /\ row.state \in Ended => /\ next.state = row.state
                                     /\ next.cookie = row.cookie
                                     /\ next.direction = row.direction
           /\ row.direction # "UNKNOWN" => next.direction = row.direction]_vars

\* Every record of a socket that is gone is ended and reported in the end, also when
\* the event of its close was lost, unless the session stops before that.
ClosedIsReported ==
  \A s \in Sockets :
    phase[s] = "gone" ~>
      \/ pc = "stopped"
      \/ \A n \in Rows : ses.T.rows[n].socket = s => n \in ses.dispatched
===============================================================================
