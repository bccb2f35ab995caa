---- MODULE ProcessFindings ----
(***************************************************************************)
(* From a process on the host to a finding the coordinator has              *)
(* acknowledged: the two platforms' process sensors and start-up snapshots, *)
(* ProcessFindingRuntime (src/core/process_finding_runtime.cpp) over the    *)
(* graph and the engine, ProcessFindingStore's two tables, the pruning of   *)
(* them, and report_pending.                                                *)
(*                                                                          *)
(* Linux: eBPF programs write exec and exit records, with the exact start   *)
(* times of the process and its parent, into a ring that counts what it     *)
(* cannot hold; /proc, which the snapshot reads, has start times in clock   *)
(* ticks.  Windows: ETW records wait in the trace until the consumer thread *)
(* opens the process *then* to learn its creation time, and puts the event  *)
(* in a queue whose oldest entry makes room.                                *)
(*                                                                          *)
(* What the same runtime stores and reports about executed files is in      *)
(* ArtifactEvidence.                                                        *)
(***************************************************************************)
EXTENDS ProcessGraph

CONSTANTS
  Pids,          \* pids processes are given
  MaxProcs,      \* process instances in a behaviour
  QueueBound,    \* ring buffer / kMaxQueuedEvents
  Tick,          \* clock units in a clock tick of /proc/<pid>/stat
  MaxClock,      \* two clock units for each thing that happens on the host
  MaxExtras      \* per platform: restarts, prunes, submissions, manual runs, lost buffers

VARIABLES
  platform,      \* "linux" or "windows"
  clock,
  procs,         \* process instances: [pid, start, parent, image, ended]
  agent,         \* "down", "attached" (sensor on, no snapshot yet), "up"
  since,         \* time of the last snapshot
  trace,         \* Windows: ETW records not consumed yet
  known,         \* Windows: active_process_keys_, pid -> [key, start]
  queue,         \* events poll() will return
  dropped,       \* the sensor's drop counter
  graph, engine, evicted,
  rows,          \* process_instances_ms5: key -> has it exited
  found,         \* process_findings_ms5: key -> [evidence, state]
  sending,       \* the finding report_pending is submitting
  acked,         \* history: what the coordinator acknowledged
  raced,         \* history: findings another process wrote during their submission
  confused,      \* history: instances misidentified when their record was consumed
  aborted,       \* history: a statement failed and the rest of its batch was lost
  pruned,        \* history: rows were pruned
  extras

sensor == <<trace, known, queue, dropped>>
memory == <<graph, engine, evicted, aborted>>
store  == <<rows, found>>
report == <<sending, acked, raced>>
bounds == <<pruned, extras>>
vars == <<platform, clock, procs, agent, since, sensor, memory, store, report, confused, bounds>>

Nobody == [key |-> <<>>, evidence |-> <<>>]
Live == {i \in DOMAIN procs : procs[i].ended = 0}
\* The instance a pid belongs to now, 0 for none.
Owner(pid) == IF \E i \in Live : procs[i].pid = pid
              THEN CHOOSE i \in Live : procs[i].pid = pid ELSE 0
\* A process starts with a parent, 0 for one outside the model; on Linux it is
\* init's, also outside, once that has ended.
RealParent(ps, i) ==
  LET p == ps[i].parent IN IF p # 0 /\ ps[IF p = 0 THEN i ELSE p].ended # 0 THEN 0 ELSE p
Extra == extras < MaxExtras[platform] /\ extras' = extras + 1

Init ==
  /\ platform \in {"linux", "windows"}
  /\ clock = 2
  /\ procs = <<[pid |-> 1, start |-> 0, parent |-> 0, image |-> "shell", ended |-> 0]>>
  /\ agent = "down" /\ since = 0
  /\ trace = <<>> /\ known = <<>> /\ queue = <<>> /\ dropped = 0
  /\ graph = EmptyGraph /\ engine = EmptyEngine /\ evicted = 0 /\ aborted = FALSE
  /\ rows = <<>> /\ found = <<>>
  /\ sending = Nobody /\ acked = {} /\ raced = {} /\ confused = {}
  /\ pruned = FALSE /\ extras = 0

----
(***************************************************************************)
(* The host and what its kernel records                                     *)
(***************************************************************************)
\* reserve_event: no room in the ring is a counted loss.
Reserve(e) ==
  IF Len(queue) < QueueBound THEN queue' = Append(queue, e) /\ UNCHANGED dropped
  ELSE dropped' = dropped + 1 /\ UNCHANGED queue

StartKey(i) == Key(procs'[i].pid, "start", procs'[i].start)
\* tracepoint__sched_process_exec, process_exec_decoder and the loader's poll.
ExecRecord(i, ts) ==
  LET p == RealParent(procs', i) IN
  [type |-> "start", ts |-> ts, pid |-> procs'[i].pid, key |-> StartKey(i),
   start |-> procs'[i].start, image |-> procs'[i].image,
   parent |-> IF p = 0 THEN NoParent
              ELSE [pid |-> procs'[p].pid, key |-> StartKey(p), start |-> procs'[p].start]]
\* tracepoint__sched_process_exit, of the thread-group leader.
ExitRecord(i, ts) ==
  [type |-> "exit", ts |-> ts, pid |-> procs'[i].pid, key |-> StartKey(i),
   start |-> procs'[i].start, image |-> procs'[i].image, parent |-> NoParent]

\* What an attached sensor is told of an instance.
Record(type, i, ts) ==
  IF agent = "down" THEN UNCHANGED sensor
  ELSE IF platform = "linux"
  THEN /\ Reserve(IF type = "start" THEN ExecRecord(i, ts) ELSE ExitRecord(i, ts))
       /\ UNCHANGED <<trace, known>>
  ELSE /\ trace' = Append(trace, [type |-> type, i |-> i, ts |-> ts])
       /\ UNCHANGED <<known, queue, dropped>>

Spawn(pid, p, image) ==
  /\ clock < MaxClock /\ Len(procs) < MaxProcs /\ Owner(pid) = 0 /\ p \in Live
  /\ procs' = Append(procs, [pid |-> pid, start |-> clock, parent |-> p,
                             image |-> image, ended |-> 0])
  /\ clock' = clock + 2
  /\ Record("start", Len(procs'), clock + 1)
  /\ UNCHANGED <<platform, agent, since, memory, store, report, confused, bounds>>

Terminate(i) ==
  /\ clock < MaxClock /\ i \in Live
  /\ procs' = [procs EXCEPT ![i].ended = clock]
  /\ clock' = clock + 2
  /\ Record("exit", i, clock)
  /\ UNCHANGED <<platform, agent, since, memory, store, report, confused, bounds>>

\* Linux: a process runs another executable and stays the process it is.
Reexec(i) ==
  /\ clock < MaxClock /\ platform = "linux" /\ i \in Live /\ procs[i].image = "shell"
  /\ procs' = [procs EXCEPT ![i].image = "tmp"]
  /\ clock' = clock + 2
  /\ Record("start", i, clock)
  /\ UNCHANGED <<platform, agent, since, memory, store, report, confused, bounds>>

----
(***************************************************************************)
(* The Windows consumer thread (process_exec_observer.cpp)                  *)
(***************************************************************************)
Native(i) == [key |-> Key(procs[i].pid, "native", procs[i].start), start |-> procs[i].start]
Unique(i) == [key |-> Key(procs[i].pid, "unique", i), start |-> 0]

\* process_creation_key: OpenProcess answers for whoever has the pid now.
Identity(i) == LET o == Owner(procs[i].pid) IN IF o # 0 THEN Native(o) ELSE Unique(i)
ParentCandidate(p) ==
  LET pid == procs[p].pid
      o == Owner(pid)
      id == IF o # 0 THEN Native(o) ELSE known[pid] IN
  IF o = 0 /\ pid \notin DOMAIN known THEN NoParent
  ELSE [pid |-> pid, key |-> id.key, start |-> id.start]
ParentWithoutStart(p, childStart) == [ParentCandidate(p) EXCEPT !.start = 0]
ParentIdentity(p, childStart) ==
  IF ParentCandidate(p).start > childStart THEN NoParent ELSE ParentCandidate(p)

StartEvent(r) ==
  LET i == r.i
      id == Identity(i)
      o == Owner(procs[i].pid)
      p == procs[i].parent IN
  [type |-> "start", ts |-> r.ts, pid |-> procs[i].pid, key |-> id.key, start |-> id.start,
   image |-> procs[IF o = 0 THEN i ELSE o].image,
   parent |-> IF p = 0 THEN NoParent
              ELSE ParentIdentity(p, IF id.start # 0 THEN id.start ELSE r.ts)]
ExitEvent(r) ==
  LET pid == procs[r.i].pid
      id == IF pid \in DOMAIN known THEN known[pid] ELSE Unique(r.i) IN
  [type |-> "exit", ts |-> r.ts, pid |-> pid, key |-> id.key, start |-> id.start,
   image |-> "-", parent |-> NoParent]

Remember(r) ==
  LET pid == procs[r.i].pid IN
  IF r.type = "start" THEN (pid :> Identity(r.i)) @@ known
  ELSE [q \in DOMAIN known \ {pid} |-> known[q]]

\* The pid has a new owner, or the record is a rundown's, with the time of the
\* rundown, and the process can no longer be asked when it started.
Misleading(r) ==
  LET o == Owner(procs[r.i].pid) IN
  o \notin {0, r.i} \/ (o = 0 /\ r.ts # procs[r.i].start + 1)
Enqueue(e) ==
  IF Len(queue) < QueueBound THEN queue' = Append(queue, e) /\ UNCHANGED dropped
  ELSE queue' = Append(Tail(queue), e) /\ dropped' = dropped + 1
Consume ==
  /\ trace # <<>>
  /\ LET r == Head(trace)
         e == IF r.type = "start" THEN StartEvent(r) ELSE ExitEvent(r) IN
     /\ trace' = Tail(trace)
     /\ known' = Remember(r)
     /\ Enqueue(e)
     /\ confused' = IF r.type = "start" /\ Misleading(r) THEN confused \cup {r.i} ELSE confused
  /\ UNCHANGED <<platform, clock, procs, agent, since, memory, store, report, bounds>>

\* EventsLost: the session overwrote a buffer before it was consumed.
LoseTrace ==
  /\ trace # <<>> /\ Extra
  /\ trace' = Tail(trace) /\ dropped' = dropped + 1
  /\ UNCHANGED <<platform, clock, procs, agent, since, known, queue, memory, store, report,
                 confused, pruned>>

----
(***************************************************************************)
(* Start-up: the sensor first, then a snapshot of what already runs         *)
(***************************************************************************)
\* initialize: the Linux programs are attached and see what happens from now on.
LinuxAttach == trace' = <<>>
\* An ETW session opens with a rundown of the running processes.
WindowsAttach == trace' = SetToSeq({[type |-> "start", i |-> i, ts |-> clock] : i \in Live})
Attach ==
  /\ agent = "down" /\ agent' = "attached"
  /\ IF platform = "linux" THEN LinuxAttach ELSE WindowsAttach
  /\ known' = <<>> /\ queue' = <<>> /\ dropped' = 0
  /\ UNCHANGED <<platform, clock, procs, since, memory, store, report, confused, bounds>>

\* ticks_to_ns of the start time in /proc/<pid>/stat.
InTicks(t) == t - (t % Tick)
\* snapshot_processes, Linux; the parent's stat may be gone when it is read.
LinuxEntry(i, readable) ==
  LET p == RealParent(procs, i)
      start == InTicks(procs[i].start) IN
  [type |-> "start", ts |-> start, pid |-> procs[i].pid,
   key |-> Key(procs[i].pid, "start", start), start |-> start, image |-> procs[i].image,
   parent |-> IF p = 0 THEN NoParent
              ELSE IF ~readable THEN [pid |-> procs[p].pid, key |-> NoKey, start |-> 0]
              ELSE [pid |-> procs[p].pid, start |-> InTicks(procs[p].start),
                    key |-> Key(procs[p].pid, "start", InTicks(procs[p].start))]]
\* snapshot_processes, Windows.
WindowsEntry(i) ==
  LET p == procs[i].parent
      o == IF p = 0 THEN 0 ELSE Owner(procs[p].pid) IN
  [type |-> "start", ts |-> procs[i].start, pid |-> procs[i].pid, key |-> Native(i).key,
   start |-> procs[i].start, image |-> procs[i].image,
   parent |-> IF o = 0 \/ (o # 0 /\ procs[IF o = 0 THEN 1 ELSE o].start > procs[i].start)
              THEN NoParent
              ELSE [pid |-> procs[o].pid, key |-> Native(o).key, start |-> Native(o).start]]
\* In pid order.
Snapshot(readable) ==
  LET order == SetToSortSeq(Live, LAMBDA i, j : procs[i].pid < procs[j].pid) IN
  [n \in DOMAIN order |->
     IF platform = "linux" THEN LinuxEntry(order[n], readable) ELSE WindowsEntry(order[n])]

----
(***************************************************************************)
(* ProcessFindingStore                                                      *)
(***************************************************************************)
FindingKey(f) == <<f.rule, f.process, f.parent>>

\* upsert_process of the node k of g.
UpsertProcess(db, g, k) ==
  [db EXCEPT !.rows = (k :> (g.nodes[k].exited # 0)) @@ @]

\* upsert_finding: other evidence makes a finding PENDING again.  The row of its
\* process must exist.
UpsertStale(db, f) ==
  IF f.process \notin DOMAIN db.rows THEN [db EXCEPT !.ok = FALSE]
  ELSE LET k == FindingKey(f)
           state == IF k \in DOMAIN db.found THEN db.found[k].state ELSE "PENDING"
       IN [db EXCEPT !.found = (k :> [evidence |-> f.evidence, state |-> state]) @@ @]
UpsertFinding(db, f) ==
  IF f.process \notin DOMAIN db.rows THEN [db EXCEPT !.ok = FALSE]
  ELSE LET k == FindingKey(f)
           state == IF k \in DOMAIN db.found /\ db.found[k].evidence = f.evidence
                    THEN db.found[k].state ELSE "PENDING"
       IN [db EXCEPT !.found = (k :> [evidence |-> f.evidence, state |-> state]) @@ @]

Db == [rows |-> rows, found |-> found, ok |-> TRUE]

PersistFindings(db, fs) == FoldSet(LAMBDA f, d : UpsertFinding(d, f), db, Kept(fs))

----
(***************************************************************************)
(* ProcessFindingRuntime                                                    *)
(***************************************************************************)
\* bootstrap of a graph g, returning the graph and the database it leaves.
Bootstrapped(g0, snapshot) ==
  LET g == FoldLeft(LAMBDA a, e : Observe(a, e).g, g0, snapshot)
      db == FoldSet(LAMBDA k, d : UpsertProcess(d, g, k), Db, DOMAIN g.nodes)
  IN [g |-> g, db |-> PersistFindings(db, EvaluateSnapshot(g))]

Bootstrap(readable) ==
  /\ agent = "attached" /\ agent' = "up" /\ since' = clock
  /\ LET b == Bootstrapped(EmptyGraph, Snapshot(readable)) IN
     /\ graph' = b.g /\ engine' = EmptyEngine
     /\ evicted' = Len(Snapshot(readable)) - Cardinality(DOMAIN b.g.nodes)
     /\ rows' = b.db.rows /\ found' = b.db.found
  /\ UNCHANGED <<platform, clock, procs, sensor, aborted, report, confused, bounds>>

\* One event of observe(); after a failed statement the rest is not looked at.
ObserveEvent(s, e) ==
  IF ~s.db.ok THEN s
  ELSE LET o == Observe(s.g, e)
           k == Subject(s.g, e)
           n == EngineObserve(s.en, o.g, k, e)
       IN IF ~o.ok THEN [s EXCEPT !.g = o.g]
          ELSE [g |-> o.g, en |-> n.en,
                evicted |-> s.evicted + Cardinality(DOMAIN s.g.nodes \ DOMAIN o.g.nodes),
                db |-> PersistFindings(UpsertProcess(s.db, o.g, k), n.found)]

\* drain_process_graph: poll and observe; an exception is logged and swallowed.
Drain ==
  /\ agent = "up" /\ sending = Nobody /\ queue # <<>>
  /\ LET s == FoldLeft(ObserveEvent,
                       [g |-> graph, en |-> engine, evicted |-> evicted, db |-> Db], queue) IN
     /\ graph' = s.g /\ engine' = s.en /\ evicted' = s.evicted
     /\ rows' = s.db.rows /\ found' = s.db.found
     /\ aborted' = (aborted \/ ~s.db.ok)
  /\ queue' = <<>>
  /\ UNCHANGED <<platform, clock, procs, agent, since, trace, known, dropped, report,
                 confused, bounds>>

\* The service ends, or is killed, and its memory and its sensor with it.
Stop ==
  /\ agent # "down" /\ agent' = "down" /\ Extra
  /\ graph' = EmptyGraph /\ engine' = EmptyEngine /\ evicted' = 0 /\ aborted' = FALSE
  /\ trace' = <<>> /\ known' = <<>> /\ queue' = <<>> /\ dropped' = 0
  /\ sending' = Nobody
  /\ UNCHANGED <<platform, clock, procs, since, store, acked, raced, confused, pruned>>

\* pending_for_report; the 60 s between attempts only delay one.
PendingForReport == {k \in DOMAIN found : found[k].state = "PENDING"}
\* announcement
Announcement(k) == [key |-> k, evidence |-> found[k].evidence]

\* report_pending: a PENDING finding is submitted as it was read...
Submit(k) ==
  /\ agent = "up" /\ sending = Nobody
  /\ Extra
  /\ sending' = Announcement(k)
  /\ UNCHANGED <<platform, clock, procs, agent, since, sensor, memory, store, acked, raced,
                 confused, pruned>>
\* ... stays PENDING when no ACK comes ...
Unacknowledged ==
  /\ sending # Nobody /\ sending' = Nobody
  /\ UNCHANGED <<platform, clock, procs, agent, since, sensor, memory, store, acked, raced,
                 confused, bounds>>
\* ... and is REPORTED, whatever it says by then, when one does (mark_reported).
Acknowledged ==
  /\ sending # Nobody /\ sending' = Nobody
  /\ acked' = acked \cup {sending}
  /\ found' = [k \in DOMAIN found |->
                 IF k = sending.key THEN [found[k] EXCEPT !.state = "REPORTED"] ELSE found[k]]
  /\ UNCHANGED <<platform, clock, procs, agent, since, sensor, memory, rows, raced, confused,
                 bounds>>

\* `neta observe` beside the service: its own graph, the same database, no reports.
ManualObserve ==
  /\ Extra
  /\ LET b == Bootstrapped(EmptyGraph, Snapshot(TRUE)) IN
     /\ rows' = b.db.rows /\ found' = b.db.found
     /\ raced' = IF sending # Nobody /\ sending.key \in DOMAIN b.db.found
                 THEN raced \cup {sending.key} ELSE raced
  /\ UNCHANGED <<platform, clock, procs, agent, since, sensor, memory, sending, acked,
                 confused, pruned>>

----
(***************************************************************************)
(* prune_to_budget, in the session's own thread or a `neta storage` process *)
(***************************************************************************)
\* prune_process_orphans
WithoutOrphans(rs, fs) ==
  [k \in {r \in DOMAIN rs : rs[r] => \E f \in DOMAIN fs : f[2] = r} |-> rs[k]]

\* prune_old_process_findings: the reported ones, and as a last resort any.
FindingsLeft(depth) ==
  [k \in {f \in DOMAIN found : depth = 0 \/ (depth = 1 /\ found[f].state = "PENDING")} |-> found[k]]
Prune(depth) ==
  /\ Extra /\ pruned' = TRUE
  /\ found' = FindingsLeft(depth)
  /\ rows' = WithoutOrphans(rows, found')
  /\ UNCHANGED <<platform, clock, procs, agent, since, sensor, memory, report, confused>>

Next ==
  \/ \E pid \in Pids, p \in DOMAIN procs, image \in Images : Spawn(pid, p, image)
  \/ \E i \in DOMAIN procs : Terminate(i) \/ Reexec(i)
  \/ Consume \/ LoseTrace \/ Attach \/ Drain \/ Stop
  \/ \E readable \in BOOLEAN : (platform = "linux" \/ readable) /\ Bootstrap(readable)
  \/ ManualObserve
  \/ \E k \in PendingForReport : Submit(k)
  \/ Unacknowledged \/ Acknowledged
  \/ \E depth \in 0..2 : Prune(depth)

Spec == Init /\ [][Next]_vars

----
Names(k, i) ==
  /\ k.pid = procs[i].pid
  /\ k.id = IF k.kind = "unique" THEN i
            ELSE IF k.kind = "native" THEN procs[i].start ELSE k.id
  /\ k.kind = "start" => k.id \in {procs[i].start, InTicks(procs[i].start)}

\* ParentOf, ParentIdentity, snapshot_processes: a parent link names a process that
\* was the parent.  Losses that the sensor counted and, on Windows, a process that
\* was gone or replaced before its record was consumed are the only excuses.
LineageIsTrue ==
  dropped = 0 /\ confused = {} =>
    \A k \in DOMAIN graph.nodes :
      LET p == graph.nodes[k].parent IN
      p # NoKey => \E i, j \in DOMAIN procs :
                     Names(k, i) /\ Names(p, j) /\ procs[i].parent = j

\* mark_reported after upsert_finding: evidence stored as REPORTED is evidence the
\* coordinator acknowledged.  The row is not compared with what was sent, so another
\* process that writes it during the submission is an excuse.
ReportedIsAcked ==
  \A k \in DOMAIN found :
    found[k].state = "REPORTED" /\ k \notin raced =>
      Announcement(k) \in acked

\* MarkExited, ExitRecord, ExitEvent: once its events are handled, a process that
\* started after the snapshot and has ended is not active in the graph.
EndedIsInactive ==
  agent = "up" /\ trace = <<>> /\ queue = <<>> /\ dropped = 0 /\ ~aborted /\ confused = {} =>
    \A i \in DOMAIN procs, k \in graph.active :
      procs[i].start >= since /\ procs[i].ended # 0 => ~Names(k, i)

\* The graph the rules are evaluated on is the host's: LineageIsTrue and
\* EndedIsInactive.
GraphIsTrue == LineageIsTrue /\ EndedIsInactive
====
