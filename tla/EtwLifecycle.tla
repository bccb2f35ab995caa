---- MODULE EtwLifecycle ----
(***************************************************************************)
(* The Windows connection sensor: kernel trace records of processes and of  *)
(* TCP connections, consumed in order on one thread, become connect, accept *)
(* and close events.  A disconnect record is given the tuple and the owner  *)
(* remembered from the connection's first record.  What the host does, and  *)
(* which records the trace session loses, is the environment's.             *)
(***************************************************************************)
EXTENDS Naturals, Sequences, FiniteSets

CONSTANTS Pids,          \* process ids, given out again when a process has ended
          MaxActive,     \* kMaxActiveConnections
          MaxCached,     \* kMaxProcessIdentityCache
          Hosts          \* behaviours' hosts: bounds on processes started, connections opened, kernel
                         \* ids in use, records lost and records the sensor is behind; processes that
                         \* cannot be opened; whether process records bear a unique key; and
                         \* khost.queuedEvents, as queued

VARIABLES
  host,    \* the host of this behaviour
  alive,   \* pid -> the process that has it (processes are numbered), 0 when free
  open,    \* open connections: [id, pid, connid]
  born,    \* processes started so far
  opened,  \* connections opened so far; a connection's id is its number and stands for its tuple
  trace,   \* records of the session not yet consumed
  lost,    \* EventsLost of the session
  cache,   \* process_identity_cache_: pid -> no entry, or [key, start]
  active,  \* active_connections_: a set of [pid, connid, tuple, start, generation]
  order,   \* active_order_: [pid, connid, generation], oldest first
  generation, \* next_generation_
  local,   \* locally_dropped_
  events,  \* queue_
  polled   \* the events poll has returned

vars == <<host, alive, open, born, opened, trace, lost, cache, active, order, generation, local, events, polled>>
world == <<host, alive, open, born, opened, lost>>

Init ==
  /\ host \in Hosts
  /\ alive = [p \in Pids |-> 0] /\ open = {}
  /\ born = 0 /\ opened = 0 /\ trace = <<>> /\ lost = 0
  /\ cache = [p \in Pids |-> <<>>]
  /\ active = {} /\ order = <<>> /\ generation = 0
  /\ local = 0 /\ events = <<>> /\ polled = {}

\* The session takes a record of the kernel's, or has no buffer for it.
Log(record) ==
  /\ UNCHANGED host
  /\ \/ Len(trace) < host.lag /\ trace' = Append(trace, record) /\ UNCHANGED lost
     \/ lost < host.lost /\ lost' = lost + 1 /\ UNCHANGED trace

sensor == <<cache, active, order, generation, local, events, polled>>

Starts(p) ==
  /\ alive[p] = 0 /\ born < host.processes
  /\ born' = born + 1
  /\ alive' = [alive EXCEPT ![p] = born + 1]
  /\ Log([kind |-> "start", pid |-> p, key |-> born + 1])
  /\ UNCHANGED <<open, opened, sensor>>

\* The connections of a process may outlive it: the kernel finishes them.
Ends(p) ==
  /\ alive[p] # 0
  /\ alive' = [alive EXCEPT ![p] = 0]
  /\ Log([kind |-> "end", pid |-> p, key |-> alive[p]])
  /\ UNCHANGED <<open, born, opened, sensor>>

Opens(p, c) ==
  /\ alive[p] # 0 /\ opened < host.opened
  /\ \A k \in open : k.connid # c
  /\ opened' = opened + 1
  /\ open' = open \cup {[id |-> opened + 1, pid |-> p, connid |-> c]}
  /\ Log([kind |-> "connect", pid |-> p, connid |-> c, tuple |-> opened + 1])
  /\ UNCHANGED <<alive, born, sensor>>

Closes(k) ==
  /\ open' = open \ {k}
  /\ Log([kind |-> "disconnect", pid |-> k.pid, connid |-> k.connid, tuple |-> k.id])
  /\ UNCHANGED <<alive, born, opened, sensor>>

-----------------------------------------------------------------------------
\* process_start_identity: of whichever process has the pid now; none (0) when
\* there is none, or it cannot be opened.
StartIdentity(p) == IF alive[p] \in host.opaque THEN 0 ELSE alive[p]

\* process_event_unique_key: none (0) when the record bears no such property.
UniqueKey(record) == IF host.keyed THEN record.key ELSE 0

\* consume_process_event, a start: the identity is looked up when the record is
\* consumed.  A full cache gives up any entry.
ConsumeStart(record) ==
  /\ LET holding == {p \in Pids : cache[p] # <<>>}
         crowded == Cardinality(holding) >= MaxCached /\ record.pid \notin holding
         identity == [key |-> UniqueKey(record), start |-> StartIdentity(record.pid)]
     IN \E victims \in SUBSET holding :
          /\ Cardinality(victims) = (IF crowded THEN 1 ELSE 0)
          /\ cache' = [p \in Pids |-> IF p = record.pid THEN <<identity>>
                                      ELSE IF p \in victims THEN <<>> ELSE cache[p]]
  /\ UNCHANGED <<active, order, generation, local, events>>

\* consume_process_event, an end: the entry goes unless it is known to be of
\* another process.
ConsumeEnd(record) ==
  /\ LET p == record.pid
         key == UniqueKey(record)
         ours == cache[p] # <<>> /\ (key = 0 \/ cache[p][1].key \in {0, key})
     IN cache' = IF ours THEN [cache EXCEPT ![p] = <<>>] ELSE cache
  /\ UNCHANGED <<active, order, generation, local, events>>

\* The owner a connection record is given: the cached one, or a lookup.
Owner(p) == IF cache[p] # <<>> THEN cache[p][1].start ELSE StartIdentity(p)

\* The connection that an entry of active_order_ is still about.
Current(entry) ==
  {a \in active : <<a.pid, a.connid, a.generation>> = <<entry.pid, entry.connid, entry.generation>>}

\* evict_active_connection_if_needed: entries of connections no longer tracked,
\* or tracked anew, are skipped; the first that is current goes.
Evicted ==
  LET live == {i \in DOMAIN order : Current(order[i]) # {}}
      first == CHOOSE i \in live : \A j \in live : i <= j
  IN IF Cardinality(active) < MaxActive \/ order = <<>> THEN [gone |-> {}, order |-> order]
     ELSE IF live = {} THEN [gone |-> {}, order |-> <<>>]
     ELSE [gone |-> Current(order[first]), order |-> SubSeq(order, first + 1, Len(order))]

\* The end of consume: a full queue gives up its oldest event, counted.
Queued(event, dropped) ==
  /\ events' = Append(IF Len(events) >= host.queued THEN Tail(events) ELSE events, event)
  /\ local' = IF Len(events) >= host.queued THEN dropped + 1 ELSE dropped

\* consume, a connect or accept record: the connection is remembered under its
\* process and kernel id, replacing what was there.
ConsumeOpen(record) ==
  LET start == Owner(record.pid)
      evicted == Evicted
      others == {a \in active \ evicted.gone : a.pid # record.pid \/ a.connid # record.connid}
  IN /\ generation' = generation + 1
     /\ active' = others \cup {[pid |-> record.pid, connid |-> record.connid, tuple |-> record.tuple,
                                start |-> start, generation |-> generation + 1]}
     /\ order' = Append(evicted.order,
                        [pid |-> record.pid, connid |-> record.connid, generation |-> generation + 1])
     /\ Queued([type |-> "open", of |-> record.tuple, tuple |-> record.tuple, start |-> start],
               local + Cardinality(evicted.gone))
     /\ UNCHANGED cache

\* The connection a disconnect record is taken to end.
Ending(record) == {a \in active : a.pid = record.pid /\ a.connid = record.connid}

\* As ConsumeClose below, but the owner is looked up afresh.
ConsumeCloseAfresh(record) ==
  LET start == Owner(record.pid)
      ending == Ending(record)
  IN /\ active' = active \ ending
     /\ \E tuple \in IF ending = {} THEN {record.tuple} ELSE {a.tuple : a \in ending} :
          Queued([type |-> "close", of |-> record.tuple, tuple |-> tuple, start |-> start], local)
     /\ UNCHANGED <<cache, order, generation>>

\* consume, a disconnect record: tuple and owner are the remembered ones, or,
\* when there are none, the record's own and a lookup.
ConsumeClose(record) ==
  LET start == Owner(record.pid)
      ending == Ending(record)
  IN /\ active' = active \ ending
     /\ \E known \in IF ending = {} THEN {[tuple |-> record.tuple, start |-> start]}
                     ELSE {[tuple |-> a.tuple, start |-> a.start] : a \in ending} :
          Queued([type |-> "close", of |-> record.tuple, tuple |-> known.tuple, start |-> known.start], local)
     /\ UNCHANGED <<cache, order, generation>>

\* diagnose_decode_failure: a TCP record that cannot be decoded is counted.
Undecoded == local' = local + 1 /\ UNCHANGED <<cache, active, order, generation, events>>

\* consume, on the session's thread, one record at a time.
Consume ==
  /\ trace # <<>>
  /\ trace' = Tail(trace)
  /\ LET record == Head(trace)
     IN \/ record.kind = "start" /\ ConsumeStart(record)
        \/ record.kind = "end" /\ ConsumeEnd(record)
        \/ record.kind = "connect" /\ ConsumeOpen(record)
        \/ record.kind = "disconnect" /\ ConsumeClose(record)
        \/ record.kind \in {"connect", "disconnect"} /\ lost + local < host.lost /\ Undecoded
  /\ UNCHANGED <<world, polled>>

\* poll hands over all that is queued.
Poll ==
  /\ events # <<>>
  /\ events' = <<>> /\ polled' = polled \cup {events[i] : i \in DOMAIN events}
  /\ UNCHANGED <<world, trace, cache, active, order, generation, local>>

\* health: the session's losses and the sensor's own.
Health == lost + local

Next ==
  \/ \E p \in Pids : Starts(p) \/ Ends(p)
  \/ \E p \in Pids : \E c \in host.connids : Opens(p, c)
  \/ \E k \in open : Closes(k)
  \/ Consume
  \/ Poll

Spec == Init /\ [][Next]_vars

-----------------------------------------------------------------------------
\* consume gives a close the owner and the tuple of its open, though the process
\* may have ended and its pid been given away in between.  Where the two disagree,
\* health is not zero.
CloseAgreesWithOpen ==
  \A e, f \in polled :
    (e.type = "open" /\ f.type = "close" /\ e.of = f.of)
      => (e.tuple = f.tuple /\ e.start = f.start) \/ Health > 0

\* A close that bears another connection's tuple, which consume's lookup by
\* process and kernel id can produce when the id was given out again, takes two
\* losses: one lost or undecodable record never misleads.
OneLossNeverMisleads ==
  \A e \in polled : e.tuple # e.of => Health >= 2

\* What a close says of its connection is true, or health shows why not:
\* CloseAgreesWithOpen and OneLossNeverMisleads.
CloseIsTrue == CloseAgreesWithOpen /\ OneLossNeverMisleads
====
