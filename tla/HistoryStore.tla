---- MODULE HistoryStore ----
(***************************************************************************)
(* The agent's evidence history: one SQLite file written by the observation *)
(* service and, at the same time, by the commands an operator runs beside   *)
(* it (`baseline`, `evidence`/`export`, `storage prune`).  HistoryStore     *)
(* never opens a transaction around several statements, so a step here is   *)
(* one statement and an operation is the sequence of its statements, cut    *)
(* short by a refused one or by the death of its process.                   *)
(*                                                                          *)
(* Row ids come from INTEGER PRIMARY KEY without AUTOINCREMENT: a new row   *)
(* takes one more than the largest id in the table, so ids follow the order *)
(* of insertion, and the id of a deleted row can be given out again.  A row *)
(* therefore also carries the connection it was written about (`owner`),    *)
(* which the program does not store.                                        *)
(***************************************************************************)
EXTENDS Integers, FiniteSets, FiniteSetsExt

CONSTANTS
  Conns,          \* connections the sensors see
  Identities,     \* peer identities an operator can accept for the one target
  MaxId,          \* bound on connection and TLS row ids
  MaxCommands,    \* bound on operator commands
  MaxBytes,       \* the storage cap
  RowBytes,       \* size of a connection row; every other row counts 1
  MaxWal,         \* bytes the write-ahead log may add before a checkpoint
  NormalBatch,    \* connections a prune deletes at a time
  AnomalousBatch

Actors == {"service", "cli"}
Parents == {"host", "network"}
Kinds == {"columns", "name", "session"}
None == 0
Ended == -1       \* tracked: the connection is over and reported

VARIABLES
  db,         \* the tables, see Empty
  tracked,    \* service memory: connection -> row id
  atStart,    \* service memory: the baseline of the target when it started
  op,         \* the statement each process is about to execute
  commands,   \* commands run so far
  lost,       \* what was deleted while a process still held its id
  refused     \* who had a statement refused by a constraint

vars == <<db, tracked, atStart, op, commands, lost, refused>>
memory == <<tracked, atStart, commands, lost, refused>>

Empty ==
  [connections   |-> <<>>,  \* id -> [owner, anomalous], the oldest capture has the least
   children      |-> {},    \* rows that cascade with a connection: [conn, owner]
   processes     |-> {},    \* a row for the process of each connection
   environment   |-> {},    \* "host" (host_identities and host_boots), "network"
   environmentOf |-> {},    \* connection_network_environments: connection ids
   tls           |-> <<>>,  \* tls_observations: id -> the process that wrote it
   tlsOf         |-> <<>>,  \* connection_tls_observations: connection id -> tls id
   verdicts      |-> <<>>,  \* connection id -> [owner, baseline, tls]
   baselines     |-> <<>>]  \* id -> accepted identity (the row's hash)

Idle == [at |-> "idle", c |-> None, id |-> None, value |-> None, todo |-> {}]

Ids == DOMAIN db.connections
OwnerOf(id) == db.connections[id].owner
NextOf(ids) == IF ids = {} THEN 1 ELSE Max(ids) + 1
Live == {c \in Conns : tracked[c] \notin {None, Ended}}

\* A table with one row more or another value in one, and with rows deleted.
With(f, k, value) == [x \in DOMAIN f \cup {k} |-> IF x = k THEN value ELSE f[x]]
Without(f, D) == [k \in DOMAIN f \ D |-> f[k]]

\* baseline_for: the row created last
LatestBaseline ==
  IF DOMAIN db.baselines = {} THEN None ELSE db.baselines[Max(DOMAIN db.baselines)]

\* sqlite_total_size once the log is checkpointed
Size == RowBytes * Cardinality(Ids) + Cardinality(db.children)
        + Cardinality(db.environment) + Cardinality(DOMAIN db.tls)
TargetBytes == MaxBytes - MaxBytes \div 10

\* A new service over a database in which nothing, or one identity, has been
\* accepted before.
Init ==
  /\ \E earlier \in Identities \cup {None} :
       /\ db = [Empty EXCEPT !.baselines = IF earlier = None THEN <<>> ELSE With(<<>>, 1, earlier)]
       /\ atStart = earlier
  /\ tracked = [c \in Conns |-> None]
  /\ op = [a \in Actors |-> Idle]
  /\ commands = 0 /\ lost = {} /\ refused = {}

Goto(a, step) == op' = [op EXCEPT ![a] = step]
Done(a) == Goto(a, Idle)

\* The process is gone: what it had in memory is lost, what it committed
\* stays.  A service that starts reads the target's baseline once; what it
\* then sees of a connection recorded before is a record of its own, that of
\* another member of Conns.
Dies(a) ==
  /\ Done(a)
  /\ IF a = "cli" THEN UNCHANGED <<tracked, atStart>>
     ELSE /\ tracked' = [c \in Conns |-> IF tracked[c] = None THEN None ELSE Ended]
          /\ atStart' = LatestBaseline

\* An exception no caller catches ends the process that made the call.
Refuse(a) == Dies(a) /\ refused' = refused \cup {a} /\ UNCHANGED <<db, commands, lost>>

----
(***************************************************************************)
(* The service's writers.                                                   *)
(***************************************************************************)
\* upsert_process, the first statement of begin_connection.
BeginConnection(c) ==
  /\ op["service"] = Idle /\ tracked[c] = None /\ NextOf(Ids) <= MaxId
  /\ db' = [db EXCEPT !.processes = @ \cup {c}]
  /\ Goto("service", [Idle EXCEPT !.at = "insertConnection", !.c = c])
  /\ UNCHANGED memory

InsertConnection ==
  LET s == op["service"] IN
  /\ s.at = "insertConnection"
  /\ IF s.c \notin db.processes
     THEN Refuse("service")
     ELSE /\ db' = [db EXCEPT !.connections = With(db.connections, NextOf(Ids),
                                                   [owner |-> s.c, anomalous |-> FALSE])]
          /\ tracked' = [tracked EXCEPT ![s.c] = NextOf(Ids)]
          /\ Done("service") /\ UNCHANGED <<atStart, commands, lost, refused>>

\* A row with a cascading foreign key on the connection: the statement is
\* refused when the connection's row is gone.
InsertChild(c, id, step) ==
  IF id \notin Ids
  THEN Refuse("service")
  ELSE /\ db' = [db EXCEPT !.children = @ \cup {[conn |-> id, owner |-> c]}]
       /\ Goto("service", step) /\ UNCHANGED memory

AddTcpSample(c) ==
  op["service"] = Idle /\ c \in Live /\ InsertChild(c, tracked[c], Idle)

\* UPDATE ... WHERE id=?: changes whatever row has that id, or none.
Columns(id, owner) ==
  IF id \in Ids THEN {[conn |-> id, owner |-> owner]} ELSE {}

\* touch_connection, then the lifecycle row of a CONNECT, ACCEPT or CLOSE.
TouchConnection(c) ==
  /\ op["service"] = Idle /\ c \in Live
  /\ db' = [db EXCEPT !.children = @ \cup Columns(tracked[c], c)]
  /\ Goto("service", [Idle EXCEPT !.at = "event", !.c = c, !.id = tracked[c]])
  /\ UNCHANGED memory

AddLifecycleEvent ==
  LET s == op["service"] IN s.at = "event" /\ InsertChild(s.c, s.id, Idle)

\* attach_name_resolution and correlate_tls_sessions look the connection up;
\* the evidence is inserted by a later statement.
Correlate(c) ==
  /\ op["service"] = Idle /\ c \in Live /\ tracked[c] \in Ids
  /\ \E step \in {"addName", "addTlsSession"} :
       Goto("service", [Idle EXCEPT !.at = step, !.c = c, !.id = tracked[c]])
  /\ UNCHANGED <<db, memory>>

AddTlsSessionEvidence ==
  LET s == op["service"] IN s.at = "addTlsSession" /\ InsertChild(s.c, s.id, Idle)

\* The evidence row first, its addresses in statements of their own.
AddNameResolutionEvidence ==
  LET s == op["service"] IN
  \/ s.at = "addName" /\ InsertChild(s.c, s.id, [s EXCEPT !.at = "addAddresses"])
  \/ s.at = "addAddresses" /\ InsertChild(s.c, s.id, Idle)

\* observe_scheduled_routes: the route, then, if the connection is still
\* there, its host and boot, network and link rows.
AddRoute(c) ==
  /\ op["service"] = Idle /\ c \in Live
  /\ InsertChild(c, tracked[c], [Idle EXCEPT !.at = "host", !.c = c, !.id = tracked[c]])

ParentOf == [host |-> {}, network |-> {"host"}]
\* Mutant: the link is written before the network row it refers to.
AfterParentLinkFirst == [host |-> "environmentLink", network |-> "environmentLink"]
AfterParent == [host |-> "network", network |-> "environmentLink"]

AddHostNetworkEnvironment ==
  LET s == op["service"] IN
  \/ /\ s.at = "host" /\ s.id \notin Ids
     /\ Done("service") /\ UNCHANGED <<db, memory>>
  \/ /\ s.at \in Parents /\ (s.at = "host" => s.id \in Ids)
     /\ IF ~(ParentOf[s.at] \subseteq db.environment)
        THEN Refuse("service")
        ELSE /\ db' = [db EXCEPT !.environment = @ \cup {s.at}]
             /\ Goto("service", [s EXCEPT !.at = AfterParent[s.at]]) /\ UNCHANGED memory
  \/ /\ s.at = "environmentLink"
     /\ IF s.id \notin Ids \/ "network" \notin db.environment
        THEN Refuse("service")
        ELSE /\ db' = [db EXCEPT !.environmentOf = @ \cup {s.id}]
             /\ Done("service") /\ UNCHANGED memory

\* evaluate_outbound_connection: connection and baseline are read, the verdict
\* is written by save_verdict's two statements.  A completed connection has
\* left the tracker whatever comes of it.
CompleteConnection(c) ==
  /\ op["service"] = Idle /\ c \in Live
  /\ tracked' = [tracked EXCEPT ![c] = Ended]
  /\ IF tracked[c] \in Ids /\ LatestBaseline # None
     THEN Goto("service", [Idle EXCEPT !.at = "verdict", !.c = c, !.id = tracked[c],
                                       !.value = LatestBaseline])
     ELSE Done("service")
  /\ UNCHANGED <<db, atStart, commands, lost, refused>>

----
(***************************************************************************)
(* save_verdict, by either process.                                         *)
(***************************************************************************)
\* INSERT ... ON CONFLICT(connection_id) DO UPDATE
PutVerdict(s, tls) ==
  [db EXCEPT !.verdicts = With(db.verdicts, s.id,
                               [owner |-> s.c, baseline |-> s.value, tls |-> tls])]

\* A refusal is caught by the completion callback and ends a command.
SaveVerdict(a) ==
  LET s == op[a] IN
  /\ s.at = "verdict"
  /\ IF s.id \in Ids
     THEN /\ db' = PutVerdict(s, None)
          /\ Goto(a, [s EXCEPT !.at = "verdictColumns"]) /\ UNCHANGED refused
     ELSE Done(a) /\ refused' = refused \cup {a} /\ UNCHANGED db
  /\ UNCHANGED <<tracked, atStart, commands, lost>>

\* UPDATE connections SET performance_state=?,trust_state=?
SetColumns(s) ==
  \E anomalous \in BOOLEAN :
    db' = [db EXCEPT
             !.connections = [i \in Ids |-> IF i = s.id THEN [owner |-> OwnerOf(i), anomalous |-> anomalous]
                                             ELSE db.connections[i]],
             !.children = @ \cup Columns(s.id, s.c)]

SaveVerdictColumns(a) ==
  LET s == op[a] IN
  /\ s.at = "verdictColumns"
  /\ SetColumns(s) /\ Done(a)
  /\ UNCHANGED <<tracked, atStart, commands, lost, refused>>

----
(***************************************************************************)
(* The end of a target observation: the TLS probe's row, its links, the     *)
(* verdicts that name it, and the process exits.                            *)
(***************************************************************************)
AddTls(a) == [db EXCEPT !.tls = With(db.tls, NextOf(DOMAIN db.tls), a)]

EndSession ==
  /\ op["service"] = Idle /\ Live # {} /\ NextOf(DOMAIN db.tls) <= MaxId
  /\ db' = AddTls("service")
  /\ Goto("service", [Idle EXCEPT !.at = "linkTls", !.value = NextOf(DOMAIN db.tls), !.todo = Live])
  /\ UNCHANGED memory

\* One link per connection of the session; a refusal is caught and the rest
\* of the links are skipped.
LinkTlsObservation ==
  LET s == op["service"] IN
  /\ s.at = "linkTls"
  /\ \/ /\ s.todo = {} /\ Goto("service", [s EXCEPT !.at = "finalize", !.todo = Live])
        /\ UNCHANGED <<db, refused>>
     \/ \E c \in s.todo :
          IF tracked[c] \in Ids /\ s.value \in DOMAIN db.tls
          THEN /\ db' = [db EXCEPT !.tlsOf = With(db.tlsOf, tracked[c], s.value)]
               /\ Goto("service", [s EXCEPT !.todo = @ \ {c}]) /\ UNCHANGED refused
          ELSE /\ refused' = refused \cup {"service"}
               /\ Goto("service", [s EXCEPT !.at = "finalize", !.todo = Live]) /\ UNCHANGED db
  /\ UNCHANGED <<tracked, atStart, commands, lost>>

\* finalize_target_connections with the baseline read at the start, then the
\* exit; here nothing catches a refusal.
FinalizeTarget ==
  LET s == op["service"] IN
  \/ /\ s.at = "finalize" /\ (s.todo = {} \/ atStart = None)
     /\ Dies("service") /\ UNCHANGED <<db, commands, lost, refused>>
  \/ /\ s.at = "finalize" /\ atStart # None
     /\ \E c \in s.todo :
          IF tracked[c] \in Ids /\ s.value \in DOMAIN db.tls
          THEN /\ db' = PutVerdict([s EXCEPT !.c = c, !.id = tracked[c], !.value = atStart], s.value)
               /\ Goto("service", [s EXCEPT !.at = "finalizeColumns", !.c = c, !.id = tracked[c],
                                            !.todo = @ \ {c}])
               /\ UNCHANGED memory
          ELSE Refuse("service")
  \/ /\ s.at = "finalizeColumns"
     /\ SetColumns(s)
     /\ Goto("service", [s EXCEPT !.at = "finalize", !.c = None, !.id = None]) /\ UNCHANGED memory

----
(***************************************************************************)
(* The operator's commands.                                                 *)
(***************************************************************************)
StartCommand == op["cli"] = Idle /\ commands < MaxCommands /\ commands' = commands + 1

\* `baseline accept-client` and `accept-connection` read a connection and its
\* evidence, save the baseline, then a verdict for that connection.
AcceptIdentity(id, identity) ==
  /\ StartCommand /\ id \in Ids
  /\ Goto("cli", [Idle EXCEPT !.at = "saveBaseline", !.c = OwnerOf(id), !.id = id, !.value = identity])
  /\ UNCHANGED <<db, tracked, atStart, lost, refused>>

\* `baseline capture` stores the TLS probe it ran, then the baseline.
BaselineCapture(identity) ==
  /\ StartCommand /\ NextOf(DOMAIN db.tls) <= MaxId
  /\ db' = AddTls("cli")
  /\ Goto("cli", [Idle EXCEPT !.at = "saveBaseline", !.value = identity])
  /\ UNCHANGED <<tracked, atStart, lost, refused>>

\* INSERT OR IGNORE on the UNIQUE hash, which is a function of the identity.
PutBaseline(identity) ==
  IF \E k \in DOMAIN db.baselines : db.baselines[k] = identity THEN db
  ELSE [db EXCEPT !.baselines = With(db.baselines, NextOf(DOMAIN db.baselines), identity)]

SaveBaseline ==
  LET s == op["cli"] IN
  /\ s.at = "saveBaseline"
  /\ db' = PutBaseline(s.value)
  /\ IF s.id # None
     THEN Goto("cli", [s EXCEPT !.at = "verdict"])
     ELSE Done("cli")
  /\ UNCHANGED <<tracked, atStart, commands, lost, refused>>

\* export_data: the connection, its rows, its verdict and the TLS row are
\* read by statements of their own; `todo` collects whose evidence was read.
ExportData(id) ==
  /\ StartCommand /\ id \in Ids
  /\ Goto("cli", [Idle EXCEPT !.at = "readRows", !.c = OwnerOf(id), !.id = id,
                              !.todo = {OwnerOf(id)}])
  /\ UNCHANGED <<db, tracked, atStart, lost, refused>>

ReadRows ==
  LET s == op["cli"] IN
  /\ s.at = "readRows"
  /\ Goto("cli", [s EXCEPT !.at = "readVerdict",
                   !.todo = @ \cup {r.owner : r \in {x \in db.children : x.conn = s.id}}])
  /\ UNCHANGED <<db, memory>>

ReadVerdict ==
  LET s == op["cli"] IN
  /\ s.at = "readVerdict"
  /\ Goto("cli", [s EXCEPT !.at = "exported",
                   !.todo = @ \cup {db.verdicts[k].owner : k \in DOMAIN db.verdicts \cap {s.id}}])
  /\ UNCHANGED <<db, memory>>

Exported == op["cli"].at = "exported" /\ Done("cli") /\ UNCHANGED <<db, memory>>

----
(***************************************************************************)
(* prune_to_budget, by the service when it is due and by `storage prune`.   *)
(***************************************************************************)
PruneToBudget(a) ==
  /\ op[a] = Idle
  /\ \E wal \in 0..MaxWal : Size + wal > MaxBytes
  /\ Size > TargetBytes
  /\ IF a = "cli" THEN StartCommand ELSE UNCHANGED commands
  /\ Goto(a, [Idle EXCEPT !.at = "processes"])
  /\ UNCHANGED <<db, tracked, atStart, lost, refused>>

\* The statements of prune_orphans and where each leads.
AfterOrphans == [processes |-> "tls", tls |-> "baselines", baselines |-> "pruneNetwork",
                 pruneNetwork |-> "pruneHost", pruneHost |-> "measure"]

UsedProcesses == {OwnerOf(id) : id \in Ids}
UsedTls == {db.verdicts[k].tls : k \in DOMAIN db.verdicts} \cup {db.tlsOf[k] : k \in DOMAIN db.tlsOf}

OrphanProcesses == {p \in db.processes : \A id \in Ids : OwnerOf(id) # p}
OrphanTls ==
  {t \in DOMAIN db.tls : /\ \A k \in DOMAIN db.verdicts : db.verdicts[k].tls # t
                         /\ \A k \in DOMAIN db.tlsOf : db.tlsOf[k] # t}
\* Mutant: the newest baseline of a target is not kept.
OrphanBaselinesAll ==
  {i \in DOMAIN db.baselines : \A k \in DOMAIN db.verdicts : db.verdicts[k].baseline # db.baselines[i]}
\* Neither named by a verdict nor the newest of the target.
OrphanBaselines ==
  {i \in DOMAIN db.baselines :
     /\ \A k \in DOMAIN db.verdicts : db.verdicts[k].baseline # db.baselines[i]
     /\ i # Max(DOMAIN db.baselines)}
OrphanEnvironment(level) ==
  CASE level = "pruneNetwork" -> IF db.environmentOf = {} THEN {"network"} ELSE {}
    [] level = "pruneHost" -> IF "network" \in db.environment THEN {} ELSE {"host"}

\* What the schema's foreign keys do not let the statement delete.
Protected(step) ==
  CASE step = "processes" -> OrphanProcesses \cap UsedProcesses
    [] step = "tls" -> OrphanTls \cap UsedTls
    [] step = "baselines" -> {}
    [] OTHER -> IF db.environmentOf = {} THEN {} ELSE OrphanEnvironment(step) \cap db.environment

DeleteOrphans(step) ==
  CASE step = "processes" -> [db EXCEPT !.processes = @ \ OrphanProcesses]
    [] step = "tls" -> [db EXCEPT !.tls = Without(db.tls, OrphanTls)]
    [] step = "baselines" -> [db EXCEPT !.baselines = Without(db.baselines, OrphanBaselines)]
    [] OTHER -> [db EXCEPT !.environment = @ \ OrphanEnvironment(step)]

\* Rows deleted between a statement of the service that made or read them and
\* the one that needs them.
LostOrphans(step) ==
  LET s == op["service"] IN
  CASE step = "processes" -> IF s.at = "insertConnection" /\ s.c \in OrphanProcesses
                             THEN {"parent"} ELSE {}
    [] step = "tls" -> IF s.at \in {"linkTls", "finalize", "finalizeColumns"} /\ s.value \in OrphanTls
                       THEN {"parent"} ELSE {}
    [] step = "baselines" -> {}
    [] OTHER -> IF s.at \in {"network", "environmentLink"} THEN {"parent"} ELSE {}

PruneOrphans(a) ==
  LET step == op[a].at IN
  /\ step \in DOMAIN AfterOrphans
  /\ IF Protected(step) # {}
     THEN /\ refused' = refused \cup {"maintenance"} /\ Dies(a)
          /\ UNCHANGED <<db, commands, lost>>
     ELSE /\ db' = DeleteOrphans(step)
          /\ lost' = lost \cup LostOrphans(step)
          /\ Goto(a, [op[a] EXCEPT !.at = AfterOrphans[step]])
          /\ UNCHANGED <<tracked, atStart, commands, refused>>

Measure(a) ==
  /\ op[a].at = "measure"
  /\ IF Size <= TargetBytes THEN Done(a) ELSE Goto(a, [op[a] EXCEPT !.at = "normal"])
  /\ UNCHANGED <<db, memory>>

\* The oldest `batch` connections of a class.
Oldest(anomalous, batch) ==
  LET class == {id \in Ids : db.connections[id].anomalous = anomalous}
  IN {id \in class : Cardinality({j \in class : j < id}) < batch}

\* Mutant: samples, events and evidence do not cascade.
DeleteConnectionsOnly(D) ==
  [db EXCEPT !.connections = Without(db.connections, D),
             !.environmentOf = @ \ D,
             !.tlsOf = Without(db.tlsOf, D),
             !.verdicts = Without(db.verdicts, D)]
\* DELETE FROM connections and what cascades from it.
DeleteConnections(D) ==
  [db EXCEPT !.connections = Without(db.connections, D),
             !.children = {r \in @ : r.conn \notin D},
             !.environmentOf = @ \ D,
             !.tlsOf = Without(db.tlsOf, D),
             !.verdicts = Without(db.verdicts, D)]

LostConnections(D) ==
  {c \in Conns : tracked[c] \in D} \cup {op[a].c : a \in {b \in Actors : op[b].id \in D}}

\* A statement of the loop: it deletes something and the file is compacted
\* and measured again, or it finds nothing and the next statement is tried.
\* (The statements on process findings between them are ProcessFindings's.)
PruneBatch(a) ==
  LET step == op[a].at
      D == IF step = "normal" THEN Oldest(FALSE, NormalBatch) ELSE Oldest(TRUE, AnomalousBatch)
  IN /\ step \in {"normal", "anomalous"}
     /\ IF D # {}
        THEN /\ db' = DeleteConnections(D)
             /\ lost' = lost \cup LostConnections(D)
             /\ Goto(a, [op[a] EXCEPT !.at = "processes"])
        ELSE /\ Goto(a, [op[a] EXCEPT !.at = IF step = "normal" THEN "anomalous" ELSE "giveUp"])
             /\ UNCHANGED <<db, lost>>
     /\ UNCHANGED <<tracked, atStart, commands, refused>>

\* Nothing left to remove: an error if the cap is still exceeded.
GiveUp(a) ==
  /\ op[a].at = "giveUp"
  /\ IF Size > MaxBytes THEN Dies(a) ELSE Done(a) /\ UNCHANGED <<tracked, atStart>>
  /\ UNCHANGED <<db, commands, lost, refused>>

Crash(a) == op[a] # Idle /\ Dies(a) /\ UNCHANGED <<db, commands, lost, refused>>

----
ServiceNext ==
  \/ \E c \in Conns : \/ BeginConnection(c) \/ AddTcpSample(c) \/ TouchConnection(c)
                      \/ Correlate(c) \/ AddRoute(c) \/ CompleteConnection(c)
  \/ InsertConnection \/ AddLifecycleEvent \/ AddTlsSessionEvidence
  \/ AddNameResolutionEvidence \/ AddHostNetworkEnvironment
  \/ EndSession \/ LinkTlsObservation \/ FinalizeTarget

CliNext ==
  \/ \E id \in 1..MaxId, identity \in Identities : AcceptIdentity(id, identity)
  \/ \E identity \in Identities : BaselineCapture(identity)
  \/ \E id \in 1..MaxId : ExportData(id)
  \/ SaveBaseline \/ ReadRows \/ ReadVerdict \/ Exported

PruneNext(a) ==
  PruneToBudget(a) \/ PruneOrphans(a) \/ Measure(a) \/ PruneBatch(a) \/ GiveUp(a)

Next ==
  \/ ServiceNext \/ CliNext
  \/ \E a \in Actors : SaveVerdict(a) \/ SaveVerdictColumns(a) \/ PruneNext(a) \/ Crash(a)

Spec == Init /\ [][Next]_vars

----
\* Every row attached to a connection's record, and everything one export
\* reads, is about the connection the record was opened for, unless the record
\* of the connection it is about was pruned while its id was still held: row
\* ids are reused, so a held id may by then name another connection's record
\* (add_tcp_sample, save_verdict, link_tls_observation, export_data).
EvidenceOfRecord ==
  /\ \A r \in db.children : r.conn \in Ids => r.owner \in {OwnerOf(r.conn)} \cup lost
  /\ \A k \in DOMAIN db.verdicts : db.verdicts[k].owner \in {OwnerOf(k)} \cup lost
  /\ \A k \in DOMAIN db.tlsOf : db.tls[db.tlsOf[k]] = "service" \/ "parent" \in lost
  /\ op["cli"].at = "exported" => op["cli"].todo = {op["cli"].c} \/ op["cli"].todo \cap lost # {}

\* A constraint refuses a write of the service or of a command only after
\* maintenance deleted a row that the writer was still using: what
\* begin_connection, add_host_network_environment and the end of a session
\* insert in several statements otherwise always finds its parent.
RefusedOnlyAfterPrune == refused \cap Actors # {} => lost # {}

\* prune_orphans never trips over a foreign key, whatever the other process
\* writes between its statements: its predicates cover every reference.
MaintenanceNeverRefused == "maintenance" \notin refused

\* Who a constraint refuses, and when: RefusedOnlyAfterPrune and
\* MaintenanceNeverRefused.
RefusalsAreExplained == RefusedOnlyAfterPrune /\ MaintenanceNeverRefused

\* The identity that later connections are judged by (baseline_for) changes
\* only when an operator's acceptance stores another one, never by pruning.
BaselineInForce ==
  [][LatestBaseline' # LatestBaseline =>
       /\ op["cli"].at = "saveBaseline"
       /\ LatestBaseline' = op["cli"].value]_vars

\* An acceptance the operator is told of puts its identity in force: it is
\* what baseline_for returns once save_baseline has run.
LatestAcceptanceWins == [][SaveBaseline => LatestBaseline' = op["cli"].value]_vars
====
