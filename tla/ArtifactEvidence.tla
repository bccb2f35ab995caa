--------------------------- MODULE ArtifactEvidence ---------------------------
(***************************************************************************)
(* Evidence about executed files on Linux: scan_executed_artifact and      *)
(* report_artifact_evidence of src/core/process_finding_runtime.cpp, the   *)
(* YARA-X provider of src/platform/linux/yara_x_provider.cpp and the       *)
(* ArtifactEvidenceStore of src/core/exec_antimalware_monitor.cpp.         *)
(*                                                                         *)
(* The service and an `observe` started beside it see the same executions  *)
(* of one path and write one database; each has the rules it compiled when *)
(* it started and a cache of its own.  The file is read twice, once for    *)
(* its hash and once by the scanner, and a row is written before its       *)
(* matches, one statement each: another process, a new file, new rules or  *)
(* a death can come in between.  A content stands for its SHA-256 and a    *)
(* rule set for the SHA-256 of its source.                                 *)
(***************************************************************************)
EXTENDS Naturals, FiniteSets

CONSTANTS
  Contents, Rulesets,
  Hits(_, _),      \* the names of the rules of a rule set that a content matches
  Recent,          \* rows a report looks at (64 in the code)
  Hosts            \* endpoints to explore: the processes that run, whether they are enrolled, and as model bounds the
                   \* executions, the edits (replacements of the file or the rules) and the faults (calls that fail,
                   \* deaths, summaries refused or forgotten)

VARIABLES
  host,
  file,       \* content of the executed path
  rulesFile,  \* the rule set on disk
  execs,      \* executions so far; the number of one stands for its time
  stored,     \* artifact_evidence_rm4, by hash and rule set
  named,      \* artifact_matches_rm4
  process,    \* the service and a manual observe
  outbox,     \* evidence summaries in the outbound queue: [body, state]
  received,   \* row versions in the summaries the coordinator acknowledged
  swapped,    \* history: keys whose hash and scan read different contents
  edits, faults

evidenceVars == <<host, file, rulesFile, execs, stored, named, process, outbox, received, swapped, edits, faults>>

NoRules == "no rules"
Keys == Contents \X (Rulesets \cup {NoRules})
NoRow == [state |-> "", count |-> 0, at |-> 0]
NoEvidence == [rules |-> NoRules, state |-> "", names |-> {}]
Off ==
  [pc |-> "off", rules |-> NoRules, usable |-> "", seen |-> 0, hash |-> CHOOSE c \in Contents : TRUE,
   cache |-> [c \in Contents |-> NoEvidence], left |-> {}, batch |-> {}, reported |-> [k \in Keys |-> 0]]

Rest(p) == [process[p] EXCEPT !.pc = "idle", !.hash = Off.hash, !.left = {}]
\* A statement that fails ends observe(), and the rest of the polled batch is lost.
Abandons(p) == \E n \in process[p].seen..execs : process' = [process EXCEPT ![p] = [Rest(p) EXCEPT !.seen = n]]

EvidenceInit ==
  /\ host \in Hosts
  /\ file \in Contents /\ rulesFile \in Rulesets
  /\ execs = 0 /\ edits = 0 /\ faults = 0
  /\ stored = [k \in Keys |-> NoRow] /\ named = {}
  /\ process = [p \in host.processes |-> Off]
  /\ outbox = {} /\ received = {} /\ swapped = {}

Fails == faults < host.faults /\ faults' = faults + 1
Goes == UNCHANGED faults
KeepsHost == UNCHANGED <<host, file, rulesFile, execs, edits>>
KeepsStore == UNCHANGED <<stored, named, swapped>>
KeepsReports == UNCHANGED <<outbox, received>>

-----------------------------------------------------------------------------
(* The host and the process. *)

Execute ==
  /\ execs < host.execs /\ execs' = execs + 1
  /\ UNCHANGED <<host, file, rulesFile, edits, process, faults>> /\ KeepsStore /\ KeepsReports
Edit ==
  /\ edits < host.edits /\ edits' = edits + 1
  /\ \/ file' \in Contents \ {file} /\ UNCHANGED rulesFile
     \/ rulesFile' \in Rulesets \ {rulesFile} /\ UNCHANGED file
  /\ UNCHANGED <<host, execs, process, faults>> /\ KeepsStore /\ KeepsReports

\* The provider reads, hashes and compiles the rules once.  Without the YARA-X
\* library they are not read; rules that do not compile have been hashed.
Start(p) ==
  /\ process[p].pc = "off"
  /\ \E loaded \in {<<"ready", rulesFile>>, <<"UNSUPPORTED", NoRules>>, <<"SCAN_ERROR", NoRules>>, <<"SCAN_ERROR", rulesFile>>} :
       /\ IF loaded[1] = "ready" THEN Goes ELSE Fails
       /\ process' = [process EXCEPT ![p] = [Off EXCEPT !.pc = "idle", !.usable = loaded[1], !.rules = loaded[2], !.seen = execs]]
  /\ KeepsHost /\ KeepsStore /\ KeepsReports
Dies(p) ==
  /\ process[p].pc # "off" /\ Fails
  /\ process' = [process EXCEPT ![p] = Off]
  /\ KeepsHost /\ KeepsStore /\ KeepsReports

-----------------------------------------------------------------------------
(* scan_executed_artifact *)

\* The next execution: the hash of what is at its path now, and the cache.
Hash(p) ==
  /\ process[p].pc = "idle" /\ process[p].seen < execs
  /\ \/ /\ Goes
        /\ process' = [process EXCEPT ![p].seen = @ + 1, ![p].hash = file,
                         ![p].pc = IF process[p].cache[file] = NoEvidence THEN "scan" ELSE "record"]
     \/ Fails /\ process' = [process EXCEPT ![p].seen = @ + 1]
  /\ KeepsHost /\ KeepsStore /\ KeepsReports

\* As Evidence below, but labelled with the rule set on disk.
EvidenceOfFile(p, state, names) == [rules |-> rulesFile, state |-> state, names |-> names]
\* AntimalwareEvidence of the provider: labelled with the rules it compiled.
Evidence(p, state, names) == [rules |-> process[p].rules, state |-> state, names |-> names]

\* YaraXProvider::scan reads the path again.  A scan that times out or fails
\* keeps the matches found so far.
Scan(p) ==
  LET ready == process[p].usable = "ready"
      hits == Hits(file, process[p].rules)
      done(evidence) == process' = [process EXCEPT ![p].pc = "record", ![p].cache[process[p].hash] = evidence]
  IN  /\ process[p].pc = "scan"
      /\ \/ ~ready /\ Goes /\ done(Evidence(p, process[p].usable, {}))
         \/ ready /\ Goes /\ done(Evidence(p, IF hits = {} THEN "NO_MATCH" ELSE "MATCH", hits))
         \/ ready /\ Fails /\ \E some \in SUBSET hits, state \in {"INCONCLUSIVE", "SCAN_ERROR"} : done(Evidence(p, state, some))
      /\ swapped' = IF ready => file = process[p].hash THEN swapped ELSE swapped \cup {<<process[p].hash, process[p].rules>>}
      /\ UNCHANGED <<stored, named>> /\ KeepsHost /\ KeepsReports

\* ArtifactEvidenceStore::record: the upsert of the row ...
RecordRow(p) ==
  LET evidence == process[p].cache[process[p].hash]
      key == <<process[p].hash, evidence.rules>>
  IN  /\ process[p].pc = "record"
      /\ \/ /\ Goes
            /\ stored' = [stored EXCEPT ![key] = [state |-> evidence.state, count |-> @.count + 1, at |-> process[p].seen]]
            /\ process' = [process EXCEPT ![p] = IF evidence.names = {} THEN Rest(p) ELSE [@ EXCEPT !.pc = "matches", !.left = evidence.names]]
         \/ Fails /\ UNCHANGED stored /\ Abandons(p)
      /\ UNCHANGED <<named, swapped>> /\ KeepsHost /\ KeepsReports
\* ... and of each of its matches.
RecordMatch(p) ==
  LET evidence == process[p].cache[process[p].hash]
      left == process[p].left
  IN  /\ process[p].pc = "matches"
      /\ \/ /\ Goes
            /\ \E name \in left :
                 /\ named' = named \cup {<<process[p].hash, evidence.rules, name>>}
                 /\ process' = [process EXCEPT ![p] = IF left = {name} THEN Rest(p) ELSE [process[p] EXCEPT !.left = left \ {name}]]
         \/ Fails /\ UNCHANGED named /\ Abandons(p)
      /\ UNCHANGED <<stored, swapped>> /\ KeepsHost /\ KeepsReports

-----------------------------------------------------------------------------
(* report_artifact_evidence, called by the service only. *)

Present == {k \in Keys : stored[k].count > 0}
\* ArtifactEvidenceStore::recent: ties in last_observed_ns are in any order.
Windows ==
  {w \in SUBSET Present :
     /\ Cardinality(w) = IF Cardinality(Present) < Recent THEN Cardinality(Present) ELSE Recent
     /\ \A k \in w, j \in Present \ w : stored[k].at >= stored[j].at}
Version(k) ==
  [key |-> k, state |-> stored[k].state, count |-> stored[k].count,
   names |-> {m[3] : m \in {m \in named : <<m[1], m[2]>> = k}}]

\* As Report below, but a row is sent once.
ReportOnce ==
  LET p == process["service"] IN
  /\ host.enrolled /\ p.pc = "idle"
  /\ \E w \in Windows :
       LET batch == {Version(k) : k \in {k \in w : p.reported[k] = 0}} IN
       /\ batch # {}
       /\ outbox' = IF \E m \in outbox : m.body = batch THEN outbox ELSE outbox \cup {[body |-> batch, state |-> "PENDING"]}
       /\ process' = [process EXCEPT !["service"].pc = "submitted", !["service"].batch = batch]
  /\ Goes /\ UNCHANGED received /\ KeepsHost /\ KeepsStore
\* The rows observed more often than was acknowledged, as one summary; the queue
\* knows a summary by its hash and keeps the one it has.
Report ==
  LET p == process["service"] IN
  /\ host.enrolled /\ p.pc = "idle"
  /\ \E w \in Windows :
       LET batch == {Version(k) : k \in {k \in w : p.reported[k] < stored[k].count}} IN
       /\ batch # {}
       /\ outbox' = IF \E m \in outbox : m.body = batch THEN outbox ELSE outbox \cup {[body |-> batch, state |-> "PENDING"]}
       /\ process' = [process EXCEPT !["service"].pc = "submitted", !["service"].batch = batch]
  /\ Goes /\ UNCHANGED received /\ KeepsHost /\ KeepsStore
\* submit_evidence_summary has drained the queue and asks is_acknowledged.
Conclude ==
  LET p == process["service"]
      acked == [body |-> p.batch, state |-> "ACKED"] \in outbox
      sent(k) == {v.count : v \in {v \in p.batch : v.key = k}}
  IN  /\ p.pc = "submitted"
      /\ process' = [process EXCEPT !["service"].pc = "idle", !["service"].batch = {},
           !["service"].reported = [k \in Keys |-> IF acked /\ sent(k) # {} THEN CHOOSE n \in sent(k) : TRUE ELSE @[k]]]
      /\ Goes /\ KeepsHost /\ KeepsStore /\ KeepsReports

\* The outbound queue, by what OutboundDispatcher does with a message.
Becomes(m, state) == outbox' = (outbox \ {m}) \cup {[m EXCEPT !.state = state]}
Deliver(m) ==
  /\ m.state = "PENDING" /\ Becomes(m, "ACKED")
  /\ received' = received \cup m.body
  /\ Goes /\ UNCHANGED process /\ KeepsHost /\ KeepsStore
Refuse(m) ==
  /\ m.state = "PENDING" /\ Becomes(m, "DEAD_LETTER")
  /\ Fails /\ UNCHANGED <<received, process>> /\ KeepsHost /\ KeepsStore
PruneSummary(m) ==
  /\ m.state = "ACKED" /\ outbox' = outbox \ {m}
  /\ Fails /\ UNCHANGED <<received, process>> /\ KeepsHost /\ KeepsStore

Step(p) == Hash(p) \/ Scan(p) \/ RecordRow(p) \/ RecordMatch(p)
EvidenceNext ==
  \/ Execute \/ Edit
  \/ \E p \in host.processes : Start(p) \/ Dies(p) \/ Step(p)
  \/ Report \/ Conclude
  \/ \E m \in outbox : Deliver(m) \/ Refuse(m) \/ PruneSummary(m)
\* The supervisor restarts the service, whose loop goes round, and what is in
\* the queue is delivered or refused in the end.
Fairness ==
  /\ WF_evidenceVars(Start("service")) /\ WF_evidenceVars(Step("service")) /\ WF_evidenceVars(Report \/ Conclude)
  /\ WF_evidenceVars(\E m \in outbox : Deliver(m))
EvidenceSpec == EvidenceInit /\ [][EvidenceNext]_evidenceVars /\ Fairness

-----------------------------------------------------------------------------
(* Properties *)

\* Whatever was cached, replaced or interrupted, and whoever wrote: a row says
\* NO_MATCH or MATCH only if that is what the rules it names say of the content
\* it names, and a stored match is one of these rules' matches.  A file replaced
\* between its hash and its scan is the only excuse (process_finding_runtime.cpp:200,
\* 207; docs/ANTIMALWARE_EVIDENCE_PROVIDERS.md: "failed or missing scans must
\* never be interpreted as clean results").
EvidenceIsOfTheContent ==
  \A k \in Present \ swapped :
    /\ stored[k].state \in {"NO_MATCH", "MATCH"} =>
         k[2] # NoRules /\ (stored[k].state = "MATCH" <=> Hits(k[1], k[2]) # {})
    /\ \A m \in named : <<m[1], m[2]>> = k => m[3] \in Hits(k[1], k[2])

\* Rows among the newest Recent, however ties are broken.
Newest == {k \in Present : Cardinality({j \in Present \ {k} : stored[j].at >= stored[k].at}) < Recent}
Answered(k) ==
  LET says(v) == v.key = k /\ v.state = stored[k].state /\ v.count = stored[k].count
  IN  (\E v \in received : says(v)) \/ \E m \in outbox : m.state = "DEAD_LETTER" /\ \E v \in m.body : says(v)
\* Once enrolled, the latest state and count of each of the newest rows reaches
\* the coordinator, unless it refuses the summary, after any restarts and losses
\* (process_finding_runtime.cpp:230, 273).
EvidenceArrives == host.enrolled => <>[](\A k \in Newest : Answered(k))
==============================================================================
