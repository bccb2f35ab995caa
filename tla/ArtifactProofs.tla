---------------------------- MODULE ArtifactProofs ----------------------------
(***************************************************************************)
(* EvidenceIsOfTheContent of ArtifactEvidence for any number of processes, *)
(* contents, rule sets, executions, edits and faults.                      *)
(*                                                                         *)
(* The rows are written from the caches and the caches by the scans, so    *)
(* the inductive invariant says of every cache entry what the property     *)
(* says of the rows, and of a record under way that the matches it has     *)
(* left are those of its entry.                                            *)
(***************************************************************************)
EXTENDS ArtifactEvidence, TLAPS

PCs == {"off", "idle", "scan", "record", "matches", "submitted"}
States == {"", "NO_MATCH", "MATCH", "INCONCLUSIVE", "SCAN_ERROR", "UNSUPPORTED"}
RuleLabels == Rulesets \cup {NoRules}
Names == UNION {Hits(c, r) : c \in Contents, r \in RuleLabels}
Entries == [rules : RuleLabels, state : States, names : SUBSET Names]
Versions == [key : Keys, state : States, count : Nat, names : SUBSET Names]
Processes ==
  [pc : PCs, rules : RuleLabels, usable : {"", "ready", "UNSUPPORTED", "SCAN_ERROR"}, seen : Nat, hash : Contents,
   cache : [Contents -> Entries], left : SUBSET Names, batch : SUBSET Versions, reported : [Keys -> Nat]]

Types ==
  /\ file \in Contents /\ rulesFile \in Rulesets /\ execs \in Nat
  /\ stored \in [Keys -> [state : States, count : Nat, at : Nat]]
  /\ named \subseteq Contents \X RuleLabels \X Names
  /\ process \in [host.processes -> Processes]

\* What the rules r, or a scanner without rules, may say of the content c.
Says(c, r, state) == state \in {"NO_MATCH", "MATCH"} => r # NoRules /\ (state = "MATCH" <=> Hits(c, r) # {})
True(c, e) == Says(c, e.rules, e.state) /\ e.names \subseteq Hits(c, e.rules)

RowsTrue == \A k \in Keys \ swapped : Says(k[1], k[2], stored[k].state)
NamedTrue == \A m \in named : <<m[1], m[2]>> \in swapped \/ m[3] \in Hits(m[1], m[2])
ProcessTrue(s, excused) ==
  /\ s.usable = "ready" => s.rules \in Rulesets
  /\ \A c \in Contents : <<c, s.cache[c].rules>> \in excused \/ True(c, s.cache[c])
  /\ s.pc = "matches" => s.left \subseteq s.cache[s.hash].names

IInv == Types /\ RowsTrue /\ NamedTrue /\ \A q \in host.processes : ProcessTrue(process[q], swapped)

\* The state of a process that is not running is typed and claims nothing.
LEMMA OffIsTrue ==
  ASSUME file \in Contents PROVE Off \in Processes /\ ProcessTrue(Off, swapped)
<1>1. Off.hash \in Contents
  BY Zenon DEF Off
<1>2. NoEvidence \in Entries
  BY Zenon DEF NoEvidence, Entries, RuleLabels, States
<1>3. Off \in Processes
  BY <1>1, <1>2, Zenon DEF Off, Processes, RuleLabels, PCs
<1>4. ProcessTrue(Off, swapped)
  BY Zenon DEF Off, ProcessTrue, True, Says, NoEvidence
<1> QED BY <1>3, <1>4, Zenon

\* An empty store and processes that have not started satisfy the invariant.
LEMMA InitTrue == EvidenceInit => IInv
<1> SUFFICES ASSUME EvidenceInit PROVE IInv
  BY Zenon
<1>1. Off \in Processes /\ ProcessTrue(Off, swapped)
  BY OffIsTrue, Zenon DEF EvidenceInit
<1>2. Types
  BY <1>1, Zenon DEF EvidenceInit, Types, NoRow, States
<1>3. RowsTrue
  BY Zenon DEF EvidenceInit, RowsTrue, NoRow, Says
<1>4. NamedTrue
  BY Zenon DEF EvidenceInit, NamedTrue
<1> QED BY <1>1, <1>2, <1>3, <1>4, Zenon DEF EvidenceInit, IInv

\* A step keeps what the invariant says of the processes if it keeps it for the
\* one process it changes.
ProcessesTrue == process \in [host.processes -> Processes] /\ \A q \in host.processes : ProcessTrue(process[q], swapped)

\* A step of one process leaves what the others remember true.
LEMMA OneProcess ==
  ASSUME IInv, NEW p, NEW STATE s, s \in Processes, ProcessTrue(s, swapped'), UNCHANGED host, swapped \subseteq swapped',
         process' = [process EXCEPT ![p] = s]
  PROVE  ProcessesTrue'
<1>1. process' \in [host.processes -> Processes]
  BY Zenon DEF IInv, Types
<1>2. ASSUME NEW q \in host.processes PROVE ProcessTrue(process[q], swapped)'
  <2>1. process'[q] = s \/ process'[q] = process[q]
    BY Zenon DEF IInv, Types
  <2>2. ProcessTrue(process[q], swapped')
    BY Zenon DEF IInv, ProcessTrue
  <2> QED BY <2>1, <2>2, Zenon
<1> QED BY <1>1, <1>2, Zenon DEF ProcessesTrue

\* The steps that leave the rows alone.
LEMMA QuietStep ==
  ASSUME IInv, ProcessesTrue', UNCHANGED <<host, stored, named>>, swapped \subseteq swapped',
         file' \in Contents, rulesFile' \in Rulesets, execs' \in Nat
  PROVE  IInv'
<1>1. Types'
  BY Zenon DEF IInv, Types, ProcessesTrue
<1>2. RowsTrue' /\ NamedTrue'
  BY Zenon DEF IInv, RowsTrue, NamedTrue
<1> QED BY <1>1, <1>2, Zenon DEF IInv, ProcessesTrue

\* An execution or an edit of a file or of the rules is no step of a process.
LEMMA HostStep == ASSUME IInv, Execute \/ Edit PROVE IInv'
<1>1. UNCHANGED <<host, process, swapped, stored, named>>
  BY Zenon DEF Execute, Edit, KeepsStore
<1>2. ProcessesTrue'
  BY <1>1, Zenon DEF IInv, Types, ProcessesTrue
<1>3. file' \in Contents /\ rulesFile' \in Rulesets /\ execs' \in Nat
  BY DEF Execute, Edit, IInv, Types
<1> QED BY <1>1, <1>2, <1>3, QuietStep, Zenon

\* A process starts with nothing remembered, or dies.
LEMMA StartStep == ASSUME IInv, NEW p \in host.processes, Start(p) \/ Dies(p) PROVE IInv'
<1>1. Off \in Processes /\ ProcessTrue(Off, swapped)
  BY OffIsTrue, Zenon DEF IInv, Types
<1>2. UNCHANGED <<host, file, rulesFile, execs, swapped, stored, named>>
  BY Zenon DEF Start, Dies, KeepsHost, KeepsStore
<1>3. ProcessesTrue'
  <2>1. CASE Dies(p)
    BY <1>1, <1>2, <2>1, OneProcess, Zenon DEF Dies
  <2>2. CASE Start(p)
    <3>1. PICK loaded \in {<<"ready", rulesFile>>, <<"UNSUPPORTED", NoRules>>, <<"SCAN_ERROR", NoRules>>, <<"SCAN_ERROR", rulesFile>>} :
            process' = [process EXCEPT ![p] = [Off EXCEPT !.pc = "idle", !.usable = loaded[1], !.rules = loaded[2], !.seen = execs]]
      BY <2>2, Zenon DEF Start
    <3> DEFINE s == [Off EXCEPT !.pc = "idle", !.usable = loaded[1], !.rules = loaded[2], !.seen = execs]
    <3>a. loaded[1] \in {"ready", "UNSUPPORTED", "SCAN_ERROR"} /\ loaded[2] \in RuleLabels /\ (loaded[1] = "ready" => loaded[2] \in Rulesets)
      BY DEF IInv, Types, RuleLabels
    <3>2. s \in Processes
      BY <1>1, <3>a, Zenon DEF Processes, IInv, Types, PCs
    <3>3. ProcessTrue(s, swapped)
      BY <1>1, <3>a, Zenon DEF ProcessTrue, IInv, Types, Processes
    <3> HIDE DEF s
    <3> QED BY <3>1, <3>2, <3>3, <1>2, OneProcess, Zenon DEF s
  <2> QED BY <2>1, <2>2, Zenon
<1> QED BY <1>2, <1>3, QuietStep, Zenon DEF IInv, Types

\* A process that goes on to another execution, content or step keeps its part.
LEMMA Moved ==
  ASSUME NEW r \in Processes, NEW w, ProcessTrue(r, w), NEW n \in Nat, NEW c \in Contents, NEW pc \in {"idle", "scan", "record"}
  PROVE  LET s == [r EXCEPT !.seen = n, !.hash = c, !.pc = pc] IN s \in Processes /\ ProcessTrue(s, w)
BY Zenon DEF Processes, PCs, ProcessTrue

\* A process hashes the file, and finds its content in the cache or not.
LEMMA HashStep == ASSUME IInv, NEW p \in host.processes, Hash(p) PROVE IInv'
<1>1. UNCHANGED <<host, file, rulesFile, execs, swapped, stored, named>>
  BY Zenon DEF Hash, KeepsHost, KeepsStore
<1>2. process[p] \in Processes /\ ProcessTrue(process[p], swapped) /\ file \in Contents
  BY Zenon DEF IInv, Types
<1> DEFINE to(c, pc) == [process[p] EXCEPT !.seen = process[p].seen + 1, !.hash = c, !.pc = pc]
<1>3. ASSUME NEW c \in Contents, NEW pc \in {"idle", "scan", "record"}, process' = [process EXCEPT ![p] = to(c, pc)]
      PROVE  ProcessesTrue'
  <2>a. process[p].seen \in Nat
    BY <1>2, Zenon DEF Processes
  <2>1. process[p].seen + 1 \in Nat
    BY <2>a
  <2>2. to(c, pc) \in Processes /\ ProcessTrue(to(c, pc), swapped)
    BY <1>2, <2>1, Moved, Zenon
  <2> HIDE DEF to
  <2> QED BY <1>1, <1>3, <2>2, OneProcess, Zenon
<1>4. CASE process' = [process EXCEPT ![p].seen = @ + 1]
  <2>1. process' = [process EXCEPT ![p] = to(process[p].hash, "idle")]
    BY <1>2, <1>4, Zenon DEF Hash, Processes, IInv, Types
  <2>2. process[p].hash \in Contents
    BY <1>2, Zenon DEF Processes
  <2> HIDE DEF to
  <2> QED BY <1>1, <1>3, <2>1, <2>2, QuietStep, Zenon DEF IInv, Types
<1>5. CASE process' = [process EXCEPT ![p].seen = @ + 1, ![p].hash = file,
                         ![p].pc = IF process[p].cache[file] = NoEvidence THEN "scan" ELSE "record"]
  <2> DEFINE pc == IF process[p].cache[file] = NoEvidence THEN "scan" ELSE "record"
  <2>1. process' = [process EXCEPT ![p] = to(file, pc)]
    BY <1>2, <1>5, Zenon DEF Processes, IInv, Types
  <2>2. pc \in {"idle", "scan", "record"}
    BY Zenon
  <2> HIDE DEF to, pc
  <2> QED BY <1>1, <1>2, <1>3, <2>1, <2>2, QuietStep, Zenon DEF IInv, Types
<1> QED BY <1>4, <1>5, Zenon DEF Hash

\* A scan that saw the content that was hashed says what is true of it.
LEMMA ScanStep == ASSUME NoRules \notin Rulesets, IInv, NEW p \in host.processes, Scan(p) PROVE IInv'
<1> DEFINE hash == process[p].hash
           key == <<hash, process[p].rules>>
           with(e) == [process[p] EXCEPT !.pc = "record", !.cache = [process[p].cache EXCEPT ![hash] = e]]
<1>1. UNCHANGED <<host, file, rulesFile, execs, stored, named>> /\ swapped \subseteq swapped'
  BY Zenon DEF Scan, KeepsHost
<1>2. process[p] \in Processes /\ ProcessTrue(process[p], swapped) /\ file \in Contents
  BY Zenon DEF IInv, Types
<1>3. ASSUME NEW e \in Entries, e.rules = process[p].rules, key \in swapped' \/ True(hash, e),
             process' = [process EXCEPT ![p].pc = "record", ![p].cache[hash] = e]
      PROVE  IInv'
  <2>1. process' = [process EXCEPT ![p] = with(e)]
    BY <1>2, <1>3, Zenon DEF Processes, IInv, Types
  <2>2. with(e) \in Processes
    BY <1>2, Zenon DEF Processes, PCs
  <2>3. ProcessTrue(with(e), swapped')
    BY <1>1, <1>2, <1>3, Zenon DEF Processes, ProcessTrue
  <2> HIDE DEF with
  <2>4. ProcessesTrue'
    BY <1>1, <2>1, <2>2, <2>3, OneProcess, Zenon
  <2> QED BY <1>1, <2>4, QuietStep, Zenon DEF IInv, Types
<1>4. ASSUME NEW state \in States, NEW names \in SUBSET Names, key \in swapped' \/ True(hash, Evidence(p, state, names)),
             process' = [process EXCEPT ![p].pc = "record", ![p].cache[hash] = Evidence(p, state, names)]
      PROVE  IInv'
  <2>1. Evidence(p, state, names) \in Entries /\ Evidence(p, state, names).rules = process[p].rules
    BY <1>2, Zenon DEF Evidence, Entries, Processes
  <2> QED BY <1>3, <1>4, <2>1, Zenon
<1> DEFINE hits == Hits(file, process[p].rules)
<1>5. CASE process[p].usable # "ready" /\ process' = [process EXCEPT ![p].pc = "record", ![p].cache[hash] = Evidence(p, process[p].usable, {})]
  <2>1. process[p].usable \in {"", "UNSUPPORTED", "SCAN_ERROR"}
    BY <1>2, <1>5, Zenon DEF Processes
  <2>2. True(hash, Evidence(p, process[p].usable, {}))
    BY <2>1, Zenon DEF True, Says, Evidence
  <2>3. process[p].usable \in States /\ {} \in SUBSET Names
    BY <2>1, Zenon DEF States
  <2> QED BY <1>4, <1>5, <2>2, <2>3, Zenon
<1>6. CASE process[p].usable = "ready"
  <2>1. hits \subseteq Names /\ process[p].rules \in Rulesets
    BY <1>2, <1>6 DEF Names, ProcessTrue, RuleLabels
  <2>2. key \in swapped' \/ file = hash
    BY <1>6, Zenon DEF Scan
  <2>3. CASE process' = [process EXCEPT ![p].pc = "record", ![p].cache[hash] = Evidence(p, IF hits = {} THEN "NO_MATCH" ELSE "MATCH", hits)]
    <3>1. key \in swapped' \/ True(hash, Evidence(p, IF hits = {} THEN "NO_MATCH" ELSE "MATCH", hits))
      BY <2>1, <2>2, Zenon DEF True, Says, Evidence
    <3> QED BY <1>4, <2>1, <2>3, <3>1, Zenon DEF States
  <2>4. CASE \E some \in SUBSET hits, state \in {"INCONCLUSIVE", "SCAN_ERROR"} :
               process' = [process EXCEPT ![p].pc = "record", ![p].cache[hash] = Evidence(p, state, some)]
    <3>1. PICK some \in SUBSET hits, state \in {"INCONCLUSIVE", "SCAN_ERROR"} :
            process' = [process EXCEPT ![p].pc = "record", ![p].cache[hash] = Evidence(p, state, some)]
      BY <2>4, Zenon
    <3>2. key \in swapped' \/ True(hash, Evidence(p, state, some))
      BY <2>2, Zenon DEF True, Says, Evidence
    <3> QED BY <1>4, <2>1, <3>1, <3>2, Zenon DEF States
  <2> QED BY <1>6, <2>3, <2>4, Zenon DEF Scan
<1> QED BY <1>5, <1>6, Zenon DEF Scan

\* A process that has finished a record is typed and keeps its part.
LEMMA RestIsTrue ==
  ASSUME IInv, NEW p \in host.processes PROVE Rest(p) \in Processes /\ ProcessTrue(Rest(p), swapped)
<1>1. process[p] \in Processes /\ ProcessTrue(process[p], swapped)
  BY Zenon DEF IInv, Types
<1>2. Off.hash \in Contents
  BY Zenon DEF Off, IInv, Types
<1> QED BY <1>1, <1>2, Zenon DEF Rest, Processes, PCs, ProcessTrue

\* A process that gives an artifact up remembers nothing untrue.
LEMMA AbandonsIsTrue ==
  ASSUME IInv, NEW p \in host.processes, UNCHANGED <<host, swapped>>, Abandons(p) PROVE ProcessesTrue'
<1>1. PICK n \in process[p].seen..execs : process' = [process EXCEPT ![p] = [Rest(p) EXCEPT !.seen = n]]
  BY Zenon DEF Abandons
<1>2. process[p].seen \in Nat /\ execs \in Nat
  BY Zenon DEF IInv, Types, Processes
<1>3. n \in Nat
  BY <1>2
<1> DEFINE s == [Rest(p) EXCEPT !.seen = n]
<1>4. s \in Processes /\ ProcessTrue(s, swapped)
  BY <1>3, RestIsTrue, Zenon DEF Processes, ProcessTrue
<1> HIDE DEF s
<1> QED BY <1>1, <1>4, OneProcess, Zenon DEF s

\* The row of the evidence is written from the cache entry of its hash.
LEMMA RecordStep == ASSUME IInv, NEW p \in host.processes, RecordRow(p) PROVE IInv'
<1> DEFINE e == process[p].cache[process[p].hash]
           key == <<process[p].hash, e.rules>>
           matching == [process[p] EXCEPT !.pc = "matches", !.left = e.names]
           row == [state |-> e.state, count |-> stored[key].count + 1, at |-> process[p].seen]
<1>1. UNCHANGED <<host, file, rulesFile, execs, swapped, named>>
  BY Zenon DEF RecordRow, KeepsHost
<1>2. process[p] \in Processes /\ ProcessTrue(process[p], swapped)
  BY Zenon DEF IInv, Types
<1>3. e \in Entries /\ key \in Keys /\ process[p].hash \in Contents
  BY <1>2, Zenon DEF Processes, Entries, Keys, RuleLabels
<1>4. ProcessesTrue'
  <2>1. matching \in Processes /\ ProcessTrue(matching, swapped)
    BY <1>2, <1>3, Zenon DEF Processes, PCs, ProcessTrue, Entries
  <2>2. Abandons(p) \/ process' = [process EXCEPT ![p] = Rest(p)] \/ process' = [process EXCEPT ![p] = matching]
    BY <1>2, Zenon DEF RecordRow, IInv, Types
  <2> HIDE DEF matching
  <2> QED BY <1>1, <2>1, <2>2, RestIsTrue, AbandonsIsTrue, OneProcess, Zenon
<1>5. UNCHANGED stored \/ stored' = [stored EXCEPT ![key] = row]
  BY Zenon DEF RecordRow
<1>6. row \in [state : States, count : Nat, at : Nat]
  <2>1. stored[key].count \in Nat
    BY <1>3, Zenon DEF IInv, Types
  <2>2. e.state \in States /\ process[p].seen \in Nat
    BY <1>2, <1>3, Zenon DEF Entries, Processes
  <2> QED BY <2>1, <2>2
<1>7. Types'
  <2>1. stored' \in [Keys -> [state : States, count : Nat, at : Nat]]
    BY <1>3, <1>5, <1>6, Zenon DEF IInv, Types
  <2> QED BY <1>1, <1>4, <2>1, Zenon DEF IInv, Types, ProcessesTrue
<1>8. RowsTrue'
  <2> SUFFICES ASSUME NEW k \in Keys \ swapped PROVE Says(k[1], k[2], stored'[k].state)
    BY <1>1, Zenon DEF RowsTrue
  <2>1. CASE stored'[k] = stored[k]
    BY <2>1, Zenon DEF IInv, RowsTrue
  <2>2. CASE k = key /\ stored'[k] = row
    <3>1. key[1] = process[p].hash /\ key[2] = e.rules /\ row.state = e.state
      BY Zenon
    <3>2. True(process[p].hash, e)
      BY <1>2, <1>3, <2>2, Zenon DEF ProcessTrue
    <3> QED BY <2>2, <3>1, <3>2, Zenon DEF True
  <2> QED BY <1>3, <1>5, <2>1, <2>2, Zenon DEF IInv, Types
<1>9. NamedTrue'
  BY <1>1, Zenon DEF IInv, NamedTrue
<1> QED BY <1>4, <1>7, <1>8, <1>9, Zenon DEF IInv, ProcessesTrue

\* A matching rule is written under the key of the row.
LEMMA RecordMatchStep == ASSUME IInv, NEW p \in host.processes, RecordMatch(p) PROVE IInv'
<1> DEFINE e == process[p].cache[process[p].hash]
           less(name) == [process[p] EXCEPT !.left = process[p].left \ {name}]
<1>1. UNCHANGED <<host, file, rulesFile, execs, swapped, stored>> /\ process[p].pc = "matches"
  BY Zenon DEF RecordMatch, KeepsHost
<1>2. process[p] \in Processes /\ ProcessTrue(process[p], swapped)
  BY Zenon DEF IInv, Types
<1>3. e \in Entries /\ process[p].hash \in Contents /\ process[p].left \subseteq e.names
  BY <1>1, <1>2, Zenon DEF Processes, ProcessTrue
<1>4. CASE UNCHANGED named /\ Abandons(p)
  <2>1. ProcessesTrue'
    BY <1>1, <1>4, AbandonsIsTrue, Zenon
  <2> QED BY <1>1, <1>4, <2>1, QuietStep, Zenon DEF IInv, Types
<1>5. ASSUME NEW name \in process[p].left,
             named' = named \cup {<<process[p].hash, e.rules, name>>},
             process' = [process EXCEPT ![p] = IF process[p].left = {name} THEN Rest(p) ELSE [process[p] EXCEPT !.left = process[p].left \ {name}]]
      PROVE  IInv'
  <2>1. less(name) \in Processes /\ ProcessTrue(less(name), swapped)
    <3>1. process[p].left \in SUBSET Names
      BY <1>2, Zenon DEF Processes
    <3>2. process[p].left \ {name} \in SUBSET Names
      BY <3>1, Zenon
    <3>3. less(name) \in Processes
      BY <1>2, <3>2, Zenon DEF Processes
    <3>4. less(name) = [process[p] EXCEPT !.left = process[p].left \ {name}]
      BY Zenon
    <3>5. ProcessTrue(less(name), swapped)
      BY <1>2, <1>3, <3>2, <3>4, Zenon DEF Processes, ProcessTrue
    <3> QED BY <3>3, <3>5, Zenon
  <2>2. process' = [process EXCEPT ![p] = Rest(p)] \/ process' = [process EXCEPT ![p] = less(name)]
    <3>1. CASE process[p].left = {name}
      BY <1>5, <3>1, Zenon
    <3>2. CASE process[p].left # {name}
      BY <1>2, <1>5, <3>2, Zenon DEF IInv, Types, Processes
    <3> QED BY <3>1, <3>2, Zenon
  <2>3. ProcessesTrue'
    <3> HIDE DEF less
    <3> QED BY <1>1, <2>1, <2>2, RestIsTrue, OneProcess, Zenon
  <2>4. name \in e.names /\ name \in Names /\ e.rules \in RuleLabels
    BY <1>3, <1>5, Zenon DEF Entries
  <2>5. <<process[p].hash, e.rules>> \in swapped \/ name \in Hits(process[p].hash, e.rules)
    BY <1>2, <1>3, <2>4, Zenon DEF ProcessTrue, True
  <2>6. Types'
    BY <1>1, <1>3, <1>5, <2>3, <2>4 DEF IInv, Types, ProcessesTrue
  <2>7. NamedTrue'
    <3> SUFFICES ASSUME NEW m \in named' PROVE <<m[1], m[2]>> \in swapped \/ m[3] \in Hits(m[1], m[2])
      BY <1>1, Zenon DEF NamedTrue
    <3>1. CASE m \in named
      BY <3>1, Zenon DEF IInv, NamedTrue
    <3>2. CASE m = <<process[p].hash, e.rules, name>>
      <4>1. m[1] = process[p].hash /\ m[2] = e.rules /\ m[3] = name
        BY <3>2, Zenon
      <4> QED BY <4>1, <2>5, Zenon
    <3> QED BY <1>5, <3>1, <3>2, Zenon
  <2> QED BY <1>1, <2>3, <2>6, <2>7, Zenon DEF IInv, RowsTrue, ProcessesTrue
<1> QED BY <1>4, <1>5, Zenon DEF RecordMatch

\* A report reads the rows and changes only what the service remembers of it.
LEMMA ReportStep == ASSUME IInv, Report \/ Conclude PROVE IInv'
<1> DEFINE r == process["service"]
<1>1. UNCHANGED <<host, file, rulesFile, execs, swapped, stored, named>>
  BY Zenon DEF Report, Conclude, KeepsHost, KeepsStore
<1>2. CASE "service" \notin host.processes
  <2>1. process' = process
    BY <1>2 DEF Report, Conclude, IInv, Types
  <2> QED BY <1>1, <2>1, QuietStep, Zenon DEF IInv, Types, ProcessesTrue
<1>3. CASE "service" \in host.processes
  <2>1. r \in Processes /\ ProcessTrue(r, swapped)
    BY <1>3, Zenon DEF IInv, Types
  <2>2. ASSUME NEW pc \in {"idle", "submitted"}, NEW batch \in SUBSET Versions, NEW reported \in [Keys -> Nat],
               process' = [process EXCEPT !["service"] = [r EXCEPT !.pc = pc, !.batch = batch, !.reported = reported]]
        PROVE  IInv'
    <3> DEFINE s == [r EXCEPT !.pc = pc, !.batch = batch, !.reported = reported]
    <3>1. s \in Processes
      BY <2>1, Zenon DEF Processes, PCs
    <3>2. ProcessTrue(s, swapped)
      BY <2>1, Zenon DEF Processes, ProcessTrue
    <3> HIDE DEF s
    <3>3. ProcessesTrue'
      BY <1>1, <2>2, <3>1, <3>2, OneProcess, Zenon DEF s
    <3> QED BY <1>1, <3>3, QuietStep, Zenon DEF IInv, Types
  <2>3. r.reported \in [Keys -> Nat] /\ r.batch \in SUBSET Versions
    BY <2>1, Zenon DEF Processes
  <2>4. CASE Report
    <3>1. PICK w \in Windows :
            process' = [process EXCEPT !["service"].pc = "submitted",
                          !["service"].batch = {Version(k) : k \in {k \in w : r.reported[k] < stored[k].count}}]
      BY <2>4, Zenon DEF Report
    <3> DEFINE batch == {Version(k) : k \in {k \in w : r.reported[k] < stored[k].count}}
    <3>2. ASSUME NEW k \in Keys PROVE Version(k) \in Versions
      <4>1. {m[3] : m \in {m \in named : <<m[1], m[2]>> = k}} \in SUBSET Names
        BY Zenon DEF IInv, Types
      <4>2. stored[k].state \in States /\ stored[k].count \in Nat
        BY <3>2, Zenon DEF IInv, Types
      <4> QED BY <3>2, <4>1, <4>2, Zenon DEF Version, Versions
    <3>3. batch \in SUBSET Versions
      BY <3>2, Zenon DEF Windows, Present
    <3>4. process' = [process EXCEPT !["service"] = [r EXCEPT !.pc = "submitted", !.batch = batch, !.reported = r.reported]]
      <4> HIDE DEF batch
      <4> QED BY <1>3, <2>1, <3>1, Zenon DEF Processes, IInv, Types, batch
    <3> HIDE DEF batch
    <3> QED BY <2>2, <2>3, <3>3, <3>4, Zenon
  <2>5. CASE Conclude
    <3> DEFINE acked == [body |-> r.batch, state |-> "ACKED"] \in outbox
               sent(k) == {v.count : v \in {v \in r.batch : v.key = k}}
               reported == [k \in Keys |-> IF acked /\ sent(k) # {} THEN CHOOSE n \in sent(k) : TRUE ELSE r.reported[k]]
    <3>1. \A k \in Keys : sent(k) \subseteq Nat
      BY <2>3, Zenon DEF Versions
    <3>2. \A k \in Keys : sent(k) # {} => (CHOOSE n \in sent(k) : TRUE) \in Nat
      <4> HIDE DEF sent
      <4> QED BY <3>1, Zenon
    <3>3. reported \in [Keys -> Nat]
      <4> HIDE DEF sent, acked
      <4> QED BY <2>3, <3>2, Zenon
    <3>4. process' = [process EXCEPT !["service"].pc = "idle", !["service"].batch = {}, !["service"].reported = reported]
      BY <2>5, Zenon DEF Conclude
    <3> HIDE DEF reported
    <3>5. process' = [process EXCEPT !["service"] = [r EXCEPT !.pc = "idle", !.batch = {}, !.reported = reported]]
      BY <1>3, <2>1, <3>4, Zenon DEF Processes, IInv, Types
    <3>6. {} \in SUBSET Versions
      BY Zenon
    <3> QED BY <2>2, <3>3, <3>5, <3>6, Zenon
  <2> QED BY <2>4, <2>5, Zenon
<1> QED BY <1>2, <1>3, Zenon

\* Deliveries, refusals and pruning of summaries touch no evidence.
LEMMA QueueStep == ASSUME IInv, NEW m, Deliver(m) \/ Refuse(m) \/ PruneSummary(m) PROVE IInv'
<1>1. UNCHANGED <<host, file, rulesFile, execs, swapped, stored, named, process>>
  BY Zenon DEF Deliver, Refuse, PruneSummary, KeepsHost, KeepsStore
<1> QED BY <1>1, QuietStep, Zenon DEF IInv, Types, ProcessesTrue

\* Every step keeps the invariant.
LEMMA NextTrue == ASSUME NoRules \notin Rulesets, IInv, [EvidenceNext]_evidenceVars PROVE IInv'
<1>1. CASE Execute \/ Edit
  BY <1>1, HostStep, Zenon
<1>2. ASSUME NEW p \in host.processes, Start(p) \/ Dies(p) PROVE IInv'
  BY <1>2, StartStep, Zenon
<1>3. ASSUME NEW p \in host.processes, Step(p) PROVE IInv'
  BY <1>3, HashStep, ScanStep, RecordStep, RecordMatchStep, Zenon DEF Step
<1>4. CASE Report \/ Conclude
  BY <1>4, ReportStep, Zenon
<1>5. ASSUME NEW m \in outbox, Deliver(m) \/ Refuse(m) \/ PruneSummary(m) PROVE IInv'
  BY <1>5, QueueStep, Zenon
<1>6. CASE UNCHANGED evidenceVars
  <2>1. UNCHANGED <<host, file, rulesFile, execs, swapped, stored, named, process>>
    BY <1>6, Zenon DEF evidenceVars
  <2> QED BY <2>1, QuietStep, Zenon DEF IInv, Types, ProcessesTrue
<1> QED BY <1>1, <1>2, <1>3, <1>4, <1>5, <1>6, Zenon DEF EvidenceNext

\* Whatever the processes, files, rule sets and faults: a stored row and a stored
\* match say what the rules they name say of the content they name, unless the
\* file was replaced between its hash and its scan (scan_executed_artifact,
\* ArtifactEvidenceStore::record, YaraXProvider::scan).
THEOREM EvidenceTrue == ASSUME NoRules \notin Rulesets PROVE EvidenceSpec => []EvidenceIsOfTheContent
<1>1. EvidenceInit => IInv
  BY InitTrue, Zenon
<1>2. IInv /\ [EvidenceNext]_evidenceVars => IInv'
  BY NextTrue, Zenon
<1>3. IInv => EvidenceIsOfTheContent
  <2> SUFFICES ASSUME IInv, NEW k \in Present \ swapped
               PROVE  /\ stored[k].state \in {"NO_MATCH", "MATCH"} =>
                           k[2] # NoRules /\ (stored[k].state = "MATCH" <=> Hits(k[1], k[2]) # {})
                      /\ \A m \in named : <<m[1], m[2]>> = k => m[3] \in Hits(k[1], k[2])
    BY Zenon DEF EvidenceIsOfTheContent
  <2>1. k \in Keys \ swapped
    BY Zenon DEF Present
  <2>2. Says(k[1], k[2], stored[k].state)
    BY <2>1, Zenon DEF IInv, RowsTrue
  <2>3. ASSUME NEW m \in named, <<m[1], m[2]>> = k PROVE m[3] \in Hits(k[1], k[2])
    <3>1. k[1] = m[1] /\ k[2] = m[2]
      BY <2>3, Zenon
    <3> QED BY <2>1, <2>3, <3>1, Zenon DEF IInv, NamedTrue
  <2> QED BY <2>2, <2>3, Zenon DEF Says
<1> QED BY <1>1, <1>2, <1>3, PTL DEF EvidenceSpec
==============================================================================
