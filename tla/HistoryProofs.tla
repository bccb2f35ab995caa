---------------------------- MODULE HistoryProofs ----------------------------
(***************************************************************************)
(* The safety properties of HistoryStore, and that no pruning changes the  *)
(* baseline in force, for any number of connections, identities, rows and  *)
(* commands, and any sizes.                                                *)
(*                                                                         *)
(* The properties speak of rows that are written and statements that were  *)
(* refused; the invariant speaks of the ids that a process holds before it *)
(* writes.  Such an id names the record of the connection it is held for,  *)
(* or that record is among the losses (Held).  So a row written through it *)
(* is about the record's connection or about a lost one, a statement that  *)
(* finds no record has a loss to blame, and a prune, which adds to the     *)
(* losses every connection whose id is held, preserves this.               *)
(***************************************************************************)
EXTENDS HistoryStore, WellFoundedInduction, TLAPS

-----------------------------------------------------------------------------
(* The invariant, of the tables d, the losses l and the service's memory t *)

IsTables(d) ==
  d = [connections |-> d.connections, children |-> d.children, processes |-> d.processes,
       environment |-> d.environment, environmentOf |-> d.environmentOf, tls |-> d.tls,
       tlsOf |-> d.tlsOf, verdicts |-> d.verdicts, baselines |-> d.baselines]
IsStatement(s) == s = [at |-> s.at, c |-> s.c, id |-> s.id, value |-> s.value, todo |-> s.todo]
Shape ==
  /\ IsTables(db) /\ tracked = [c \in Conns |-> tracked[c]]
  /\ op = [a \in Actors |-> op[a]] /\ IsStatement(op["service"]) /\ IsStatement(op["cli"])

\* Row ids are positive and there are finitely many.
Bounded(ids) == \E n \in Nat : ids \subseteq 1..n
Numbered(d) ==
  Bounded(DOMAIN d.connections) /\ Bounded(DOMAIN d.tls) /\ Bounded(DOMAIN d.baselines)

\* Rows that cascade with a connection name one that is there, and are about it or
\* about one that was lost; a link names a TLS row of the service; the link to an
\* environment, one that is there.
TablesRight(d, l) ==
  /\ \A r \in d.children :
       r.conn \in DOMAIN d.connections /\ r.owner \in {d.connections[r.conn].owner} \cup l
  /\ \A k \in DOMAIN d.verdicts :
       k \in DOMAIN d.connections /\ d.verdicts[k].owner \in {d.connections[k].owner} \cup l
  /\ \A k \in DOMAIN d.tlsOf :
       d.tlsOf[k] \in DOMAIN d.tls /\ (d.tls[d.tlsOf[k]] = "service" \/ "parent" \in l)
  /\ d.environmentOf # {} => "network" \in d.environment

\* An id that is held names the record of its connection, unless that was lost.
Held(id, c, d, l) == (id \in DOMAIN d.connections /\ d.connections[id].owner = c) \/ c \in l
LiveIn(t) == {c \in Conns : t[c] \notin {None, Ended}}
MemoryRight(t, d, l) == \A c \in LiveIn(t) : Held(t[c], c, d, l)
StatementRight(s, d, l) ==
  /\ s.id # None => Held(s.id, s.c, d, l)
  /\ s.at = "verdict" => s.id # None

\* What a statement of the service refers to was written or read by an earlier one.
ServiceRight(s, t, d, l) ==
  /\ StatementRight(s, d, l)
  /\ s.at \in {"event", "addName", "addAddresses", "addTlsSession", "host", "network", "environmentLink"} =>
       s.id # None
  /\ s.at = "insertConnection" => s.c \in d.processes \/ "parent" \in l
  /\ s.at = "network" => "host" \in d.environment \/ "parent" \in l
  /\ s.at = "environmentLink" => "network" \in d.environment \/ "parent" \in l
  /\ s.at \in {"linkTls", "finalize", "finalizeColumns"} =>
       /\ s.todo \subseteq LiveIn(t)
       /\ (s.value \in DOMAIN d.tls /\ d.tls[s.value] = "service") \/ "parent" \in l

\* An export has read what is about one connection, or something lost.
CliRight(s, d, l) ==
  /\ StatementRight(s, d, l)
  /\ s.at \in {"readRows", "readVerdict", "exported"} =>
       s.id # None /\ s.c \in s.todo /\ (s.todo = {s.c} \/ s.todo \cap l # {})

Sound ==
  /\ Shape /\ Numbered(db) /\ TablesRight(db, lost) /\ MemoryRight(tracked, db, lost)
  /\ ServiceRight(op["service"], tracked, db, lost) /\ CliRight(op["cli"], db, lost)
IInv == Sound /\ RefusalsAreExplained

-----------------------------------------------------------------------------
(* Ids *)

\* A set of ids that is not empty has a greatest one.
LEMMA Greatest ==
  ASSUME NEW S, Bounded(S), S # {}
  PROVE  Max(S) \in S /\ \A y \in S : Max(S) >= y
<1>1. PICK n \in Nat : S \subseteq 1..n
  BY Zenon DEF Bounded
<1> DEFINE R == OpToRel(<, Nat)
           T == {n - x : x \in S}
<1>2. \E x \in T : \A y \in T : <<y, x>> \notin R
  <2>0. \A x \in S : x \in 1..n /\ n - x \in Nat
    BY <1>1
  <2>1. T \subseteq Nat /\ T # {}
    BY <2>0, Zenon
  <2>2. IsWellFoundedOn(R, Nat)
    BY NatLessThanWellFounded, Zenon
  <2> HIDE DEF R, T
  <2> QED
    BY <2>1, <2>2, WFMin, Zenon
<1>3. \A a, b \in Nat : <<a, b>> \in R <=> a < b
  BY Zenon DEF OpToRel
<1> HIDE DEF R
<1>4. PICK m \in S : \A y \in S : <<n - y, n - m>> \notin R
  BY <1>2, Zenon
<1>5. ASSUME NEW y \in S PROVE m >= y
  <2>1. n - y \in Nat /\ n - m \in Nat /\ m \in Nat /\ y \in Nat
    BY <1>1
  <2>2. ~(n - y < n - m)
    BY <1>3, <1>4, <2>1, Zenon
  <2> QED
    BY <2>1, <2>2
<1> QED
  BY <1>5, Zenon DEF Max

\* A new row has an id of its own, and ids stay bounded.
LEMMA NewId ==
  ASSUME NEW S, Bounded(S)
  PROVE  NextOf(S) \notin S /\ NextOf(S) # None /\ NextOf(S) # Ended /\ Bounded(S \cup {NextOf(S)})
<1>1. PICK n \in Nat : S \subseteq 1..n
  BY Zenon DEF Bounded
<1>2. CASE S = {}
  <2>1. S \cup {1} \subseteq 1..1
    BY <1>2
  <2> QED
    BY <1>2, <2>1 DEF NextOf, None, Ended, Bounded
<1>3. CASE S # {}
  <2>1. Max(S) \in S /\ \A y \in S : Max(S) >= y
    BY <1>3, Greatest, Zenon
  <2>2. Max(S) \in 1..n /\ \A y \in S : y \in 1..n
    BY <1>1, <2>1, Zenon
  <2>3. Max(S) + 1 \notin S /\ S \cup {Max(S) + 1} \subseteq 1..(n + 1)
    BY <2>1, <2>2
  <2>4. n + 1 \in Nat /\ Max(S) + 1 # 0 /\ Max(S) + 1 # -1
    BY <2>2
  <2> QED
    BY <1>3, <2>3, <2>4, Zenon DEF NextOf, None, Ended, Bounded
<1> QED
  BY <1>2, <1>3, Zenon

\* Nobody's id is None, and deleting rows leaves the ids bounded.
LEMMA FewerIds ==
  ASSUME NEW S, Bounded(S)
  PROVE  None \notin S /\ Ended \notin S /\ \A T : T \subseteq S => Bounded(T)
<1>1. PICK n \in Nat : S \subseteq 1..n
  BY Zenon DEF Bounded
<1>2. 0 \notin 1..n /\ -1 \notin 1..n
  OBVIOUS
<1>3. None \notin S /\ Ended \notin S
  BY <1>1, <1>2, Zenon DEF None, Ended
<1>4. \A T : T \subseteq S => Bounded(T)
  BY <1>1, Zenon DEF Bounded
<1> QED
  BY <1>3, <1>4, Zenon

-----------------------------------------------------------------------------
(* Tables *)

\* One UPDATE, INSERT or DELETE leaves the other tables alone.
LEMMA SetConnections ==
  ASSUME NEW d, IsTables(d), NEW x, NEW e, e = [d EXCEPT !.connections = x]
  PROVE  /\ IsTables(e) /\ e.connections = x /\ e.children = d.children
         /\ e.processes = d.processes /\ e.environment = d.environment
         /\ e.environmentOf = d.environmentOf /\ e.tls = d.tls /\ e.tlsOf = d.tlsOf
         /\ e.verdicts = d.verdicts /\ e.baselines = d.baselines
BY Zenon DEF IsTables

\* The same of the rows attached to a connection.
LEMMA SetChildren ==
  ASSUME NEW d, IsTables(d), NEW x, NEW e, e = [d EXCEPT !.children = x]
  PROVE  /\ IsTables(e) /\ e.children = x /\ e.connections = d.connections
         /\ e.processes = d.processes /\ e.environment = d.environment
         /\ e.environmentOf = d.environmentOf /\ e.tls = d.tls /\ e.tlsOf = d.tlsOf
         /\ e.verdicts = d.verdicts /\ e.baselines = d.baselines
BY Zenon DEF IsTables

\* The same of the processes.
LEMMA SetProcesses ==
  ASSUME NEW d, IsTables(d), NEW x, NEW e, e = [d EXCEPT !.processes = x]
  PROVE  /\ IsTables(e) /\ e.processes = x /\ e.connections = d.connections
         /\ e.children = d.children /\ e.environment = d.environment
         /\ e.environmentOf = d.environmentOf /\ e.tls = d.tls /\ e.tlsOf = d.tlsOf
         /\ e.verdicts = d.verdicts /\ e.baselines = d.baselines
BY Zenon DEF IsTables

\* The same of the environment snapshots.
LEMMA SetEnvironment ==
  ASSUME NEW d, IsTables(d), NEW x, NEW e, e = [d EXCEPT !.environment = x]
  PROVE  /\ IsTables(e) /\ e.environment = x /\ e.connections = d.connections
         /\ e.children = d.children /\ e.processes = d.processes
         /\ e.environmentOf = d.environmentOf /\ e.tls = d.tls /\ e.tlsOf = d.tlsOf
         /\ e.verdicts = d.verdicts /\ e.baselines = d.baselines
BY Zenon DEF IsTables

\* The same of the environment of a record.
LEMMA SetEnvironmentOf ==
  ASSUME NEW d, IsTables(d), NEW x, NEW e, e = [d EXCEPT !.environmentOf = x]
  PROVE  /\ IsTables(e) /\ e.environmentOf = x /\ e.connections = d.connections
         /\ e.children = d.children /\ e.processes = d.processes
         /\ e.environment = d.environment /\ e.tls = d.tls /\ e.tlsOf = d.tlsOf
         /\ e.verdicts = d.verdicts /\ e.baselines = d.baselines
BY Zenon DEF IsTables

\* The same of the TLS observations.
LEMMA SetTls ==
  ASSUME NEW d, IsTables(d), NEW x, NEW e, e = [d EXCEPT !.tls = x]
  PROVE  /\ IsTables(e) /\ e.tls = x /\ e.connections = d.connections /\ e.children = d.children
         /\ e.processes = d.processes /\ e.environment = d.environment
         /\ e.environmentOf = d.environmentOf /\ e.tlsOf = d.tlsOf /\ e.verdicts = d.verdicts
         /\ e.baselines = d.baselines
BY Zenon DEF IsTables

\* The same of the TLS observation of a record.
LEMMA SetTlsOf ==
  ASSUME NEW d, IsTables(d), NEW x, NEW e, e = [d EXCEPT !.tlsOf = x]
  PROVE  /\ IsTables(e) /\ e.tlsOf = x /\ e.connections = d.connections
         /\ e.children = d.children /\ e.processes = d.processes
         /\ e.environment = d.environment /\ e.environmentOf = d.environmentOf /\ e.tls = d.tls
         /\ e.verdicts = d.verdicts /\ e.baselines = d.baselines
BY Zenon DEF IsTables

\* The same of the verdicts.
LEMMA SetVerdicts ==
  ASSUME NEW d, IsTables(d), NEW x, NEW e, e = [d EXCEPT !.verdicts = x]
  PROVE  /\ IsTables(e) /\ e.verdicts = x /\ e.connections = d.connections
         /\ e.children = d.children /\ e.processes = d.processes
         /\ e.environment = d.environment /\ e.environmentOf = d.environmentOf /\ e.tls = d.tls
         /\ e.tlsOf = d.tlsOf /\ e.baselines = d.baselines
BY Zenon DEF IsTables

\* The same of the baselines.
LEMMA SetBaselines ==
  ASSUME NEW d, IsTables(d), NEW x, NEW e, e = [d EXCEPT !.baselines = x]
  PROVE  /\ IsTables(e) /\ e.baselines = x /\ e.connections = d.connections
         /\ e.children = d.children /\ e.processes = d.processes
         /\ e.environment = d.environment /\ e.environmentOf = d.environmentOf /\ e.tls = d.tls
         /\ e.tlsOf = d.tlsOf /\ e.verdicts = d.verdicts
BY Zenon DEF IsTables

\* A statement keeps its shape when it moves on. Every later proof uses this fact: a record
\* update among the hypotheses also has the SMT backend encode them without inferring types,
\* which takes longer than the proofs themselves.
LEMMA StatementMoves == \A s, step : IsStatement(s) => IsStatement([s EXCEPT !.at = step])
BY DEF IsStatement

USE StatementMoves

\* The statement a process goes on to, and those of the other.
LEMMA NextStatement ==
  ASSUME Shape, NEW a \in Actors, NEW s, IsStatement(s), op' = [op EXCEPT ![a] = s]
  PROVE  /\ op' = [b \in Actors |-> op'[b]] /\ IsStatement(op'["service"]) /\ IsStatement(op'["cli"])
         /\ op'[a] = s /\ \A b \in Actors : b # a => op'[b] = op[b]
BY Zenon DEF Shape, Actors

\* A process that is idle refers to nothing.
LEMMA IdleRight ==
  /\ IsStatement(Idle) /\ Idle.at = "idle" /\ Idle.id = None
  /\ \A t, d, l : ServiceRight(Idle, t, d, l) /\ CliRight(Idle, d, l)
BY Zenon DEF IsStatement, Idle, ServiceRight, CliRight, StatementRight

-----------------------------------------------------------------------------
(* Statements that delete nothing *)

Grows(d, e, l, m) ==
  /\ l \subseteq m
  /\ \A id \in DOMAIN d.connections :
       id \in DOMAIN e.connections /\ e.connections[id].owner = d.connections[id].owner
  /\ \A i \in DOMAIN d.tls : i \in DOMAIN e.tls /\ e.tls[i] = d.tls[i]
  /\ d.processes \subseteq e.processes /\ d.environment \subseteq e.environment

\* What processes hold and need stays there when nothing is deleted,
LEMMA GrowsKeeps ==
  ASSUME NEW d, NEW e, NEW l, NEW m, Grows(d, e, l, m)
  PROVE  /\ \A id, c : Held(id, c, d, l) => Held(id, c, e, m)
         /\ \A t : MemoryRight(t, d, l) => MemoryRight(t, e, m)
         /\ \A s, t : ServiceRight(s, t, d, l) => ServiceRight(s, t, e, m)
         /\ \A s : CliRight(s, d, l) => CliRight(s, e, m)
<1>1. \A id, c : Held(id, c, d, l) => Held(id, c, e, m)
  BY Zenon DEF Grows, Held
<1>2. \A t : MemoryRight(t, d, l) => MemoryRight(t, e, m)
  BY <1>1, Zenon DEF MemoryRight
<1>3. \A s : StatementRight(s, d, l) => StatementRight(s, e, m)
  BY <1>1, Zenon DEF StatementRight
<1>4. \A s, t : ServiceRight(s, t, d, l) => ServiceRight(s, t, e, m)
  BY <1>3 DEF Grows, ServiceRight
<1>5. \A s : CliRight(s, d, l) => CliRight(s, e, m)
  BY <1>3, Zenon DEF Grows, CliRight
<1> QED
  BY <1>1, <1>2, <1>4, <1>5, Zenon

\* and so do the references between rows.
LEMMA GrowsTables ==
  ASSUME NEW d, NEW e, NEW l, NEW m, Grows(d, e, l, m), TablesRight(d, l),
         e.children = d.children, e.verdicts = d.verdicts, e.tlsOf = d.tlsOf,
         e.environmentOf = d.environmentOf
  PROVE  TablesRight(e, m)
BY Zenon DEF Grows, TablesRight

\* A process that writes without deleting and goes on to a sound statement.
LEMMA ServiceGoes ==
  ASSUME IInv, NEW s, IsStatement(s), Goto("service", s), UNCHANGED refused,
         IsTables(db'), Numbered(db'), Grows(db, db', lost, lost'), TablesRight(db', lost'),
         tracked' = [c \in Conns |-> tracked'[c]], MemoryRight(tracked', db', lost'),
         ServiceRight(s, tracked', db', lost')
  PROVE  IInv'
<1>1. /\ op' = [b \in Actors |-> op'[b]] /\ IsStatement(op'["service"]) /\ IsStatement(op'["cli"])
      /\ op'["service"] = s /\ op'["cli"] = op["cli"]
  BY NextStatement, Zenon DEF IInv, Sound, Goto, Actors
<1>2. CliRight(op'["cli"], db', lost')
  BY <1>1, GrowsKeeps, Zenon DEF IInv, Sound
<1>3. RefusalsAreExplained'
  BY Zenon DEF IInv, RefusalsAreExplained, RefusedOnlyAfterPrune, MaintenanceNeverRefused, Grows
<1> QED
  BY <1>1, <1>2, <1>3, Zenon DEF IInv, Sound, Shape

\* The same of a command, which has no part in the service's memory.
LEMMA CliGoes ==
  ASSUME IInv, NEW s, IsStatement(s), Goto("cli", s), UNCHANGED <<tracked, refused>>,
         IsTables(db'), Numbered(db'), Grows(db, db', lost, lost'), TablesRight(db', lost'),
         CliRight(s, db', lost')
  PROVE  IInv'
<1>1. /\ op' = [b \in Actors |-> op'[b]] /\ IsStatement(op'["service"]) /\ IsStatement(op'["cli"])
      /\ op'["service"] = op["service"] /\ op'["cli"] = s
  BY NextStatement, Zenon DEF IInv, Sound, Goto, Actors
<1>2. ServiceRight(op'["service"], tracked', db', lost') /\ MemoryRight(tracked', db', lost')
  BY <1>1, GrowsKeeps, Zenon DEF IInv, Sound
<1>3. RefusalsAreExplained'
  BY Zenon DEF IInv, RefusalsAreExplained, RefusedOnlyAfterPrune, MaintenanceNeverRefused, Grows
<1> QED
  BY <1>1, <1>2, <1>3, Zenon DEF IInv, Sound, Shape

\* One that only reads.
LEMMA Unwritten == \A d, l : Grows(d, d, l, l)
BY Zenon DEF Grows

\* The service reads, and goes on to a sound statement.
LEMMA ServiceReads ==
  ASSUME IInv, NEW s, IsStatement(s), Goto("service", s), UNCHANGED <<db, tracked, lost, refused>>,
         ServiceRight(s, tracked, db, lost)
  PROVE  IInv'
<1>1. /\ IsTables(db') /\ Numbered(db') /\ Grows(db, db', lost, lost') /\ TablesRight(db', lost')
      /\ tracked' = [c \in Conns |-> tracked'[c]] /\ MemoryRight(tracked', db', lost')
      /\ ServiceRight(s, tracked', db', lost')
  BY Unwritten, Zenon DEF IInv, Sound, Shape
<1> QED
  BY <1>1, ServiceGoes, Zenon

\* A command reads, and goes on to a sound statement.
LEMMA CliReads ==
  ASSUME IInv, NEW s, IsStatement(s), Goto("cli", s), UNCHANGED <<db, tracked, lost, refused>>,
         CliRight(s, db, lost)
  PROVE  IInv'
<1>1. /\ IsTables(db') /\ Numbered(db') /\ Grows(db, db', lost, lost') /\ TablesRight(db', lost')
      /\ CliRight(s, db', lost')
  BY Unwritten, Zenon DEF IInv, Sound, Shape
<1> QED
  BY <1>1, CliGoes, Zenon

\* The death of a process leaves a sound database, and forgets what it held.
LEMMA DiesSound ==
  ASSUME Sound, NEW a \in Actors, Dies(a), UNCHANGED <<db, lost>>
  PROVE  Sound'
<1>1. /\ op' = [b \in Actors |-> op'[b]] /\ IsStatement(op'["service"]) /\ IsStatement(op'["cli"])
      /\ op'[a] = Idle /\ \A b \in Actors : b # a => op'[b] = op[b]
  BY NextStatement, IdleRight, Zenon DEF Sound, Dies, Done, Goto
<1>2. CASE a = "cli"
  <2>1. tracked' = tracked /\ op'["service"] = op["service"] /\ CliRight(op'["cli"], db', lost')
    BY <1>1, <1>2, IdleRight, Zenon DEF Dies, Actors
  <2> QED
    BY <1>1, <2>1, Zenon DEF Sound, Shape
<1>3. CASE a = "service"
  <2>1. tracked' = [c \in Conns |-> tracked'[c]] /\ LiveIn(tracked') = {}
    BY <1>3, Zenon DEF Dies, LiveIn, None, Ended
  <2>2. op'["cli"] = op["cli"] /\ ServiceRight(op'["service"], tracked', db', lost')
    BY <1>1, <1>3, IdleRight, Zenon DEF Actors
  <2> QED
    BY <1>1, <2>1, <2>2, Zenon DEF Sound, Shape, MemoryRight
<1> QED
  BY <1>2, <1>3, Zenon DEF Actors

\* A refused statement does no more than end its process, and there is a loss to blame.
LEMMA Refused ==
  ASSUME IInv, NEW a \in Actors, Refuse(a), lost # {}
  PROVE  IInv' /\ db' = db
<1>1. Sound'
  BY DiesSound, Zenon DEF IInv, Refuse
<1>2. RefusalsAreExplained'
  BY Zenon DEF IInv, Refuse, RefusalsAreExplained, RefusedOnlyAfterPrune, MaintenanceNeverRefused, Actors
<1> QED
  BY <1>1, <1>2, Zenon DEF IInv, Refuse

-----------------------------------------------------------------------------
(* The service's writers *)

\* Rows about a connection, attached to its record.
LEMMA MoreChildren ==
  ASSUME IInv, NEW X, db' = [db EXCEPT !.children = X], lost' = lost,
         \A r \in X : \/ r \in db.children
                      \/ r.conn \in Ids /\ Held(r.conn, r.owner, db, lost)
  PROVE  /\ IsTables(db') /\ Numbered(db') /\ Grows(db, db', lost, lost') /\ TablesRight(db', lost')
         /\ db'.baselines = db.baselines
<1>1. /\ IsTables(db') /\ db'.children = X /\ db'.connections = db.connections
      /\ db'.processes = db.processes /\ db'.environment = db.environment
      /\ db'.environmentOf = db.environmentOf /\ db'.tls = db.tls /\ db'.tlsOf = db.tlsOf
      /\ db'.verdicts = db.verdicts /\ db'.baselines = db.baselines
  BY SetChildren DEF IInv, Sound, Shape
<1>2. Numbered(db') /\ Grows(db, db', lost, lost')
  BY <1>1, Zenon DEF IInv, Sound, Numbered, Grows
<1>3. \A r \in X : r.conn \in Ids /\ r.owner \in {OwnerOf(r.conn)} \cup lost
  BY Zenon DEF IInv, Sound, TablesRight, Held, Ids, OwnerOf
<1>4. TablesRight(db', lost')
  BY <1>1, <1>3, Zenon DEF IInv, Sound, TablesRight, Ids, OwnerOf
<1> QED
  BY <1>1, <1>2, <1>4, Zenon

\* One such row of the service, refused when the record is gone.
LEMMA ChildStep ==
  ASSUME IInv, NEW c, NEW id, Held(id, c, db, lost),
         NEW s, IsStatement(s), ServiceRight(s, tracked, db, lost), InsertChild(c, id, s)
  PROVE  IInv' /\ db'.baselines = db.baselines
<1>1. CASE id \notin Ids
  <2>1. lost # {} /\ Refuse("service")
    BY <1>1, Zenon DEF InsertChild, Held, Ids
  <2> QED
    BY <2>1, Refused, Zenon DEF Actors
<1>2. CASE id \in Ids
  <2> DEFINE X == db.children \cup {[conn |-> id, owner |-> c]}
  <2>1. db' = [db EXCEPT !.children = X] /\ Goto("service", s) /\ UNCHANGED <<tracked, lost, refused>>
    BY <1>2, Zenon DEF InsertChild, memory
  <2>2. \A r \in X : r \in db.children \/ (r.conn \in Ids /\ Held(r.conn, r.owner, db, lost))
    BY <1>2
  <2> HIDE DEF X
  <2>3. /\ IsTables(db') /\ Numbered(db') /\ Grows(db, db', lost, lost') /\ TablesRight(db', lost')
        /\ db'.baselines = db.baselines
    BY <2>1, <2>2, MoreChildren, Zenon
  <2>4. /\ MemoryRight(tracked', db', lost') /\ ServiceRight(s, tracked', db', lost')
        /\ tracked' = [b \in Conns |-> tracked'[b]]
    BY <2>1, <2>3, GrowsKeeps, Zenon DEF IInv, Sound, Shape
  <2> QED
    BY <2>1, <2>3, <2>4, ServiceGoes, Zenon
<1> QED
  BY <1>1, <1>2, Zenon

\* What a live connection and the statement of the service hold.
LEMMA Holders ==
  ASSUME IInv
  PROVE  /\ Live = LiveIn(tracked)
         /\ \A c \in Live : Held(tracked[c], c, db, lost) /\ tracked[c] # None
         /\ \A a \in Actors : /\ IsStatement(op[a])
                              /\ op[a].id # None => Held(op[a].id, op[a].c, db, lost)
                              /\ op[a].at = "verdict" => op[a].id # None
         /\ None \notin Ids
<1>1. Live = LiveIn(tracked)
  BY Zenon DEF Live, LiveIn
<1>2. \A c \in Live : Held(tracked[c], c, db, lost) /\ tracked[c] # None
  BY <1>1, Zenon DEF IInv, Sound, MemoryRight, Live
<1>3. \A a \in Actors : /\ IsStatement(op[a])
                        /\ op[a].id # None => Held(op[a].id, op[a].c, db, lost)
                        /\ op[a].at = "verdict" => op[a].id # None
  BY Zenon DEF IInv, Sound, Shape, ServiceRight, CliRight, StatementRight, Actors
<1>4. None \notin Ids
  BY FewerIds, Zenon DEF IInv, Sound, Numbered, Ids
<1> QED
  BY <1>1, <1>2, <1>3, <1>4, Zenon

\* begin_connection: the row of the process, then the record.
LEMMA BeginStep ==
  ASSUME IInv, NEW c \in Conns, BeginConnection(c)
  PROVE  IInv' /\ db'.baselines = db.baselines
<1> DEFINE X == db.processes \cup {c}
<1>0. PICK s : s = [Idle EXCEPT !.at = "insertConnection", !.c = c]
  BY Zenon
<1>1. /\ Goto("service", s) /\ UNCHANGED <<tracked, lost, refused>>
      /\ db' = [db EXCEPT !.processes = X]
  BY <1>0, Zenon DEF BeginConnection, memory
<1>2. IsStatement(s) /\ s.at = "insertConnection" /\ s.c = c /\ s.id = None
  BY <1>0, Zenon DEF IsStatement, Idle
<1>3. c \in X /\ db.processes \subseteq X
  BY Zenon
<1> HIDE DEF X
<1>4. /\ IsTables(db') /\ db'.processes = X /\ db'.connections = db.connections
      /\ db'.children = db.children /\ db'.environment = db.environment
      /\ db'.environmentOf = db.environmentOf /\ db'.tls = db.tls /\ db'.tlsOf = db.tlsOf
      /\ db'.verdicts = db.verdicts /\ db'.baselines = db.baselines
  BY <1>1, SetProcesses DEF IInv, Sound, Shape
<1>5. Numbered(db') /\ Grows(db, db', lost, lost')
  BY <1>1, <1>3, <1>4, Zenon DEF IInv, Sound, Numbered, Grows
<1>6. TablesRight(db', lost') /\ MemoryRight(tracked', db', lost') /\ tracked' = [b \in Conns |-> tracked'[b]]
  BY <1>1, <1>4, <1>5, GrowsTables, GrowsKeeps, Zenon DEF IInv, Sound, Shape
<1>7. ServiceRight(s, tracked', db', lost')
  BY <1>2, <1>3, <1>4, Zenon DEF ServiceRight, StatementRight
<1> QED
  BY <1>1, <1>2, <1>4, <1>5, <1>6, <1>7, ServiceGoes, Zenon

\* The record gets an id that no other has, and is held from then on.
LEMMA InsertStep ==
  ASSUME IInv, InsertConnection
  PROVE  IInv' /\ db'.baselines = db.baselines
<1> DEFINE c == op["service"].c
           n == NextOf(Ids)
           r == [owner |-> c, anomalous |-> FALSE]
           X == With(db.connections, n, r)
<1>1. CASE c \notin db.processes
  <2>1. lost # {} /\ Refuse("service")
    BY <1>1, Zenon DEF InsertConnection, IInv, Sound, ServiceRight
  <2> QED
    BY <2>1, Refused, Zenon DEF Actors
<1>2. CASE c \in db.processes
  <2>1. /\ db' = [db EXCEPT !.connections = X] /\ tracked' = [tracked EXCEPT ![c] = n]
        /\ Goto("service", Idle) /\ UNCHANGED <<lost, refused>>
    BY <1>2, Zenon DEF InsertConnection, Done
  <2>2. n \notin Ids /\ Bounded(Ids \cup {n})
    BY NewId, Zenon DEF IInv, Sound, Numbered, Ids
  <2>3. DOMAIN X = Ids \cup {n} /\ X[n].owner = c /\ \A id \in Ids : X[id] = db.connections[id]
    <3>1. r.owner = c
      BY Zenon
    <3> HIDE DEF r, c, n
    <3>2. /\ DOMAIN X = DOMAIN db.connections \cup {n} /\ X[n] = r
          /\ \A id \in DOMAIN db.connections : id # n => X[id] = db.connections[id]
      BY Zenon DEF With
    <3> QED
      BY <2>2, <3>1, <3>2, Zenon DEF Ids
  <2> HIDE DEF X, n, r, c
  <2>4. /\ IsTables(db') /\ db'.connections = X /\ db'.processes = db.processes
        /\ db'.children = db.children /\ db'.environment = db.environment
        /\ db'.environmentOf = db.environmentOf /\ db'.tls = db.tls /\ db'.tlsOf = db.tlsOf
        /\ db'.verdicts = db.verdicts /\ db'.baselines = db.baselines
    BY <2>1, SetConnections DEF IInv, Sound, Shape
  <2>5. Numbered(db') /\ Grows(db, db', lost, lost')
    BY <2>1, <2>2, <2>3, <2>4, Zenon DEF IInv, Sound, Numbered, Grows, Ids
  <2>6. TablesRight(db', lost')
    BY <2>4, <2>5, GrowsTables, Zenon DEF IInv, Sound
  <2>7. /\ tracked' = [b \in Conns |-> tracked'[b]]
        /\ \A b \in Conns : tracked'[b] = IF b = c THEN n ELSE tracked[b]
    BY <2>1, Zenon DEF IInv, Sound, Shape
  <2>8. MemoryRight(tracked, db', lost')
    BY <2>5, GrowsKeeps, Zenon DEF IInv, Sound
  <2>9. MemoryRight(tracked', db', lost')
    BY <2>3, <2>4, <2>7, <2>8, Zenon DEF MemoryRight, LiveIn, Held
  <2> QED
    BY <2>1, <2>4, <2>5, <2>6, <2>7, <2>9, IdleRight, ServiceGoes, Zenon
<1> QED
  BY <1>1, <1>2, Zenon

\* A statement about the record that is held.
LEMMA AboutRecord ==
  ASSUME NEW c, NEW id, Held(id, c, db, lost), id # None,
         NEW at \in {"event", "addName", "addTlsSession", "host"},
         NEW p, p = [Idle EXCEPT !.at = at, !.c = c, !.id = id]
  PROVE  IsStatement(p) /\ ServiceRight(p, tracked, db, lost)
<1>1. IsStatement(p) /\ p.at = at /\ p.c = c /\ p.id = id
  BY Zenon DEF IsStatement, Idle
<1> QED
  BY <1>1, Zenon DEF ServiceRight, StatementRight

\* add_tcp_sample: one row about the record held.
LEMMA SampleStep ==
  ASSUME IInv, NEW c \in Conns, AddTcpSample(c)
  PROVE  IInv' /\ db'.baselines = db.baselines
<1>1. Held(tracked[c], c, db, lost) /\ InsertChild(c, tracked[c], Idle)
  BY Holders, Zenon DEF AddTcpSample
<1> QED
  BY <1>1, IdleRight, ChildStep, Zenon

\* touch_connection writes the row that has the id held.
LEMMA TouchStep ==
  ASSUME IInv, NEW c \in Conns, TouchConnection(c)
  PROVE  IInv' /\ db'.baselines = db.baselines
<1> DEFINE X == db.children \cup Columns(tracked[c], c)
<1>0. PICK s : s = [Idle EXCEPT !.at = "event", !.c = c, !.id = tracked[c]]
  BY Zenon
<1>1. /\ Goto("service", s) /\ UNCHANGED <<tracked, lost, refused>>
      /\ db' = [db EXCEPT !.children = X]
  BY <1>0, Zenon DEF TouchConnection, memory
<1>2. Held(tracked[c], c, db, lost) /\ tracked[c] # None
  BY Holders, Zenon DEF TouchConnection
<1>3. IsStatement(s) /\ ServiceRight(s, tracked, db, lost)
  BY <1>0, <1>2, AboutRecord, Zenon
<1>4. \A r \in X : r \in db.children \/ (r.conn \in Ids /\ Held(r.conn, r.owner, db, lost))
  BY <1>2 DEF Columns
<1> HIDE DEF X
<1>5. /\ IsTables(db') /\ Numbered(db') /\ Grows(db, db', lost, lost') /\ TablesRight(db', lost')
      /\ db'.baselines = db.baselines
  BY <1>1, <1>4, MoreChildren, Zenon
<1>6. /\ MemoryRight(tracked', db', lost') /\ ServiceRight(s, tracked', db', lost')
      /\ tracked' = [b \in Conns |-> tracked'[b]]
  BY <1>1, <1>3, <1>5, GrowsKeeps, Zenon DEF IInv, Sound, Shape
<1> QED
  BY <1>1, <1>3, <1>5, <1>6, ServiceGoes, Zenon

\* The statements that follow a lookup or the first row, each about the record held.
LEMMA HeldByService ==
  ASSUME IInv, op["service"].at \in {"event", "addName", "addAddresses", "addTlsSession",
                                     "host", "network", "environmentLink"}
  PROVE  /\ op["service"].id # None /\ IsStatement(op["service"])
         /\ Held(op["service"].id, op["service"].c, db, lost)
<1>1. op["service"].id # None
  BY Zenon DEF IInv, Sound, ServiceRight
<1> QED
  BY <1>1, Holders, Zenon DEF Actors

\* The lifecycle event, and the evidence of a TLS session.
LEMMA EventStep ==
  ASSUME IInv, AddLifecycleEvent \/ AddTlsSessionEvidence
  PROVE  IInv' /\ db'.baselines = db.baselines
<1>1. /\ op["service"].at \in {"event", "addTlsSession"}
      /\ InsertChild(op["service"].c, op["service"].id, Idle)
  BY Zenon DEF AddLifecycleEvent, AddTlsSessionEvidence
<1> QED
  BY <1>1, HeldByService, IdleRight, ChildStep, Zenon

\* A lookup finds the record of the connection itself.
LEMMA CorrelateStep ==
  ASSUME IInv, NEW c \in Conns, Correlate(c)
  PROVE  IInv' /\ db'.baselines = db.baselines
<1>1. PICK at \in {"addName", "addTlsSession"} :
        Goto("service", [Idle EXCEPT !.at = at, !.c = c, !.id = tracked[c]])
  BY Zenon DEF Correlate
<1>2. PICK s : s = [Idle EXCEPT !.at = at, !.c = c, !.id = tracked[c]]
  BY Zenon
<1>3. Goto("service", s) /\ UNCHANGED <<db, tracked, lost, refused>>
  BY <1>1, <1>2, Zenon DEF Correlate, memory
<1>4. Held(tracked[c], c, db, lost) /\ tracked[c] # None
  BY Holders, Zenon DEF Correlate
<1>5. IsStatement(s) /\ ServiceRight(s, tracked, db, lost)
  BY <1>2, <1>4, AboutRecord, Zenon
<1> QED
  BY <1>3, <1>5, ServiceReads, Zenon

\* The name resolution first, its addresses by a later statement.
LEMMA NameStep ==
  ASSUME IInv, AddNameResolutionEvidence
  PROVE  IInv' /\ db'.baselines = db.baselines
<1> DEFINE s == op["service"]
<1>1. CASE s.at = "addName" /\ InsertChild(s.c, s.id, [s EXCEPT !.at = "addAddresses"])
  <2>1. s.id # None /\ IsStatement(s) /\ Held(s.id, s.c, db, lost)
    BY <1>1, HeldByService, Zenon
  <2>2. PICK p : p = [s EXCEPT !.at = "addAddresses"]
    BY Zenon
  <2>3. IsStatement(p) /\ p.at = "addAddresses" /\ p.c = s.c /\ p.id = s.id
    BY <2>1, <2>2, Zenon DEF IsStatement
  <2>4. ServiceRight(p, tracked, db, lost)
    BY <2>1, <2>3, Zenon DEF ServiceRight, StatementRight
  <2> QED
    BY <1>1, <2>1, <2>2, <2>3, <2>4, ChildStep, Zenon
<1>2. CASE s.at = "addAddresses" /\ InsertChild(s.c, s.id, Idle)
  BY <1>2, HeldByService, IdleRight, ChildStep, Zenon
<1> QED
  BY <1>1, <1>2, Zenon DEF AddNameResolutionEvidence

\* The route, after which the environment is written.
LEMMA RouteStep ==
  ASSUME IInv, NEW c \in Conns, AddRoute(c)
  PROVE  IInv' /\ db'.baselines = db.baselines
<1>1. PICK s : s = [Idle EXCEPT !.at = "host", !.c = c, !.id = tracked[c]]
  BY Zenon
<1>2. Held(tracked[c], c, db, lost) /\ tracked[c] # None /\ InsertChild(c, tracked[c], s)
  BY <1>1, Holders, Zenon DEF AddRoute
<1>3. IsStatement(s) /\ ServiceRight(s, tracked, db, lost)
  BY <1>1, <1>2, AboutRecord, Zenon
<1> QED
  BY <1>2, <1>3, ChildStep, Zenon

-----------------------------------------------------------------------------
(* Writers in several tables, and of either process *)

\* What a statement that only writes leaves of the invariant on the tables.
Written ==
  /\ IsTables(db') /\ Numbered(db') /\ Grows(db, db', lost, lost') /\ TablesRight(db', lost')
  /\ db'.baselines = db.baselines

\* A statement of either process, possibly one whose refusal is caught.
LEMMA Goes ==
  ASSUME IInv, NEW a \in Actors, NEW s, IsStatement(s), Goto(a, s), Written, tracked' = tracked,
         refused' = refused \/ (refused' = refused \cup {a} /\ lost # {}),
         ServiceRight(s, tracked, db', lost'), CliRight(s, db', lost')
  PROVE  IInv' /\ db'.baselines = db.baselines
<1>1. /\ op' = [b \in Actors |-> op'[b]] /\ IsStatement(op'["service"]) /\ IsStatement(op'["cli"])
      /\ op'[a] = s /\ \A b \in Actors : b # a => op'[b] = op[b]
  BY NextStatement, Zenon DEF IInv, Sound, Goto
<1>2. /\ MemoryRight(tracked', db', lost') /\ CliRight(op["cli"], db', lost')
      /\ ServiceRight(op["service"], tracked, db', lost')
  BY GrowsKeeps, Zenon DEF IInv, Sound, Written
<1>3. ServiceRight(op'["service"], tracked', db', lost') /\ CliRight(op'["cli"], db', lost')
  BY <1>1, <1>2, Zenon DEF Actors
<1>4. RefusalsAreExplained'
  BY Zenon DEF IInv, RefusalsAreExplained, RefusedOnlyAfterPrune, MaintenanceNeverRefused, Actors, Written, Grows
<1> QED
  BY <1>1, <1>2, <1>3, <1>4, Zenon DEF IInv, Sound, Shape, Written

\* The service writes in one table, and goes on to a sound statement.
LEMMA ServiceWrites ==
  ASSUME IInv, NEW s, IsStatement(s), Goto("service", s), Written, UNCHANGED <<tracked, refused>>,
         ServiceRight(s, tracked, db', lost')
  PROVE  IInv' /\ db'.baselines = db.baselines
<1>1. tracked' = [c \in Conns |-> tracked'[c]] /\ MemoryRight(tracked', db', lost')
  BY GrowsKeeps, Zenon DEF IInv, Sound, Shape, Written
<1> QED
  BY <1>1, ServiceGoes, Zenon DEF Written

\* A process that ends, by itself or by a crash, disturbs nothing.
LEMMA DiesRight ==
  ASSUME IInv, NEW a \in Actors, Dies(a), UNCHANGED <<db, lost, refused>>
  PROVE  IInv' /\ db'.baselines = db.baselines
<1>1. Sound'
  BY DiesSound, Zenon DEF IInv
<1> QED
  BY <1>1, Zenon DEF IInv, RefusalsAreExplained, RefusedOnlyAfterPrune, MaintenanceNeverRefused

\* Host, network and link: each finds the row it refers to, or that row was pruned.
LEMMA EnvironmentStep ==
  ASSUME IInv, AddHostNetworkEnvironment
  PROVE  IInv' /\ db'.baselines = db.baselines
<1> DEFINE s == op["service"]
<1>1. CASE s.at = "host" /\ Done("service") /\ UNCHANGED <<db, memory>>
  BY <1>1, IdleRight, ServiceReads, Zenon DEF Done, memory
<1>2. ASSUME s.at \in Parents, ~(ParentOf[s.at] \subseteq db.environment), Refuse("service")
      PROVE  IInv' /\ db'.baselines = db.baselines
  <2>1. s.at = "network" /\ "host" \notin db.environment
    BY <1>2 DEF Parents, ParentOf
  <2>2. "parent" \in lost
    BY <2>1, Zenon DEF IInv, Sound, ServiceRight
  <2> QED
    BY <1>2, <2>2, Refused, Zenon DEF Actors
<1>3. ASSUME s.at \in Parents, ParentOf[s.at] \subseteq db.environment,
             db' = [db EXCEPT !.environment = @ \cup {s.at}],
             Goto("service", [s EXCEPT !.at = AfterParent[s.at]]), UNCHANGED memory
      PROVE  IInv' /\ db'.baselines = db.baselines
  <2> DEFINE X == db.environment \cup {s.at}
  <2>1. s.id # None /\ IsStatement(s) /\ Held(s.id, s.c, db, lost)
    BY <1>3, HeldByService, Zenon DEF Parents
  <2>2. PICK p : p = [s EXCEPT !.at = AfterParent[s.at]]
    BY Zenon
  <2>3. IsStatement(p) /\ p.at = AfterParent[s.at] /\ p.c = s.c /\ p.id = s.id
    BY <2>1, <2>2, Zenon DEF IsStatement
  <2>4. s.at \in X /\ db.environment \subseteq X /\ db' = [db EXCEPT !.environment = X]
    BY <1>3, Zenon
  <2>5. (s.at = "host" /\ p.at = "network") \/ (s.at = "network" /\ p.at = "environmentLink")
    <3>1. AfterParent["host"] = "network" /\ AfterParent["network"] = "environmentLink"
      BY Zenon DEF AfterParent
    <3>2. s.at = "host" \/ s.at = "network"
      BY <1>3, Zenon DEF Parents
    <3> QED
      BY <2>3, <3>1, <3>2, Zenon
  <2> HIDE DEF X
  <2>6. /\ IsTables(db') /\ db'.environment = X /\ db'.connections = db.connections
        /\ db'.children = db.children /\ db'.processes = db.processes
        /\ db'.environmentOf = db.environmentOf /\ db'.tls = db.tls /\ db'.tlsOf = db.tlsOf
        /\ db'.verdicts = db.verdicts /\ db'.baselines = db.baselines
    BY <2>4, SetEnvironment DEF IInv, Sound, Shape
  <2>7. Numbered(db') /\ Grows(db, db', lost, lost')
    BY <1>3, <2>4, <2>6, Zenon DEF IInv, Sound, Numbered, Grows, memory
  <2>8. Written
    BY <2>6, <2>7, GrowsTables, Zenon DEF IInv, Sound, Written
  <2>9. Held(p.id, p.c, db', lost')
    BY <2>1, <2>3, <2>7, GrowsKeeps, Zenon
  <2>10. ServiceRight(p, tracked, db', lost')
    BY <2>1, <2>3, <2>4, <2>5, <2>6, <2>9, Zenon DEF ServiceRight, StatementRight
  <2> QED
    BY <1>3, <2>2, <2>3, <2>8, <2>10, ServiceWrites, Zenon DEF memory
<1>4. ASSUME s.at = "environmentLink", s.id \notin Ids \/ "network" \notin db.environment, Refuse("service")
      PROVE  IInv' /\ db'.baselines = db.baselines
  <2>1. Held(s.id, s.c, db, lost)
    BY <1>4, HeldByService, Zenon
  <2>2. lost # {}
    BY <1>4, <2>1, Zenon DEF IInv, Sound, ServiceRight, Held, Ids
  <2> QED
    BY <1>4, <2>2, Refused, Zenon DEF Actors
<1>5. ASSUME s.id \in Ids, "network" \in db.environment,
             db' = [db EXCEPT !.environmentOf = @ \cup {s.id}], Done("service"), UNCHANGED memory
      PROVE  IInv' /\ db'.baselines = db.baselines
  <2> DEFINE X == db.environmentOf \cup {s.id}
  <2>1. db' = [db EXCEPT !.environmentOf = X]
    BY <1>5, Zenon
  <2> HIDE DEF X
  <2>2. /\ IsTables(db') /\ db'.environment = db.environment /\ db'.connections = db.connections
        /\ db'.children = db.children /\ db'.processes = db.processes
        /\ db'.tls = db.tls /\ db'.tlsOf = db.tlsOf
        /\ db'.verdicts = db.verdicts /\ db'.baselines = db.baselines
    BY <2>1, SetEnvironmentOf DEF IInv, Sound, Shape
  <2>3. Numbered(db') /\ Grows(db, db', lost, lost')
    BY <1>5, <2>2, Zenon DEF IInv, Sound, Numbered, Grows, memory
  <2>4. Written
    BY <1>5, <2>2, <2>3, Zenon DEF IInv, Sound, TablesRight, Written, memory
  <2> QED
    BY <1>5, <2>4, IdleRight, ServiceWrites, Zenon DEF Done, memory
<1> QED
  BY <1>1, <1>2, <1>3, <1>4, <1>5, Zenon DEF AddHostNetworkEnvironment

\* A completed connection leaves the tracker; its verdict holds the id.
LEMMA CompleteStep ==
  ASSUME IInv, NEW c \in Conns, CompleteConnection(c)
  PROVE  IInv' /\ db'.baselines = db.baselines
<1>1. tracked' = [tracked EXCEPT ![c] = Ended] /\ UNCHANGED <<db, lost, refused>>
  BY Zenon DEF CompleteConnection
<1>2. /\ tracked' = [b \in Conns |-> tracked'[b]]
      /\ \A b \in Conns : tracked'[b] = IF b = c THEN Ended ELSE tracked[b]
  BY <1>1, Zenon DEF IInv, Sound, Shape
<1>3. MemoryRight(tracked', db', lost')
  BY <1>1, <1>2, Zenon DEF IInv, Sound, MemoryRight, LiveIn
<1>4. PICK p : /\ Goto("service", p)
               /\ \/ p = Idle
                  \/ p = [Idle EXCEPT !.at = "verdict", !.c = c, !.id = tracked[c], !.value = LatestBaseline]
  BY Zenon DEF CompleteConnection, Done
<1>5. IsStatement(p) /\ ServiceRight(p, tracked', db', lost')
  <2>1. CASE p = Idle
    BY <2>1, IdleRight, Zenon
  <2>2. CASE p = [Idle EXCEPT !.at = "verdict", !.c = c, !.id = tracked[c], !.value = LatestBaseline]
    <3>1. IsStatement(p) /\ p.at = "verdict" /\ p.c = c /\ p.id = tracked[c]
      BY <2>2, Zenon DEF IsStatement, Idle
    <3>2. Held(tracked[c], c, db, lost) /\ tracked[c] # None
      BY Holders, Zenon DEF CompleteConnection
    <3> QED
      BY <1>1, <3>1, <3>2, Zenon DEF ServiceRight, StatementRight
  <2> QED
    BY <1>4, <2>1, <2>2, Zenon
<1>6. /\ IsTables(db') /\ Numbered(db') /\ Grows(db, db', lost, lost') /\ TablesRight(db', lost')
      /\ db'.baselines = db.baselines
  BY <1>1, Unwritten, Zenon DEF IInv, Sound, Shape
<1> QED
  BY <1>1, <1>2, <1>3, <1>4, <1>5, <1>6, ServiceGoes, Zenon

\* The verdict of a connection, written to the record that is held for it.
LEMMA VerdictWritten ==
  ASSUME IInv, NEW id, NEW c, NEW v, id \in Ids, Held(id, c, db, lost), v.owner = c,
         db' = [db EXCEPT !.verdicts = With(db.verdicts, id, v)], lost' = lost
  PROVE  Written
<1> DEFINE X == With(db.verdicts, id, v)
<1>1. /\ DOMAIN X = DOMAIN db.verdicts \cup {id} /\ X[id] = v
      /\ \A k \in DOMAIN db.verdicts : k # id => X[k] = db.verdicts[k]
  BY Zenon DEF With
<1>2. db' = [db EXCEPT !.verdicts = X]
  BY Zenon
<1> HIDE DEF X
<1>3. /\ IsTables(db') /\ db'.verdicts = X /\ db'.connections = db.connections
      /\ db'.children = db.children /\ db'.processes = db.processes /\ db'.environment = db.environment
      /\ db'.environmentOf = db.environmentOf /\ db'.tls = db.tls /\ db'.tlsOf = db.tlsOf
      /\ db'.baselines = db.baselines
  <2>1. IsTables(db)
    BY Zenon DEF IInv, Sound, Shape
  <2> QED
    BY ONLY <1>2, <2>1, SetVerdicts
<1>4. Numbered(db') /\ Grows(db, db', lost, lost')
  BY <1>3, Zenon DEF IInv, Sound, Numbered, Grows
<1>5. \A k \in DOMAIN X : k \in Ids /\ X[k].owner \in {OwnerOf(k)} \cup lost
  BY <1>1, Zenon DEF IInv, Sound, TablesRight, Held, Ids, OwnerOf
<1> QED
  BY <1>3, <1>4, <1>5, Zenon DEF IInv, Sound, TablesRight, Written, Ids, OwnerOf

\* save_verdict, first statement: refused only when the record was pruned.
LEMMA VerdictStep ==
  ASSUME IInv, NEW a \in Actors, SaveVerdict(a)
  PROVE  IInv' /\ db'.baselines = db.baselines
<1> DEFINE s == op[a]
           v == [owner |-> s.c, baseline |-> s.value, tls |-> None]
<1>1. IsStatement(s) /\ s.id # None /\ Held(s.id, s.c, db, lost) /\ UNCHANGED <<tracked, lost>>
  BY Holders, Zenon DEF SaveVerdict
<1>2. CASE s.id \in Ids
  <2>1. db' = [db EXCEPT !.verdicts = With(db.verdicts, s.id, v)] /\ v.owner = s.c /\ refused' = refused
    BY <1>2, Zenon DEF SaveVerdict, PutVerdict
  <2> HIDE DEF v
  <2>2. Written
    BY <1>1, <1>2, <2>1, VerdictWritten, Zenon
  <2>3. PICK p : p = [s EXCEPT !.at = "verdictColumns"]
    BY Zenon
  <2>4. Goto(a, p)
    BY <1>2, <2>3, Zenon DEF SaveVerdict
  <2>5. IsStatement(p) /\ p.at = "verdictColumns" /\ p.c = s.c /\ p.id = s.id
    BY <1>1, <2>3, Zenon DEF IsStatement
  <2>6. Held(s.id, s.c, db', lost')
    BY <1>1, <2>2, GrowsKeeps DEF Written
  <2>7. ServiceRight(p, tracked, db', lost') /\ CliRight(p, db', lost')
    BY <2>5, <2>6, Zenon DEF ServiceRight, CliRight, StatementRight
  <2> QED
    BY <1>1, <2>1, <2>2, <2>4, <2>5, <2>7, Goes, Zenon
<1>3. CASE s.id \notin Ids
  <2>1. Goto(a, Idle) /\ refused' = refused \cup {a} /\ db' = db /\ lost # {}
    BY <1>1, <1>3, Zenon DEF SaveVerdict, Done, Held, Ids
  <2>2. Written
    BY <1>1, <2>1, Unwritten, Zenon DEF IInv, Sound, Shape, Written
  <2> QED
    BY <1>1, <2>1, <2>2, IdleRight, Goes, Zenon
<1> QED
  BY <1>2, <1>3, Zenon

\* The columns of the record, and a row about the connection they are of.
LEMMA ColumnsWritten ==
  ASSUME IInv, NEW s, s.id # None => Held(s.id, s.c, db, lost), SetColumns(s), lost' = lost
  PROVE  Written
<1>1. PICK q \in BOOLEAN :
        db' = [db EXCEPT
                 !.connections = [i \in Ids |-> IF i = s.id THEN [owner |-> OwnerOf(i), anomalous |-> q]
                                                 ELSE db.connections[i]],
                 !.children = @ \cup Columns(s.id, s.c)]
  BY Zenon DEF SetColumns
<1> DEFINE X == [i \in Ids |-> IF i = s.id THEN [owner |-> OwnerOf(i), anomalous |-> q]
                                           ELSE db.connections[i]]
           Y == db.children \cup Columns(s.id, s.c)
<1>2. DOMAIN X = Ids /\ \A i \in Ids : X[i].owner = OwnerOf(i)
  BY Zenon DEF OwnerOf
<1>3. \A r \in Y : r.conn \in Ids /\ r.owner \in {OwnerOf(r.conn)} \cup lost
  <2>1. \A r \in db.children : r.conn \in Ids /\ r.owner \in {OwnerOf(r.conn)} \cup lost
    BY Zenon DEF IInv, Sound, TablesRight, Ids, OwnerOf
  <2>2. s.id \in Ids => s.c \in {OwnerOf(s.id)} \cup lost
    BY Holders, Zenon DEF Held, Ids, OwnerOf
  <2> QED
    BY <2>1, <2>2 DEF Columns
<1>4. db' = [db EXCEPT !.connections = X, !.children = Y]
  BY <1>1, Zenon
<1> HIDE DEF X, Y
<1>5. /\ IsTables(db') /\ db'.connections = X /\ db'.children = Y /\ db'.verdicts = db.verdicts
      /\ db'.processes = db.processes /\ db'.environment = db.environment
      /\ db'.environmentOf = db.environmentOf /\ db'.tls = db.tls /\ db'.tlsOf = db.tlsOf
      /\ db'.baselines = db.baselines
  <2>1. IsTables(db)
    BY Zenon DEF IInv, Sound, Shape
  <2> QED
    BY ONLY <1>4, <2>1, Zenon DEF IsTables
<1>6. Numbered(db') /\ Grows(db, db', lost, lost')
  BY <1>2, <1>5, Zenon DEF IInv, Sound, Numbered, Grows, Ids, OwnerOf
<1> QED
  BY <1>2, <1>3, <1>5, <1>6, Zenon DEF IInv, Sound, TablesRight, Written, Ids, OwnerOf

\* save_verdict, second statement.
LEMMA ColumnsStep ==
  ASSUME IInv, NEW a \in Actors, SaveVerdictColumns(a)
  PROVE  IInv' /\ db'.baselines = db.baselines
<1>1. SetColumns(op[a]) /\ Goto(a, Idle) /\ UNCHANGED <<tracked, lost, refused>>
  BY Zenon DEF SaveVerdictColumns, Done
<1>2. Written
  BY <1>1, Holders, ColumnsWritten, Zenon
<1> QED
  BY <1>1, <1>2, IdleRight, Goes, Zenon

-----------------------------------------------------------------------------
(* The end of a session *)

\* The row of a TLS probe gets an id of its own.
LEMMA TlsWritten ==
  ASSUME IInv, NEW a, db' = AddTls(a), lost' = lost
  PROVE  /\ Written
         /\ NextOf(DOMAIN db.tls) \in DOMAIN db'.tls /\ db'.tls[NextOf(DOMAIN db.tls)] = a
<1> DEFINE n == NextOf(DOMAIN db.tls)
           X == With(db.tls, n, a)
<1>1. /\ DOMAIN X = DOMAIN db.tls \cup {n} /\ X[n] = a
      /\ \A k \in DOMAIN db.tls : k # n => X[k] = db.tls[k]
  BY Zenon DEF With
<1>2. n \notin DOMAIN db.tls /\ Bounded(DOMAIN db.tls \cup {n})
  BY NewId, Zenon DEF IInv, Sound, Numbered
<1>3. db' = [db EXCEPT !.tls = X] /\ IsTables(db)
  BY Zenon DEF AddTls, IInv, Sound, Shape
<1> HIDE DEF X, n
<1>4. /\ IsTables(db') /\ db'.tls = X /\ db'.connections = db.connections
      /\ db'.children = db.children /\ db'.processes = db.processes /\ db'.environment = db.environment
      /\ db'.environmentOf = db.environmentOf /\ db'.tlsOf = db.tlsOf
      /\ db'.verdicts = db.verdicts /\ db'.baselines = db.baselines
  BY ONLY <1>3, SetTls
<1>5. Numbered(db') /\ Grows(db, db', lost, lost')
  BY <1>1, <1>2, <1>4, Zenon DEF IInv, Sound, Numbered, Grows
<1>6. Written
  BY <1>4, <1>5, GrowsTables, Zenon DEF IInv, Sound, Written
<1>7. n \in DOMAIN db'.tls /\ db'.tls[n] = a
  BY <1>1, <1>4, Zenon
<1> QED
  BY <1>6, <1>7, Zenon DEF n

\* The end of a session stores the TLS row that links and verdicts will name.
LEMMA SessionStep ==
  ASSUME IInv, EndSession
  PROVE  IInv' /\ db'.baselines = db.baselines
<1> DEFINE n == NextOf(DOMAIN db.tls)
<1>1. db' = AddTls("service") /\ UNCHANGED <<tracked, lost, refused>>
  BY Zenon DEF EndSession, memory
<1>2. Written /\ n \in DOMAIN db'.tls /\ db'.tls[n] = "service"
  BY <1>1, TlsWritten, Zenon
<1>3. PICK s : s = [Idle EXCEPT !.at = "linkTls", !.value = n, !.todo = Live]
  BY Zenon
<1>4. Goto("service", s)
  BY <1>3, Zenon DEF EndSession
<1>5. IsStatement(s) /\ s.at = "linkTls" /\ s.id = None /\ s.value = n /\ s.todo = Live
  BY <1>3, Zenon DEF IsStatement, Idle
<1> HIDE DEF n
<1>6. ServiceRight(s, tracked, db', lost')
  BY <1>2, <1>5, Holders, Zenon DEF ServiceRight, StatementRight
<1> QED
  BY <1>1, <1>2, <1>4, <1>5, <1>6, ServiceWrites, Zenon

\* What the statements at the end of a session have to hand.
LEMMA SessionHolds ==
  ASSUME IInv, op["service"].at \in {"linkTls", "finalize", "finalizeColumns"}
  PROVE  /\ IsStatement(op["service"]) /\ op["service"].todo \subseteq Live
         /\ \/ op["service"].value \in DOMAIN db.tls /\ db.tls[op["service"].value] = "service"
            \/ "parent" \in lost
         /\ \A c \in op["service"].todo : Held(tracked[c], c, db, lost) /\ tracked[c] # None
<1>1. /\ op["service"].todo \subseteq LiveIn(tracked)
      /\ \/ op["service"].value \in DOMAIN db.tls /\ db.tls[op["service"].value] = "service"
         \/ "parent" \in lost
  BY Zenon DEF IInv, Sound, ServiceRight
<1> QED
  BY <1>1, Holders, Zenon DEF Actors

\* The next statement of a session, with what is left to do.
LEMMA SessionGoesOn ==
  ASSUME IInv, op["service"].at \in {"linkTls", "finalize", "finalizeColumns"}, Written,
         NEW p, p.at \in {"linkTls", "finalize", "finalizeColumns"}, p.id # None => Held(p.id, p.c, db, lost),
         p.value = op["service"].value, p.todo \subseteq Live
  PROVE  ServiceRight(p, tracked, db', lost')
<1>1. /\ (p.value \in DOMAIN db.tls /\ db.tls[p.value] = "service") \/ "parent" \in lost
      /\ p.todo \subseteq LiveIn(tracked)
  BY SessionHolds, Holders, Zenon
<1>2. ServiceRight(p, tracked, db, lost)
  BY <1>1, Zenon DEF ServiceRight, StatementRight
<1> QED
  BY <1>2, GrowsKeeps, Zenon DEF Written

\* link_tls_observation: a link names a TLS row of the service.
LEMMA LinkStep ==
  ASSUME IInv, LinkTlsObservation
  PROVE  IInv' /\ db'.baselines = db.baselines
<1> DEFINE s == op["service"]
<1>1. s.at = "linkTls" /\ IsStatement(s) /\ UNCHANGED <<tracked, lost>>
  BY SessionHolds, Zenon DEF LinkTlsObservation
<1>2. ASSUME NEW p, p = [s EXCEPT !.at = "finalize", !.todo = Live], Goto("service", p), UNCHANGED db,
             refused' = refused \/ (refused' = refused \cup {"service"} /\ lost # {})
      PROVE  IInv' /\ db'.baselines = db.baselines
  <2>1. IsStatement(p) /\ p.at = "finalize" /\ p.c = s.c /\ p.id = s.id /\ p.value = s.value /\ p.todo = Live
    BY <1>1, <1>2, Zenon DEF IsStatement
  <2>2. Written
    BY <1>1, <1>2, Unwritten, Zenon DEF IInv, Sound, Shape, Written
  <2>3. p.id # None => Held(p.id, p.c, db, lost)
    BY <2>1, Holders, Zenon DEF Actors
  <2>4. ServiceRight(p, tracked, db', lost')
    BY <1>1, <2>1, <2>2, <2>3, SessionGoesOn
  <2>5. CliRight(p, db', lost')
    BY <1>1, <1>2, <2>1, <2>3, Zenon DEF CliRight, StatementRight
  <2> QED
    BY <1>1, <1>2, <2>1, <2>2, <2>4, <2>5, Goes, Zenon DEF Actors
<1>3. ASSUME NEW c \in s.todo, tracked[c] \in Ids, s.value \in DOMAIN db.tls,
             db' = [db EXCEPT !.tlsOf = With(db.tlsOf, tracked[c], s.value)],
             NEW p, p = [s EXCEPT !.todo = @ \ {c}], Goto("service", p), UNCHANGED refused
      PROVE  IInv' /\ db'.baselines = db.baselines
  <2> DEFINE X == With(db.tlsOf, tracked[c], s.value)
             Y == s.todo \ {c}
  <2>1. /\ DOMAIN X = DOMAIN db.tlsOf \cup {tracked[c]} /\ X[tracked[c]] = s.value
        /\ \A k \in DOMAIN db.tlsOf : k # tracked[c] => X[k] = db.tlsOf[k]
    BY Zenon DEF With
  <2>2. db' = [db EXCEPT !.tlsOf = X] /\ p = [s EXCEPT !.todo = Y] /\ IsTables(db) /\ Y \subseteq s.todo
    BY <1>3, Zenon DEF IInv, Sound, Shape
  <2> HIDE DEF X, Y
  <2>3. /\ IsTables(db') /\ db'.tlsOf = X /\ db'.connections = db.connections
        /\ db'.children = db.children /\ db'.processes = db.processes /\ db'.environment = db.environment
        /\ db'.environmentOf = db.environmentOf /\ db'.tls = db.tls
        /\ db'.verdicts = db.verdicts /\ db'.baselines = db.baselines
    BY ONLY <2>2, SetTlsOf
  <2>4. IsStatement(p) /\ p.at = "linkTls" /\ p.c = s.c /\ p.id = s.id /\ p.value = s.value /\ p.todo = Y
    BY <1>1, <2>2, Zenon DEF IsStatement
  <2>5. Numbered(db') /\ Grows(db, db', lost, lost')
    BY <1>1, <2>3, Zenon DEF IInv, Sound, Numbered, Grows
  <2>6. \A k \in DOMAIN X : X[k] \in DOMAIN db.tls /\ (db.tls[X[k]] = "service" \/ "parent" \in lost)
    BY <1>1, <1>3, <2>1, SessionHolds, Zenon DEF IInv, Sound, TablesRight
  <2>7. Written
    BY <1>1, <2>3, <2>5, <2>6, Zenon DEF IInv, Sound, TablesRight, Written
  <2>8. p.id # None => Held(p.id, p.c, db, lost)
    BY <2>4, Holders, Zenon DEF Actors
  <2>9. ServiceRight(p, tracked, db', lost')
    <3>1. p.todo \subseteq Live
      BY <1>1, <2>2, <2>4, SessionHolds, Zenon
    <3> QED
      BY <1>1, <2>4, <2>7, <2>8, <3>1, SessionGoesOn
  <2> QED
    BY <1>1, <1>3, <2>4, <2>7, <2>9, ServiceWrites, Zenon
<1>4. ASSUME NEW c \in s.todo, ~(tracked[c] \in Ids /\ s.value \in DOMAIN db.tls)
      PROVE  lost # {}
  BY <1>1, <1>4, SessionHolds, Zenon DEF Held, Ids
<1> QED
  BY <1>2, <1>3, <1>4, Zenon DEF LinkTlsObservation

\* finalize_target_connections: verdicts for the connections still tracked.
LEMMA FinalizeStep ==
  ASSUME IInv, FinalizeTarget
  PROVE  IInv' /\ db'.baselines = db.baselines
<1> DEFINE s == op["service"]
<1>0. IsStatement(s) /\ s.at \in {"finalize", "finalizeColumns"}
  BY SessionHolds, Zenon DEF FinalizeTarget
<1>1. CASE Dies("service") /\ UNCHANGED <<db, commands, lost, refused>>
  BY <1>1, DiesRight, Zenon DEF Actors
<1>2. ASSUME NEW c \in s.todo, tracked[c] \in Ids, s.value \in DOMAIN db.tls,
             db' = PutVerdict([s EXCEPT !.c = c, !.id = tracked[c], !.value = atStart], s.value),
             Goto("service", [s EXCEPT !.at = "finalizeColumns", !.c = c, !.id = tracked[c],
                                       !.todo = @ \ {c}]), UNCHANGED memory
      PROVE  IInv' /\ db'.baselines = db.baselines
  <2> DEFINE Y == s.todo \ {c}
             v == [owner |-> c, baseline |-> atStart, tls |-> s.value]
  <2>1. PICK q : q = [s EXCEPT !.c = c, !.id = tracked[c], !.value = atStart]
    BY Zenon
  <2>2. q.id = tracked[c] /\ q.c = c /\ q.value = atStart
    BY <1>0, <2>1, Zenon DEF IsStatement
  <2>3. db' = [db EXCEPT !.verdicts = With(db.verdicts, tracked[c], v)] /\ v.owner = c
    BY <1>2, <2>1, <2>2, Zenon DEF PutVerdict
  <2>4. PICK p : p = [s EXCEPT !.at = "finalizeColumns", !.c = c, !.id = tracked[c], !.todo = Y]
    BY Zenon
  <2>5. Goto("service", p) /\ UNCHANGED <<tracked, lost, refused>> /\ Y \subseteq s.todo
    BY <1>2, <2>4, Zenon DEF memory
  <2> HIDE DEF Y, v
  <2>6. /\ IsStatement(p) /\ p.at = "finalizeColumns" /\ p.c = c /\ p.id = tracked[c]
        /\ p.value = s.value /\ p.todo = Y
    BY <1>0, <2>4, Zenon DEF IsStatement
  <2>7. Held(tracked[c], c, db, lost)
    BY <1>0, <1>2, SessionHolds, Zenon
  <2>8. Written
    BY <1>2, <2>3, <2>5, <2>7, VerdictWritten, Zenon
  <2>9. ServiceRight(p, tracked, db', lost')
    BY <1>0, <2>5, <2>6, <2>7, <2>8, SessionHolds, SessionGoesOn
  <2> QED
    BY <2>5, <2>6, <2>8, <2>9, ServiceWrites, Zenon
<1>3. ASSUME s.at = "finalize", NEW c \in s.todo,
             ~(tracked[c] \in Ids /\ s.value \in DOMAIN db.tls), Refuse("service")
      PROVE  IInv' /\ db'.baselines = db.baselines
  <2>1. lost # {}
    BY <1>3, SessionHolds, Zenon DEF Held, Ids
  <2> QED
    BY <1>3, <2>1, Refused, Zenon DEF Actors
<1>4. ASSUME SetColumns(s), UNCHANGED memory,
             Goto("service", [s EXCEPT !.at = "finalize", !.c = None, !.id = None])
      PROVE  IInv' /\ db'.baselines = db.baselines
  <2>1. PICK p : p = [s EXCEPT !.at = "finalize", !.c = None, !.id = None]
    BY Zenon
  <2>2. IsStatement(p) /\ p.at = "finalize" /\ p.id = None /\ p.value = s.value /\ p.todo = s.todo
    BY <1>0, <2>1, Zenon DEF IsStatement
  <2>3. Goto("service", p) /\ UNCHANGED <<tracked, lost, refused>>
    BY <1>4, <2>1, Zenon DEF memory
  <2>4. s.id # None => Held(s.id, s.c, db, lost)
    BY Holders, Zenon DEF Actors
  <2>5. Written
    BY <1>4, <2>3, <2>4, ColumnsWritten, Zenon
  <2>6. ServiceRight(p, tracked, db', lost')
    BY <1>0, <2>2, <2>5, SessionHolds, SessionGoesOn
  <2> QED
    BY <2>2, <2>3, <2>5, <2>6, ServiceWrites, Zenon
<1> QED
  BY <1>1, <1>2, <1>3, <1>4, Zenon DEF FinalizeTarget

-----------------------------------------------------------------------------
(* The operator's commands *)

\* A command writes in one table, and goes on to a sound statement.
LEMMA CliWrites ==
  ASSUME IInv, NEW s, IsStatement(s), Goto("cli", s), Written, UNCHANGED <<tracked, refused>>,
         CliRight(s, db', lost')
  PROVE  IInv' /\ db'.baselines = db.baselines
BY CliGoes, Zenon DEF Written

\* An acceptance holds the id of the record it was read from.
LEMMA AcceptStep ==
  ASSUME IInv, NEW id, NEW identity, AcceptIdentity(id, identity)
  PROVE  IInv' /\ db'.baselines = db.baselines
<1>1. PICK p : p = [Idle EXCEPT !.at = "saveBaseline", !.c = OwnerOf(id), !.id = id, !.value = identity]
  BY Zenon
<1>2. IsStatement(p) /\ p.at = "saveBaseline" /\ p.c = OwnerOf(id) /\ p.id = id
  BY <1>1, Zenon DEF IsStatement, Idle
<1>3. Goto("cli", p) /\ UNCHANGED <<db, tracked, lost, refused>> /\ id \in Ids
  BY <1>1, Zenon DEF AcceptIdentity
<1>4. CliRight(p, db, lost)
  BY <1>2, <1>3, Zenon DEF CliRight, StatementRight, Held, Ids, OwnerOf
<1> QED
  BY <1>2, <1>3, <1>4, CliReads, Zenon

\* `baseline capture` stores its probe.
LEMMA CaptureStep ==
  ASSUME IInv, NEW identity, BaselineCapture(identity)
  PROVE  IInv' /\ db'.baselines = db.baselines
<1>1. PICK p : p = [Idle EXCEPT !.at = "saveBaseline", !.value = identity]
  BY Zenon
<1>2. IsStatement(p) /\ p.at = "saveBaseline" /\ p.id = None
  BY <1>1, Zenon DEF IsStatement, Idle
<1>3. Goto("cli", p) /\ UNCHANGED <<tracked, lost, refused>> /\ db' = AddTls("cli")
  BY <1>1, Zenon DEF BaselineCapture
<1>4. Written
  BY <1>3, TlsWritten, Zenon
<1>5. CliRight(p, db', lost')
  BY <1>2, Zenon DEF CliRight, StatementRight
<1> QED
  BY <1>2, <1>3, <1>4, <1>5, CliWrites, Zenon

\* The baseline that is stored is the one in force, if it was not stored before.
LEMMA BaselineStep ==
  ASSUME IInv, SaveBaseline
  PROVE  /\ IInv'
         /\ LatestBaseline' \in {LatestBaseline, op["cli"].value}
<1> DEFINE s == op["cli"]
           n == NextOf(DOMAIN db.baselines)
           X == With(db.baselines, n, s.value)
<1>1. PICK p : p = [s EXCEPT !.at = "verdict"]
  BY Zenon
<1>2. PICK t : Goto("cli", t) /\ (t = Idle \/ (s.id # None /\ t = p))
  BY <1>1, Zenon DEF SaveBaseline, Done
<1>3. IsStatement(s) /\ (s.id # None => Held(s.id, s.c, db, lost)) /\ UNCHANGED <<tracked, lost, refused>>
  BY Holders, Zenon DEF Actors, SaveBaseline
<1>4. IsStatement(p) /\ p.at = "verdict" /\ p.c = s.c /\ p.id = s.id
  BY <1>1, <1>3, Zenon DEF IsStatement
<1>5. IsStatement(t) /\ CliRight(t, db, lost)
  BY <1>2, <1>3, <1>4, IdleRight, Zenon DEF CliRight, StatementRight
<1>6. CASE db' = db
  <2>1. LatestBaseline' = LatestBaseline
    BY <1>6, Zenon DEF LatestBaseline
  <2> QED
    BY <1>2, <1>3, <1>5, <1>6, <2>1, CliReads, Zenon
<1>7. CASE db' = [db EXCEPT !.baselines = X]
  <2>1. DOMAIN X = DOMAIN db.baselines \cup {n} /\ X[n] = s.value
    BY Zenon DEF With
  <2>2. n \notin DOMAIN db.baselines /\ Bounded(DOMAIN db.baselines \cup {n})
    BY NewId, Zenon DEF IInv, Sound, Numbered
  <2>3. db' = [db EXCEPT !.baselines = X] /\ IsTables(db)
    BY <1>7, Zenon DEF IInv, Sound, Shape
  <2>4. \A k \in DOMAIN db.baselines : n > k /\ k \in Int /\ n \in Int
    <3>1. CASE DOMAIN db.baselines = {}
      BY <3>1, Zenon
    <3>2. CASE DOMAIN db.baselines # {}
      <4>1. Bounded(DOMAIN db.baselines)
        BY Zenon DEF IInv, Sound, Numbered
      <4>2. PICK b \in Nat : DOMAIN db.baselines \subseteq 1..b
        BY <4>1, Zenon DEF Bounded
      <4>3. /\ Max(DOMAIN db.baselines) \in DOMAIN db.baselines
            /\ \A k \in DOMAIN db.baselines : Max(DOMAIN db.baselines) >= k
        BY <3>2, <4>1, Greatest, Zenon
      <4> QED
        BY <3>2, <4>2, <4>3 DEF NextOf
    <3> QED
      BY <3>1, <3>2, Zenon
  <2> HIDE DEF X, n
  <2>5. /\ IsTables(db') /\ db'.baselines = X /\ db'.connections = db.connections
        /\ db'.children = db.children /\ db'.processes = db.processes /\ db'.environment = db.environment
        /\ db'.environmentOf = db.environmentOf /\ db'.tls = db.tls /\ db'.tlsOf = db.tlsOf
        /\ db'.verdicts = db.verdicts
    BY ONLY <2>3, SetBaselines
  <2>6. Numbered(db') /\ Grows(db, db', lost, lost')
    BY <1>3, <2>1, <2>2, <2>5, Zenon DEF IInv, Sound, Numbered, Grows
  <2>7. TablesRight(db', lost') /\ CliRight(t, db', lost')
    BY <1>5, <2>5, <2>6, GrowsTables, GrowsKeeps, Zenon DEF IInv, Sound
  <2>8. LatestBaseline' = s.value
    <3>1. Bounded(DOMAIN X) /\ DOMAIN X # {} /\ n \in DOMAIN X
      BY <2>1, <2>2, Zenon
    <3>2. Max(DOMAIN X) \in DOMAIN X /\ Max(DOMAIN X) >= n
      BY <3>1, Greatest, Zenon
    <3>3. Max(DOMAIN X) = n
      BY <2>1, <2>4, <3>2
    <3> QED
      BY <2>1, <2>5, <3>1, <3>3, Zenon DEF LatestBaseline
  <2> QED
    BY <1>2, <1>3, <1>5, <2>5, <2>6, <2>7, <2>8, CliGoes, Zenon
<1> QED
  BY <1>6, <1>7, Zenon DEF SaveBaseline, PutBaseline

\* An export begins with one record.
LEMMA ExportStep ==
  ASSUME IInv, NEW id, ExportData(id)
  PROVE  IInv' /\ db'.baselines = db.baselines
<1>1. PICK p : p = [Idle EXCEPT !.at = "readRows", !.c = OwnerOf(id), !.id = id, !.todo = {OwnerOf(id)}]
  BY Zenon
<1>2. IsStatement(p) /\ p.at = "readRows" /\ p.c = OwnerOf(id) /\ p.id = id /\ p.todo = {OwnerOf(id)}
  BY <1>1, Zenon DEF IsStatement, Idle
<1>3. Goto("cli", p) /\ UNCHANGED <<db, tracked, lost, refused>> /\ id \in Ids /\ id # None
  BY <1>1, Holders, Zenon DEF ExportData
<1>4. CliRight(p, db, lost)
  BY <1>2, <1>3, Zenon DEF CliRight, StatementRight, Held, Ids, OwnerOf
<1> QED
  BY <1>2, <1>3, <1>4, CliReads, Zenon

\* What is read of a record is about its connection or about a lost one.
LEMMA ReadStep ==
  ASSUME IInv, op["cli"].at \in {"readRows", "readVerdict"}, NEW R,
         op["cli"].id \in Ids => R \subseteq {OwnerOf(op["cli"].id)} \cup lost,
         op["cli"].id \notin Ids => R = {},
         NEW at \in {"readVerdict", "exported"},
         Goto("cli", [op["cli"] EXCEPT !.at = at, !.todo = @ \cup R]), UNCHANGED <<db, memory>>
  PROVE  IInv' /\ db'.baselines = db.baselines
<1> DEFINE s == op["cli"]
           Y == s.todo \cup R
<1>1. IsStatement(s) /\ Held(s.id, s.c, db, lost) /\ s.id # None /\ s.c \in s.todo
      /\ (s.todo = {s.c} \/ s.todo \cap lost # {})
  <2>1. IsStatement(s) /\ (s.id # None => Held(s.id, s.c, db, lost))
    BY Holders, Zenon DEF Actors
  <2>2. s.id # None /\ s.c \in s.todo /\ (s.todo = {s.c} \/ s.todo \cap lost # {})
    BY Zenon DEF IInv, Sound, CliRight
  <2> QED
    BY <2>1, <2>2, Zenon
<1>2. PICK p : p = [s EXCEPT !.at = at, !.todo = Y]
  BY Zenon
<1>3. Goto("cli", p) /\ UNCHANGED <<db, tracked, lost, refused>>
  BY <1>2, Zenon DEF memory
<1>4. s.c \in Y /\ (Y = {s.c} \/ Y \cap lost # {})
  <2>1. CASE s.todo \cap lost # {}
    BY <1>1, <2>1, Zenon
  <2>2. CASE s.todo = {s.c} /\ s.c \notin lost
    <3>1. s.id \in Ids /\ OwnerOf(s.id) = s.c
      BY <1>1, <2>2, Zenon DEF Held, Ids, OwnerOf
    <3> QED
      BY <2>2, <3>1, Zenon
  <2> QED
    BY <1>1, <2>1, <2>2, Zenon
<1> HIDE DEF Y
<1>5. IsStatement(p) /\ p.at = at /\ p.c = s.c /\ p.id = s.id /\ p.todo = Y
  BY <1>1, <1>2, Zenon DEF IsStatement
<1>6. CliRight(p, db, lost)
  BY <1>1, <1>4, <1>5, Zenon DEF CliRight, StatementRight
<1> QED
  BY <1>3, <1>5, <1>6, CliReads, Zenon

\* The statements of an export read what is attached to that record.
LEMMA ReadsStep ==
  ASSUME IInv, ReadRows \/ ReadVerdict \/ Exported
  PROVE  IInv' /\ db'.baselines = db.baselines
<1> DEFINE s == op["cli"]
<1>1. CASE ReadRows
  <2> DEFINE R == {r.owner : r \in {x \in db.children : x.conn = s.id}}
  <2>1. \A r \in db.children : r.conn \in Ids /\ r.owner \in {OwnerOf(r.conn)} \cup lost
    BY Zenon DEF IInv, Sound, TablesRight, Ids, OwnerOf
  <2>2. (s.id \in Ids => R \subseteq {OwnerOf(s.id)} \cup lost) /\ (s.id \notin Ids => R = {})
    BY <2>1, Zenon
  <2>3. /\ s.at = "readRows" /\ UNCHANGED <<db, memory>>
        /\ Goto("cli", [s EXCEPT !.at = "readVerdict", !.todo = @ \cup R])
    BY <1>1, Zenon DEF ReadRows
  <2> HIDE DEF R
  <2> QED
    BY <2>2, <2>3, ReadStep, Zenon
<1>2. CASE ReadVerdict
  <2> DEFINE R == {db.verdicts[k].owner : k \in DOMAIN db.verdicts \cap {s.id}}
  <2>1. \A k \in DOMAIN db.verdicts : k \in Ids /\ db.verdicts[k].owner \in {OwnerOf(k)} \cup lost
    BY Zenon DEF IInv, Sound, TablesRight, Ids, OwnerOf
  <2>2. (s.id \in Ids => R \subseteq {OwnerOf(s.id)} \cup lost) /\ (s.id \notin Ids => R = {})
    BY <2>1, Zenon
  <2>3. /\ s.at = "readVerdict" /\ UNCHANGED <<db, memory>>
        /\ Goto("cli", [s EXCEPT !.at = "exported", !.todo = @ \cup R])
    BY <1>2, Zenon DEF ReadVerdict
  <2> HIDE DEF R
  <2> QED
    BY <2>2, <2>3, ReadStep, Zenon
<1>3. CASE Exported
  BY <1>3, IdleRight, CliReads, Zenon DEF Exported, Done, memory
<1> QED
  BY <1>1, <1>2, <1>3, Zenon

-----------------------------------------------------------------------------
(* Pruning *)

MaintenanceSteps ==
  {"processes", "tls", "baselines", "pruneNetwork", "pruneHost", "measure", "normal", "anomalous", "giveUp"}

\* A statement of prune_to_budget refers to nothing that it needs.
LEMMA MaintenanceStatement ==
  ASSUME NEW p, p.at \in MaintenanceSteps, NEW t, NEW d, NEW l, p.id # None => Held(p.id, p.c, d, l)
  PROVE  ServiceRight(p, t, d, l) /\ CliRight(p, d, l)
BY Zenon DEF ServiceRight, CliRight, StatementRight, MaintenanceSteps

\* A statement that deletes rows, and leaves what the processes need or records its loss.
LEMMA Sweeps ==
  ASSUME IInv, NEW a \in Actors, NEW at \in MaintenanceSteps, Goto(a, [op[a] EXCEPT !.at = at]),
         UNCHANGED <<tracked, refused>>, lost \subseteq lost',
         IsTables(db'), Numbered(db'), TablesRight(db', lost'), MemoryRight(tracked, db', lost'),
         ServiceRight(op["service"], tracked, db', lost'), CliRight(op["cli"], db', lost')
  PROVE  IInv'
<1>1. PICK p : p = [op[a] EXCEPT !.at = at]
  BY Zenon
<1>2. IsStatement(op[a]) /\ (op[a].id # None => Held(op[a].id, op[a].c, db', lost'))
  BY Holders, Zenon DEF Actors, ServiceRight, CliRight, StatementRight
<1>3. IsStatement(p) /\ p.at = at /\ p.c = op[a].c /\ p.id = op[a].id
  BY <1>1, <1>2, Zenon DEF IsStatement
<1>4. ServiceRight(p, tracked, db', lost') /\ CliRight(p, db', lost')
  BY <1>2, <1>3, MaintenanceStatement, Zenon
<1>5. /\ op' = [b \in Actors |-> op'[b]] /\ IsStatement(op'["service"]) /\ IsStatement(op'["cli"])
      /\ op'[a] = p /\ \A b \in Actors : b # a => op'[b] = op[b]
  BY <1>1, <1>3, NextStatement, Zenon DEF IInv, Sound, Goto
<1>6. ServiceRight(op'["service"], tracked', db', lost') /\ CliRight(op'["cli"], db', lost')
  BY <1>4, <1>5, Zenon DEF Actors
<1>7. RefusalsAreExplained'
  BY Zenon DEF IInv, RefusalsAreExplained, RefusedOnlyAfterPrune, MaintenanceNeverRefused
<1> QED
  BY <1>5, <1>6, <1>7, Zenon DEF IInv, Sound, Shape

\* prune_to_budget begins.
LEMMA BudgetStep ==
  ASSUME IInv, NEW a \in Actors, PruneToBudget(a)
  PROVE  IInv' /\ db'.baselines = db.baselines
<1>1. PICK p : p = [Idle EXCEPT !.at = "processes"]
  BY Zenon
<1>2. IsStatement(p) /\ p.at = "processes" /\ p.id = None
  BY <1>1, Zenon DEF IsStatement, Idle
<1>3. Goto(a, p) /\ UNCHANGED <<db, tracked, lost, refused>>
  BY <1>1, Zenon DEF PruneToBudget
<1>4. Written
  BY <1>3, Unwritten, Zenon DEF IInv, Sound, Shape, Written
<1>5. ServiceRight(p, tracked, db', lost') /\ CliRight(p, db', lost')
  BY <1>2, MaintenanceStatement DEF MaintenanceSteps
<1> QED
  BY <1>2, <1>3, <1>4, <1>5, Goes, Zenon

\* The loop's steps that delete nothing.
LEMMA LoopStep ==
  ASSUME IInv, NEW a \in Actors, NEW at \in MaintenanceSteps, Goto(a, [op[a] EXCEPT !.at = at]),
         UNCHANGED <<db, tracked, lost, refused>>
  PROVE  IInv' /\ db'.baselines = db.baselines
<1>1. /\ IsTables(db') /\ Numbered(db') /\ TablesRight(db', lost') /\ MemoryRight(tracked, db', lost')
      /\ ServiceRight(op["service"], tracked, db', lost') /\ CliRight(op["cli"], db', lost')
  BY Zenon DEF IInv, Sound, Shape
<1> QED
  BY <1>1, Sweeps, Zenon

\* A pruning that is done.
LEMMA StopStep ==
  ASSUME IInv, NEW a \in Actors, Done(a), UNCHANGED <<db, tracked, lost, refused>>
  PROVE  IInv' /\ db'.baselines = db.baselines
<1>1. Written
  BY Unwritten, Zenon DEF IInv, Sound, Shape, Written
<1> QED
  BY <1>1, IdleRight, Goes, Zenon DEF Done

\* Measuring deletes nothing, and neither does the end of a process.
LEMMA MeasureStep ==
  ASSUME IInv, NEW a \in Actors, Measure(a) \/ GiveUp(a) \/ Crash(a)
  PROVE  IInv' /\ db'.baselines = db.baselines
<1>1. CASE Measure(a)
  <2>1. UNCHANGED <<db, tracked, lost, refused>> /\ (Done(a) \/ Goto(a, [op[a] EXCEPT !.at = "normal"]))
    BY <1>1, Zenon DEF Measure, memory
  <2> QED
    BY <2>1, LoopStep, StopStep, Zenon DEF MaintenanceSteps
<1>2. CASE GiveUp(a)
  <2>1. UNCHANGED <<db, lost, refused>> /\ (Dies(a) \/ (Done(a) /\ UNCHANGED tracked))
    BY <1>2, Zenon DEF GiveUp
  <2> QED
    BY <2>1, DiesRight, StopStep, Zenon
<1>3. CASE Crash(a)
  BY <1>3, DiesRight, Zenon DEF Crash
<1> QED
  BY <1>1, <1>2, <1>3, Zenon

\* What becomes of the records, of the ids that are held, when connections are deleted.
LEMMA BatchStep ==
  ASSUME IInv, NEW a \in Actors, PruneBatch(a)
  PROVE  IInv' /\ db'.baselines = db.baselines
<1>1. ASSUME NEW D, db' = DeleteConnections(D), lost' = lost \cup LostConnections(D),
             Goto(a, [op[a] EXCEPT !.at = "processes"]), UNCHANGED <<tracked, refused>>
      PROVE  IInv' /\ db'.baselines = db.baselines
  <2> DEFINE X == Without(db.connections, D)
             Y == {r \in db.children : r.conn \notin D}
             Z == db.environmentOf \ D
             T == Without(db.tlsOf, D)
             V == Without(db.verdicts, D)
  <2>1. db' = [db EXCEPT !.connections = X, !.children = Y, !.environmentOf = Z, !.tlsOf = T, !.verdicts = V]
        /\ IsTables(db)
    BY <1>1, Zenon DEF DeleteConnections, IInv, Sound, Shape
  <2>2. /\ DOMAIN X = Ids \ D /\ \A k \in DOMAIN X : X[k] = db.connections[k]
        /\ DOMAIN T \subseteq DOMAIN db.tlsOf /\ \A k \in DOMAIN T : T[k] = db.tlsOf[k]
        /\ DOMAIN V = DOMAIN db.verdicts \ D /\ \A k \in DOMAIN V : V[k] = db.verdicts[k]
    BY Zenon DEF Without, Ids
  <2>3. (\A r \in Y : r \in db.children /\ r.conn \notin D) /\ Z \subseteq db.environmentOf
    BY Zenon
  <2> HIDE DEF X, Y, Z, T, V
  <2>4. /\ IsTables(db') /\ db'.connections = X /\ db'.children = Y /\ db'.environmentOf = Z
        /\ db'.tlsOf = T /\ db'.verdicts = V /\ db'.processes = db.processes
        /\ db'.environment = db.environment /\ db'.tls = db.tls /\ db'.baselines = db.baselines
    BY ONLY <2>1, Zenon DEF IsTables
  <2>5. Numbered(db')
    BY <2>2, <2>4, FewerIds, Zenon DEF IInv, Sound, Numbered, Ids
  <2>6. lost \subseteq lost' /\ (\A c \in Conns : tracked[c] \in D => c \in lost')
        /\ \A b \in Actors : op[b].id \in D => op[b].c \in lost'
    BY <1>1, Zenon DEF LostConnections
  <2>7. TablesRight(db', lost')
    <3>1. \A r \in Y : r.conn \in DOMAIN X /\ r.owner \in {X[r.conn].owner} \cup lost'
      BY <2>2, <2>3, <2>6, Zenon DEF IInv, Sound, TablesRight, Ids
    <3>2. \A k \in DOMAIN V : k \in DOMAIN X /\ V[k].owner \in {X[k].owner} \cup lost'
      BY <2>2, <2>6, Zenon DEF IInv, Sound, TablesRight, Ids
    <3>3. \A k \in DOMAIN T : T[k] \in DOMAIN db.tls /\ (db.tls[T[k]] = "service" \/ "parent" \in lost')
      BY <2>2, <2>6, Zenon DEF IInv, Sound, TablesRight
    <3>4. Z # {} => "network" \in db.environment
      BY <2>3, Zenon DEF IInv, Sound, TablesRight
    <3> QED
      BY <2>4, <3>1, <3>2, <3>3, <3>4, Zenon DEF TablesRight
  <2>8. \A id, c : Held(id, c, db, lost) /\ (id \in D => c \in lost') => Held(id, c, db', lost')
    BY <2>2, <2>4, <2>6, Zenon DEF Held, Ids
  <2>9. MemoryRight(tracked, db', lost')
    BY <2>6, <2>8, Zenon DEF IInv, Sound, MemoryRight, LiveIn
  <2>10. \A b \in Actors : StatementRight(op[b], db', lost')
    BY <2>6, <2>8, Holders, Zenon DEF StatementRight
  <2>11. ServiceRight(op["service"], tracked, db', lost')
    BY <2>4, <2>6, <2>10, Zenon DEF IInv, Sound, ServiceRight, Actors
  <2>12. CliRight(op["cli"], db', lost')
    BY <2>6, <2>10, Zenon DEF IInv, Sound, CliRight, Actors
  <2> QED
    BY <1>1, <2>4, <2>5, <2>6, <2>7, <2>9, <2>11, <2>12, Sweeps, Zenon DEF MaintenanceSteps
<1>2. \/ \E D : db' = DeleteConnections(D) /\ lost' = lost \cup LostConnections(D)
                /\ Goto(a, [op[a] EXCEPT !.at = "processes"])
      \/ /\ UNCHANGED <<db, lost>>
         /\ \E at \in {"anomalous", "giveUp"} : Goto(a, [op[a] EXCEPT !.at = at])
  BY Zenon DEF PruneBatch
<1>3. UNCHANGED <<tracked, refused>>
  BY Zenon DEF PruneBatch
<1> QED
  BY <1>1, <1>2, <1>3, LoopStep, Zenon DEF MaintenanceSteps

\* No foreign key protects what prune_orphans selects.
LEMMA NothingProtected ==
  ASSUME IInv, NEW step \in DOMAIN AfterOrphans
  PROVE  Protected(step) = {}
<1>0. step \in {"processes", "tls", "baselines", "pruneNetwork", "pruneHost"}
  BY Zenon DEF AfterOrphans
<1>1. CASE step = "processes"
  BY <1>1, Zenon DEF Protected, OrphanProcesses, UsedProcesses
<1>2. CASE step = "tls"
  BY <1>2, Zenon DEF Protected, OrphanTls, UsedTls
<1>3. CASE step = "baselines"
  BY <1>3, Zenon DEF Protected
<1>4. CASE step = "pruneNetwork"
  BY <1>4, Zenon DEF Protected, OrphanEnvironment
<1>5. CASE step = "pruneHost"
  BY <1>5, Zenon DEF Protected, OrphanEnvironment, IInv, Sound, TablesRight
<1> QED
  BY <1>0, <1>1, <1>2, <1>3, <1>4, <1>5, Zenon

\* The steps of prune_orphans keep the connections and what cascades with them.
LEMMA OrphansKeep ==
  ASSUME IInv, lost \subseteq lost', IsTables(db'), db'.connections = db.connections,
         db'.children = db.children, db'.verdicts = db.verdicts
  PROVE  /\ MemoryRight(tracked, db', lost') /\ CliRight(op["cli"], db', lost')
         /\ StatementRight(op["service"], db', lost')
         /\ \A r \in db'.children : /\ r.conn \in DOMAIN db'.connections
                                    /\ r.owner \in {db'.connections[r.conn].owner} \cup lost'
         /\ \A k \in DOMAIN db'.verdicts : /\ k \in DOMAIN db'.connections
                                           /\ db'.verdicts[k].owner \in {db'.connections[k].owner} \cup lost'
<1>1. \A id, c : Held(id, c, db, lost) => Held(id, c, db', lost')
  BY Zenon DEF Held
<1>2. MemoryRight(tracked, db', lost')
  BY <1>1, Zenon DEF IInv, Sound, MemoryRight
<1>3. \A b \in Actors : StatementRight(op[b], db', lost')
  BY <1>1, Holders, Zenon DEF StatementRight
<1>4. CliRight(op["cli"], db', lost')
  BY <1>3, Zenon DEF IInv, Sound, CliRight, Actors
<1>5. /\ \A r \in db'.children : /\ r.conn \in DOMAIN db'.connections
                                 /\ r.owner \in {db'.connections[r.conn].owner} \cup lost'
      /\ \A k \in DOMAIN db'.verdicts : /\ k \in DOMAIN db'.connections
                                        /\ db'.verdicts[k].owner \in {db'.connections[k].owner} \cup lost'
  BY Zenon DEF IInv, Sound, TablesRight
<1> QED
  BY <1>2, <1>3, <1>4, <1>5, Zenon DEF Actors

\* Each statement of prune_orphans, with the losses it can cause, and the baseline in force.
LEMMA ProcessesGo ==
  ASSUME IInv, db' = DeleteOrphans("processes"), lost' = lost \cup LostOrphans("processes")
  PROVE  /\ IsTables(db') /\ Numbered(db') /\ TablesRight(db', lost') /\ MemoryRight(tracked, db', lost')
         /\ ServiceRight(op["service"], tracked, db', lost') /\ CliRight(op["cli"], db', lost')
         /\ lost \subseteq lost' /\ LatestBaseline' = LatestBaseline
<1> DEFINE X == db.processes \ OrphanProcesses
<1>1. db' = [db EXCEPT !.processes = X] /\ IsTables(db)
  BY Zenon DEF DeleteOrphans, IInv, Sound, Shape
<1>2. \A p \in db.processes : p \in X \/ p \in OrphanProcesses
  BY Zenon
<1>3. /\ lost \subseteq lost'
      /\ (op["service"].at = "insertConnection" /\ op["service"].c \in OrphanProcesses) =>
           "parent" \in lost'
  BY Zenon DEF LostOrphans
<1> HIDE DEF X
<1>4. /\ IsTables(db') /\ db'.processes = X /\ db'.connections = db.connections
      /\ db'.children = db.children /\ db'.environment = db.environment
      /\ db'.environmentOf = db.environmentOf /\ db'.tls = db.tls /\ db'.tlsOf = db.tlsOf
      /\ db'.verdicts = db.verdicts /\ db'.baselines = db.baselines
  BY ONLY <1>1, SetProcesses
<1>5. Numbered(db') /\ LatestBaseline' = LatestBaseline
  BY <1>4, Zenon DEF IInv, Sound, Numbered, LatestBaseline
<1>6. TablesRight(db', lost')
  BY <1>3, <1>4, OrphansKeep, Zenon DEF IInv, Sound, TablesRight
<1>7. ServiceRight(op["service"], tracked, db', lost')
  BY <1>2, <1>3, <1>4, OrphansKeep, Zenon DEF IInv, Sound, ServiceRight
<1> QED
  BY <1>3, <1>4, <1>5, <1>6, <1>7, OrphansKeep, Zenon

\* The TLS rows that nothing names; a link always names one that stays.
LEMMA TlsGo ==
  ASSUME IInv, db' = DeleteOrphans("tls"), lost' = lost \cup LostOrphans("tls")
  PROVE  /\ IsTables(db') /\ Numbered(db') /\ TablesRight(db', lost') /\ MemoryRight(tracked, db', lost')
         /\ ServiceRight(op["service"], tracked, db', lost') /\ CliRight(op["cli"], db', lost')
         /\ lost \subseteq lost' /\ LatestBaseline' = LatestBaseline
<1> DEFINE X == Without(db.tls, OrphanTls)
           s == op["service"]
<1>1. db' = [db EXCEPT !.tls = X] /\ IsTables(db)
  BY Zenon DEF DeleteOrphans, IInv, Sound, Shape
<1>2. DOMAIN X = DOMAIN db.tls \ OrphanTls /\ \A k \in DOMAIN X : X[k] = db.tls[k]
  BY Zenon DEF Without
<1>3. /\ lost \subseteq lost'
      /\ (s.at \in {"linkTls", "finalize", "finalizeColumns"} /\ s.value \in OrphanTls) =>
           "parent" \in lost'
  BY Zenon DEF LostOrphans
<1>4. \A k \in DOMAIN db.tlsOf : db.tlsOf[k] \notin OrphanTls
  BY Zenon DEF OrphanTls
<1> HIDE DEF X
<1>5. /\ IsTables(db') /\ db'.tls = X /\ db'.connections = db.connections
      /\ db'.children = db.children /\ db'.processes = db.processes /\ db'.environment = db.environment
      /\ db'.environmentOf = db.environmentOf /\ db'.tlsOf = db.tlsOf
      /\ db'.verdicts = db.verdicts /\ db'.baselines = db.baselines
  BY ONLY <1>1, SetTls
<1>6. Numbered(db') /\ LatestBaseline' = LatestBaseline
  BY <1>2, <1>5, FewerIds, Zenon DEF IInv, Sound, Numbered, LatestBaseline
<1>7. \A k \in DOMAIN db.tlsOf :
        db.tlsOf[k] \in DOMAIN X /\ (X[db.tlsOf[k]] = "service" \/ "parent" \in lost')
  BY <1>2, <1>3, <1>4, Zenon DEF IInv, Sound, TablesRight
<1>8. TablesRight(db', lost')
  BY <1>3, <1>5, <1>7, OrphansKeep, Zenon DEF IInv, Sound, TablesRight
<1>9. ServiceRight(op["service"], tracked, db', lost')
  BY <1>2, <1>3, <1>5, OrphansKeep, Zenon DEF IInv, Sound, ServiceRight
<1> QED
  BY <1>3, <1>5, <1>6, <1>8, <1>9, OrphansKeep, Zenon

\* The newest baseline stays, so the one in force is the same.
LEMMA BaselinesGo ==
  ASSUME IInv, db' = DeleteOrphans("baselines"), lost' = lost \cup LostOrphans("baselines")
  PROVE  /\ IsTables(db') /\ Numbered(db') /\ TablesRight(db', lost') /\ MemoryRight(tracked, db', lost')
         /\ ServiceRight(op["service"], tracked, db', lost') /\ CliRight(op["cli"], db', lost')
         /\ lost \subseteq lost' /\ LatestBaseline' = LatestBaseline
<1> DEFINE X == Without(db.baselines, OrphanBaselines)
           B == DOMAIN db.baselines
<1>1. db' = [db EXCEPT !.baselines = X] /\ IsTables(db)
  BY Zenon DEF DeleteOrphans, IInv, Sound, Shape
<1>2. DOMAIN X = B \ OrphanBaselines /\ \A k \in DOMAIN X : X[k] = db.baselines[k]
  BY Zenon DEF Without
<1>3. lost' = lost
  BY Zenon DEF LostOrphans
<1>4. Max(B) \notin OrphanBaselines
  BY Zenon DEF OrphanBaselines
<1>5. Bounded(B) /\ Bounded(DOMAIN X) /\ DOMAIN X \subseteq B
  BY <1>2, FewerIds, Zenon DEF IInv, Sound, Numbered
<1> HIDE DEF X
<1>6. /\ IsTables(db') /\ db'.baselines = X /\ db'.connections = db.connections
      /\ db'.children = db.children /\ db'.processes = db.processes /\ db'.environment = db.environment
      /\ db'.environmentOf = db.environmentOf /\ db'.tls = db.tls /\ db'.tlsOf = db.tlsOf
      /\ db'.verdicts = db.verdicts
  BY ONLY <1>1, SetBaselines
<1>7. Numbered(db')
  BY <1>5, <1>6, Zenon DEF IInv, Sound, Numbered
<1>8. TablesRight(db', lost')
  BY <1>3, <1>6, OrphansKeep, Zenon DEF IInv, Sound, TablesRight
<1>9. ServiceRight(op["service"], tracked, db', lost')
  BY <1>3, <1>6, OrphansKeep, Zenon DEF IInv, Sound, ServiceRight
<1>10. LatestBaseline' = LatestBaseline
  <2>1. CASE B = {}
    BY <1>5, <1>6, <2>1, Zenon DEF LatestBaseline
  <2>2. CASE B # {}
    <3>1. Max(B) \in B /\ \A y \in B : Max(B) >= y
      BY <1>5, <2>2, Greatest, Zenon
    <3>2. Max(B) \in DOMAIN X
      BY <1>2, <1>4, <3>1, Zenon
    <3>3. Max(DOMAIN X) \in DOMAIN X /\ Max(DOMAIN X) >= Max(B)
      BY <1>5, <3>2, Greatest, Zenon
    <3>4. Max(DOMAIN X) \in Int /\ Max(B) \in Int /\ Max(B) >= Max(DOMAIN X)
      BY <1>5, <3>1, <3>3 DEF Bounded
    <3>5. Max(DOMAIN X) = Max(B)
      BY <3>3, <3>4
    <3> QED
      BY <1>2, <1>6, <2>2, <3>2, <3>5, Zenon DEF LatestBaseline
  <2> QED
    BY <2>1, <2>2, Zenon
<1> QED
  BY <1>3, <1>6, <1>7, <1>8, <1>9, <1>10, OrphansKeep, Zenon

\* The network and host rows; a network that is linked to stays.
LEMMA EnvironmentGoes ==
  ASSUME IInv, NEW step \in {"pruneNetwork", "pruneHost"},
         db' = DeleteOrphans(step), lost' = lost \cup LostOrphans(step)
  PROVE  /\ IsTables(db') /\ Numbered(db') /\ TablesRight(db', lost') /\ MemoryRight(tracked, db', lost')
         /\ ServiceRight(op["service"], tracked, db', lost') /\ CliRight(op["cli"], db', lost')
         /\ lost \subseteq lost' /\ LatestBaseline' = LatestBaseline
<1> DEFINE X == db.environment \ OrphanEnvironment(step)
           s == op["service"]
<1>1. db' = [db EXCEPT !.environment = X] /\ IsTables(db)
  BY Zenon DEF DeleteOrphans, IInv, Sound, Shape
<1>2. db.environmentOf # {} /\ "network" \in db.environment => "network" \in X
  BY Zenon DEF OrphanEnvironment
<1>3. lost \subseteq lost' /\ (s.at \in {"network", "environmentLink"} => "parent" \in lost')
  BY Zenon DEF LostOrphans
<1> HIDE DEF X
<1>4. /\ IsTables(db') /\ db'.environment = X /\ db'.connections = db.connections
      /\ db'.children = db.children /\ db'.processes = db.processes
      /\ db'.environmentOf = db.environmentOf /\ db'.tls = db.tls /\ db'.tlsOf = db.tlsOf
      /\ db'.verdicts = db.verdicts /\ db'.baselines = db.baselines
  BY ONLY <1>1, SetEnvironment
<1>5. Numbered(db') /\ LatestBaseline' = LatestBaseline
  BY <1>4, Zenon DEF IInv, Sound, Numbered, LatestBaseline
<1>6. TablesRight(db', lost')
  BY <1>2, <1>3, <1>4, OrphansKeep, Zenon DEF IInv, Sound, TablesRight
<1>7. ServiceRight(op["service"], tracked, db', lost')
  BY <1>3, <1>4, OrphansKeep, Zenon DEF IInv, Sound, ServiceRight
<1> QED
  BY <1>3, <1>4, <1>5, <1>6, <1>7, OrphansKeep, Zenon

\* prune_orphans keeps the invariant and the baseline in force.
LEMMA OrphansStep ==
  ASSUME IInv, NEW a \in Actors, PruneOrphans(a)
  PROVE  IInv' /\ LatestBaseline' = LatestBaseline
<1> DEFINE step == op[a].at
<1>0. step \in DOMAIN AfterOrphans /\ step \in {"processes", "tls", "baselines", "pruneNetwork", "pruneHost"}
  BY Zenon DEF PruneOrphans, AfterOrphans
<1>1. PICK at : at = AfterOrphans[step]
  BY Zenon
<1>2. /\ db' = DeleteOrphans(step) /\ lost' = lost \cup LostOrphans(step)
      /\ Goto(a, [op[a] EXCEPT !.at = at]) /\ UNCHANGED <<tracked, refused>>
  BY <1>0, <1>1, NothingProtected, Zenon DEF PruneOrphans
<1>3. at \in MaintenanceSteps
  BY <1>0, <1>1 DEF AfterOrphans, MaintenanceSteps
<1>4. /\ IsTables(db') /\ Numbered(db') /\ TablesRight(db', lost') /\ MemoryRight(tracked, db', lost')
      /\ ServiceRight(op["service"], tracked, db', lost') /\ CliRight(op["cli"], db', lost')
      /\ lost \subseteq lost' /\ LatestBaseline' = LatestBaseline
  BY <1>0, <1>2, ProcessesGo, TlsGo, BaselinesGo, EnvironmentGoes, Zenon
<1> QED
  BY <1>2, <1>3, <1>4, Sweeps, Zenon

-----------------------------------------------------------------------------
(* The theorems *)

\* The invariant holds initially.
LEMMA InitRight ==
  ASSUME Init
  PROVE  IInv
<1>1. PICK earlier \in Identities \cup {None} :
        db = [Empty EXCEPT !.baselines = IF earlier = None THEN <<>> ELSE With(<<>>, 1, earlier)]
  BY Zenon DEF Init
<1> DEFINE B == IF earlier = None THEN <<>> ELSE With(<<>>, 1, earlier)
<1>2. DOMAIN B \subseteq 1..1 /\ DOMAIN <<>> = {}
  BY DEF With
<1>3. db = [Empty EXCEPT !.baselines = B]
  BY <1>1, Zenon
<1> HIDE DEF B
<1>4. /\ IsTables(db) /\ db.baselines = B /\ db.connections = <<>> /\ db.children = {}
      /\ db.environmentOf = {} /\ db.tls = <<>> /\ db.tlsOf = <<>> /\ db.verdicts = <<>>
  BY ONLY <1>3, Zenon DEF IsTables, Empty
<1>5. Bounded({}) /\ Bounded(DOMAIN B)
  <2>1. {} \subseteq 1..1
    BY Zenon
  <2> QED
    BY <1>2, <2>1, Zenon DEF Bounded
<1>6. Numbered(db) /\ TablesRight(db, lost)
  BY <1>2, <1>4, <1>5, Zenon DEF Numbered, TablesRight
<1>7. op["service"] = Idle /\ op["cli"] = Idle /\ op = [a \in Actors |-> op[a]]
  BY Zenon DEF Init, Actors
<1>8. tracked = [c \in Conns |-> tracked[c]] /\ MemoryRight(tracked, db, lost)
  BY Zenon DEF Init, MemoryRight, LiveIn
<1>9. RefusalsAreExplained
  BY Zenon DEF Init, RefusalsAreExplained, RefusedOnlyAfterPrune, MaintenanceNeverRefused
<1> QED
  BY <1>4, <1>6, <1>7, <1>8, <1>9, IdleRight DEF IInv, Sound, Shape

\* Every step keeps the invariant, and only save_baseline changes what is in force.
LEMMA NextRight ==
  ASSUME IInv, [Next]_vars
  PROVE  /\ IInv'
         /\ \/ LatestBaseline' = LatestBaseline
            \/ op["cli"].at = "saveBaseline" /\ LatestBaseline' = op["cli"].value
<1>0. ASSUME db'.baselines = db.baselines PROVE LatestBaseline' = LatestBaseline
  BY <1>0, Zenon DEF LatestBaseline
<1>1. CASE ServiceNext
  BY <1>0, <1>1, BeginStep, SampleStep, TouchStep, CorrelateStep, RouteStep, CompleteStep, InsertStep,
     EventStep, NameStep, EnvironmentStep, SessionStep, LinkStep, FinalizeStep DEF ServiceNext
<1>2. CASE CliNext
  <2>1. CASE SaveBaseline
    BY <2>1, BaselineStep, Zenon DEF SaveBaseline
  <2>2. CASE ~SaveBaseline
    BY <1>0, <1>2, <2>2, AcceptStep, CaptureStep, ExportStep, ReadsStep, Zenon DEF CliNext
  <2> QED
    BY <2>1, <2>2, Zenon
<1>3. ASSUME NEW a \in Actors, SaveVerdict(a) \/ SaveVerdictColumns(a) \/ PruneNext(a) \/ Crash(a)
      PROVE  IInv' /\ LatestBaseline' = LatestBaseline
  BY <1>0, <1>3, VerdictStep, ColumnsStep, BudgetStep, OrphansStep, MeasureStep, BatchStep, Zenon DEF PruneNext
<1>4. CASE UNCHANGED vars
  <2>1. UNCHANGED <<db, tracked, op, lost, refused>>
    BY <1>4, Zenon DEF vars
  <2>2. Sound'
    BY <2>1, Zenon DEF IInv, Sound, Shape
  <2> QED
    BY <1>0, <2>1, <2>2, Zenon DEF IInv, RefusalsAreExplained, RefusedOnlyAfterPrune, MaintenanceNeverRefused
<1> QED
  BY <1>1, <1>2, <1>3, <1>4, Zenon DEF Next

\* The invariant holds always.
LEMMA RightAlways == Spec => []IInv
<1>1. Init => IInv
  BY InitRight, Zenon
<1>2. IInv /\ [Next]_vars => IInv'
  BY NextRight, Zenon
<1> QED
  BY <1>1, <1>2, PTL DEF Spec

\* What is attached to a record, and what an export reads, is about one connection
\* or about one whose record maintenance deleted while its id was held.
THEOREM RecordsHoldTheirOwn == Spec => []EvidenceOfRecord
<1>1. IInv => EvidenceOfRecord
  <2> SUFFICES ASSUME IInv PROVE EvidenceOfRecord
    BY Zenon
  <2>1. /\ \A r \in db.children : r.conn \in Ids => r.owner \in {OwnerOf(r.conn)} \cup lost
        /\ \A k \in DOMAIN db.verdicts : db.verdicts[k].owner \in {OwnerOf(k)} \cup lost
        /\ \A k \in DOMAIN db.tlsOf : db.tls[db.tlsOf[k]] = "service" \/ "parent" \in lost
    BY Zenon DEF IInv, Sound, TablesRight, Ids, OwnerOf
  <2>2. op["cli"].at = "exported" =>
          op["cli"].todo = {op["cli"].c} \/ op["cli"].todo \cap lost # {}
    BY Zenon DEF IInv, Sound, CliRight
  <2> QED
    BY <2>1, <2>2, Zenon DEF EvidenceOfRecord
<1> QED
  BY <1>1, RightAlways, PTL

\* Maintenance is never refused, and a writer only after maintenance deleted a row
\* it was still using.
THEOREM OnlyPruningRefuses == Spec => []RefusalsAreExplained
<1>1. IInv => RefusalsAreExplained
  BY Zenon DEF IInv
<1> QED
  BY <1>1, RightAlways, PTL

\* No pruning, no verdict and no crash changes the identity that connections are
\* judged by: only an acceptance does, and then to the identity accepted.
THEOREM InForceUntilAccepted == Spec => BaselineInForce
<1>1. IInv /\ [Next]_vars =>
        [LatestBaseline' # LatestBaseline =>
           /\ op["cli"].at = "saveBaseline"
           /\ LatestBaseline' = op["cli"].value]_vars
  BY NextRight, Zenon
<1> QED
  BY <1>1, RightAlways, PTL DEF Spec, BaselineInForce
==============================================================================
