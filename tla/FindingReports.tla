---- MODULE FindingReports ----
(***************************************************************************)
(* How findings about connections reach the fleet: the callbacks of         *)
(* observation_command.cpp, the four reporters (large ingress, periodic,     *)
(* context rules, connection verdicts), their cooldown files and the hand-   *)
(* over to the outbound queue.                                              *)
(*                                                                          *)
(* Two processes report: the service, and a manual `observe` run at its end. *)
(* The rule cooldowns (<db>.rm2-rules.state) are the service's; the verdict  *)
(* cooldowns (reporting.state) are shared, and both processes read the file, *)
(* submit, and write it back through the same temporary file.  Time may pass *)
(* and a process may die between any two steps.                             *)
(*                                                                          *)
(* The outbound queue is the one of OutboundQueue and OutboundDispatcher:    *)
(* here an announcement, once stored, is acknowledged now, later or never.   *)
(* Verdicts are those of Assurance: a profile says which one a connection    *)
(* ends with.                                                               *)
(***************************************************************************)
EXTENDS DetectionRules

CONSTANTS Scenarios,    \* the rules the service loaded (rules, a sequence), the
                        \*   kinds of connection that occur (profiles), whether
                        \*   the agent is enrolled at first (enrolled), and three
                        \*   bounds: connections (conns), steps the received
                        \*   counter of one may grow (bytes), crashes and stops
                        \*   of the service (stops)
          Cooldown,     \* policy.cooldown, in clock units
          Confidence,   \* policy.minimum_confidence, in hundredths
          Mode,         \* "SIGNIFICANT", "ALL" or "OFF"
          MaxClock      \* bound: the clock

Procs == {"service", "manual"}
Files == {"fleet", "rules"}

VARIABLES
  clock,
  scenario,  \* the one of this behaviour
  enrolled,  \* identity.conf exists
  conns,     \* the stored connections: profile, by, first, bytes, done
  live,      \* live_large_ingress_reported
  file,      \* the cooldown files: key -> time of the announcement
  tmp,       \* their temporary files, optional
  outbox,    \* producer key -> finding key and time of the ACK, -1 before it
  proc,      \* what each process is doing
  stops,
  said,      \* ghost: every decision about a finding
  lost,      \* ghost: keys whose cooldown was forgotten by a file or a process
  cut        \* ghost: connections whose completion was cut short by a crash

vars == << clock, scenario, enrolled, conns, live, file, tmp, outbox, proc, stops, said, lost, cut >>

Empty == [k \in {} |-> 0]
Idle == [calls |-> << >>, stage |-> "idle", items |-> << >>, map |-> Empty, now |-> 0,
         changed |-> FALSE]

Init ==
  /\ clock = 0
  /\ scenario \in Scenarios
  /\ enrolled = scenario.enrolled
  /\ conns = << >>
  /\ live = {}
  /\ file = [f \in Files |-> Empty]
  /\ tmp = [f \in Files |-> << >>]
  /\ outbox = Empty
  /\ proc = [p \in Procs |-> Idle]
  /\ stops = 0
  /\ said = {}
  /\ lost = {}
  /\ cut = {}

----
(***************************************************************************)
(* The findings of one reporter call.                                       *)
(***************************************************************************)

Ids == DOMAIN conns
rules == scenario.rules

\* The stored row of a connection.
Row(c) == [id |-> c, direction |-> conns[c].profile.direction, process |-> conns[c].profile.process,
           host |-> conns[c].profile.host, remote |-> conns[c].profile.host,
           port |-> conns[c].profile.port, first |-> conns[c].first]

\* TransferEvidenceStore::latest.
Transfer(c) == IF conns[c].bytes = 0 THEN << >>
               ELSE << [received |-> conns[c].bytes, sent |-> conns[c].profile.sent,
                        fidelity |-> conns[c].profile.fidelity] >>

\* prevalence: the outbound connections to the same host.
Prevalence(c) == Cardinality({d \in Ids : Row(d).direction = "OUTBOUND" /\ Row(d).host = Row(c).host})

RuleKey(rule, c) == << rule.id, Row(c).process, Row(c).host, Row(c).port >>

Enabled(engine) == SelectSeq(rules, LAMBDA r : r.enabled /\ r.engine = engine)

Admitted(engine, c) ==
  SelectSeq(Enabled(engine), LAMBDA r : ~Excludes(r.exclude, Row(c), conns[c].profile.dns))

\* auto_report_rule_large_ingress: one finding for each NET-001 rule that detects.
LargeFindings(c) ==
  LET found(r) == DetectLargeIngress(r, Row(c), Transfer(c))
      hits == SelectSeq(Admitted("NET-001", c), LAMBDA r : found(r) # << >>)
  IN  [i \in DOMAIN hits |->
        [kind |-> "large", conn |-> c, key |-> RuleKey(hits[i], c),
         producer |-> << "large", hits[i].id, c, Head(found(hits[i])).received >>,
         significant |-> Head(found(hits[i])).confidence >= Confidence]]

\* auto_report_rule_periodic_behavior: over the stored connections, with c as the
\* trigger.
PeriodicFindings(c) ==
  LET recent == {Row(d) : d \in Ids}
      found(r) == DetectPeriodic(recent, Row(c), r)
      hits == SelectSeq(Admitted("BEH-001", c), LAMBDA r : found(r) # << >>)
  IN  [i \in DOMAIN hits |->
        [kind |-> "periodic", conn |-> c, key |-> RuleKey(hits[i], c),
         producer |-> << "periodic", hits[i].id, c, Cardinality(Head(found(hits[i])).members) >>,
         significant |-> Head(found(hits[i])).confidence >= Confidence]]

\* auto_report_context_rules: the matches of the context engines; their confidence
\* is not asked.
ContextFindings(c) ==
  LET p == conns[c].profile
      ctx == [conn |-> Row(c), metrics |-> AggregateMetrics(p.samples), baseline |-> p.baseline,
              dns |-> p.dns, tls |-> p.tls, route |-> p.route, transfer |-> Transfer(c),
              prevalence |-> Prevalence(c)]
      hits == SelectSeq(rules, LAMBDA r : EvaluateOne(r, ctx))
  IN  [i \in DOMAIN hits |->
        [kind |-> "context", conn |-> c, key |-> RuleKey(hits[i], c),
         producer |-> << "context", hits[i].id, c, Prevalence(c) >>, significant |-> TRUE]]

\* Findings go to the fleet at all.
Reporting == enrolled /\ Mode # "OFF"

\* finding_matches_reporting_policy.
MatchesPolicy(v) ==
  \/ Mode = "ALL"
  \/ v.trust \in {"CHANGED", "SUSPICIOUS"}
  \/ v.performance = "DEGRADED" /\ v.confidence >= Confidence

\* auto_report_connections with finding_from_connection: a finding for each
\* finalized connection that has a verdict; its key is the target and the verdict.
ConnectionFindings(ids) ==
  LET judged == SetToSortSeq({c \in ids : conns[c].done /\ conns[c].profile.verdict # << >>}, <)
      v(c) == Head(conns[c].profile.verdict)
  IN  [i \in DOMAIN judged |->
        [kind |-> "connection", conn |-> judged[i],
         key |-> << Row(judged[i]).direction, Row(judged[i]).host, Row(judged[i]).port,
                    v(judged[i]).performance, v(judged[i]).trust >>,
         producer |-> << "connection", "verdict", judged[i], 0 >>,
         significant |-> MatchesPolicy(v(judged[i]))]]

Findings(call) ==
  CASE call.kind \in {"live", "large"} -> LargeFindings(call.conn)
    [] call.kind = "periodic" -> PeriodicFindings(call.conn)
    [] call.kind = "context" -> ContextFindings(call.conn)
    [] call.kind = "connection" -> ConnectionFindings(call.ids)

FileOf(call) == IF call.kind = "connection" THEN "fleet" ELSE "rules"

----
(***************************************************************************)
(* Connections come and go.                                                 *)
(***************************************************************************)

Call(kind, c) == [kind |-> kind, conn |-> c, ids |-> {c}]

\* The service stores a connection it sees.
Observe(profile) ==
  /\ Len(conns) < scenario.conns
  /\ proc["service"].stage = "idle"
  /\ conns' = Append(conns, [profile |-> profile, by |-> "service", first |-> clock + 1,
                             bytes |-> 0, done |-> FALSE])
  /\ UNCHANGED << clock, scenario, enrolled, live, file, tmp, outbox, proc, stops, said, lost, cut >>

\* minimum_large_ingress_threshold: exclusions are not asked.
LowestThreshold ==
  LET minima == {r.minimumReceived : r \in Range(Enabled("NET-001"))}
  IN  IF minima = {} THEN << >> ELSE << Min(minima) >>

\* TransferEvidenceStore::observe: a stored counter never goes back.
StoreTransfer(c, bytes) == [conns EXCEPT ![c].bytes = Max({@, bytes})]

\* callbacks.transport_observed: the counters are stored; past the lowest
\* threshold, a connection that was not reported yet is evaluated while it is open.
TransportObserved(c) ==
  LET bytes == conns[c].bytes + 1
  IN  /\ conns[c].by = "service" /\ ~conns[c].done /\ c \notin cut
      /\ bytes <= scenario.bytes
      /\ proc["service"].stage = "idle"
      /\ conns' = StoreTransfer(c, bytes)
      /\ proc' = IF c \notin live /\ LowestThreshold # << >> /\ bytes >= Head(LowestThreshold)
                 THEN [proc EXCEPT !["service"] = [Idle EXCEPT !.calls = << Call("live", c) >>,
                                                              !.stage = "begin"]]
                 ELSE proc
      /\ UNCHANGED << clock, scenario, enrolled, live, file, tmp, outbox, stops, said, lost, cut >>

\* callbacks.connection_completed: the verdict is stored, then the reporters run
\* in this order, the first one unless the live callback reported already.
ConnectionCompleted(c) ==
  LET calls == (IF c \in live THEN << >> ELSE << Call("large", c) >>)
               \o << Call("periodic", c), Call("context", c), Call("connection", c) >>
  IN  /\ conns[c].by = "service" /\ ~conns[c].done /\ c \notin cut
      /\ proc["service"].stage = "idle"
      /\ conns' = [conns EXCEPT ![c].done = TRUE]
      /\ live' = live \ {c}
      /\ proc' = [proc EXCEPT !["service"] = [Idle EXCEPT !.calls = calls, !.stage = "begin"]]
      /\ UNCHANGED << clock, scenario, enrolled, file, tmp, outbox, stops, said, lost, cut >>

\* The end of run_observation_command: a manual run reports its connections ...
ManualRun(profile) ==
  /\ Len(conns) < scenario.conns
  /\ proc["manual"].stage = "idle"
  /\ \A c \in Ids : conns[c].by # "manual"
  /\ conns' = Append(conns, [profile |-> profile, by |-> "manual", first |-> clock + 1,
                             bytes |-> 0, done |-> TRUE])
  /\ proc' = [proc EXCEPT !["manual"] =
                [Idle EXCEPT !.calls = << Call("connection", Len(conns) + 1) >>, !.stage = "begin"]]
  /\ UNCHANGED << clock, scenario, enrolled, live, file, tmp, outbox, stops, said, lost, cut >>

Mine == {c \in Ids : conns[c].by = "service"}

\* ... and so does the service when it stops: all of its session again, the
\* inbound connections that are still open with the verdict they get now.
ServiceStops ==
  /\ stops < scenario.stops
  /\ proc["service"].stage = "idle"
  /\ Mine \ cut # {}
  /\ stops' = stops + 1
  /\ conns' = [c \in Ids |-> [conns[c] EXCEPT !.done =
                 @ \/ (c \in Mine \ cut /\ conns[c].profile.direction = "INBOUND")]]
  /\ proc' = [proc EXCEPT !["service"] =
                [Idle EXCEPT !.calls = << [kind |-> "connection", conn |-> 0, ids |-> Mine \ cut] >>,
                             !.stage = "begin"]]
  /\ live' = {}
  /\ cut' = Mine
  /\ UNCHANGED << clock, scenario, enrolled, file, tmp, outbox, said, lost >>

----
(***************************************************************************)
(* One reporter call, step by step.                                         *)
(***************************************************************************)

Set(p, r) == proc' = [proc EXCEPT ![p] = r]

\* What follows a call: the next one, or nothing.
NextCall(r) ==
  IF Len(r.calls) = 1 THEN Idle
  ELSE [Idle EXCEPT !.calls = Tail(r.calls), !.stage = "begin"]

\* As Begin below, but the live callback remembers every connection it looks at.
BeginRemembers(p) ==
  LET call == Head(proc[p].calls)
      items == IF call.kind = "connection" /\ ~Reporting THEN << >> ELSE Findings(call)
  IN  /\ proc[p].stage = "begin"
      /\ Set(p, IF items = << >> THEN NextCall(proc[p])
                ELSE [proc[p] EXCEPT !.stage = "items", !.items = items, !.map = file[FileOf(call)],
                                     !.now = clock])
      /\ live' = IF call.kind = "live" THEN live \cup {call.conn} ELSE live
      /\ UNCHANGED << clock, scenario, enrolled, conns, file, tmp, outbox, stops, said, lost, cut >>

\* The start of a call: detect, load_cooldowns, and the time of all its decisions.
\* auto_report_connections does nothing when nothing goes to the fleet, and a call with
\* nothing to decide changes nothing.
Begin(p) ==
  LET call == Head(proc[p].calls)
      items == IF call.kind = "connection" /\ ~Reporting THEN << >> ELSE Findings(call)
  IN  /\ proc[p].stage = "begin"
      /\ Set(p, IF items = << >> THEN NextCall(proc[p])
                ELSE [proc[p] EXCEPT !.stage = "items", !.items = items, !.map = file[FileOf(call)],
                                     !.now = clock])
      /\ UNCHANGED << clock, scenario, enrolled, conns, live, file, tmp, outbox, stops, said, lost, cut >>

\* cooldown_allows, negated.
CoolingDown(p, key) ==
  key \in DOMAIN proc[p].map /\ proc[p].now - proc[p].map[key] < Cooldown

Note(p, f, outcome) ==
  said' = said \cup {[by |-> p, kind |-> f.kind, conn |-> f.conn, key |-> f.key,
                      producer |-> f.producer, at |-> proc[p].now, outcome |-> outcome]}

Skip(p, outcome) ==
  /\ Note(p, Head(proc[p].items), outcome)
  /\ Set(p, [proc[p] EXCEPT !.items = Tail(@)])
  /\ UNCHANGED << clock, scenario, enrolled, conns, live, file, tmp, outbox, stops, lost, cut >>

\* A finding announced less than the cooldown ago is not announced again.  For a
\* verdict the policy is asked first.
SuppressCooldown(p) ==
  /\ proc[p].stage = "items" /\ proc[p].items # << >>
  /\ LET f == Head(proc[p].items)
     IN  CoolingDown(p, f.key) /\ (f.kind = "connection" => f.significant)
  /\ Skip(p, "cooldown")

\* One the policy rejects, or that goes nowhere, is logged locally at most; it
\* starts no cooldown.
SuppressPolicy(p) ==
  /\ proc[p].stage = "items" /\ proc[p].items # << >>
  /\ LET f == Head(proc[p].items)
     IN  /\ ~f.significant \/ ~Reporting
         /\ f.kind # "connection" => ~CoolingDown(p, f.key)
  /\ Skip(p, "policy")

\* As Acknowledge below, but the cooldown starts whatever the answer.
CooldownAnyway(p, f, acked) ==
  Set(p, [proc[p] EXCEPT !.items = Tail(@), !.changed = TRUE, !.map = (f.key :> proc[p].now) @@ @])

\* As Acknowledge below, but the file is not marked as changed.
AcknowledgeUnsaved(p, f, acked) ==
  Set(p, IF acked
         THEN [proc[p] EXCEPT !.items = Tail(@), !.map = (f.key :> proc[p].now) @@ @]
         ELSE [proc[p] EXCEPT !.items = Tail(@)])

\* Only an acknowledged announcement starts its cooldown; otherwise the reporter
\* counts a failure and goes on.
Acknowledge(p, f, acked) ==
  Set(p, IF acked
         THEN [proc[p] EXCEPT !.items = Tail(@), !.changed = TRUE,
                              !.map = (f.key :> proc[p].now) @@ @]
         ELSE [proc[p] EXCEPT !.items = Tail(@)])

\* Stored announcements that are not acknowledged yet.
Pending(box) == {m \in DOMAIN box : box[m].acked = -1}

Acked(box, S) == [m \in DOMAIN box |-> IF m \in S THEN [box[m] EXCEPT !.acked = clock] ELSE box[m]]

\* ReliableFleetClient::submit_finding: the announcement is stored under its
\* producer key, once; a dispatch round follows, in which any of the stored ones
\* may be acknowledged; the answer is whether this one is.
Submit(p) ==
  /\ proc[p].stage = "items" /\ proc[p].items # << >>
  /\ LET f == Head(proc[p].items)
         stored == IF f.producer \in DOMAIN outbox THEN outbox
                   ELSE (f.producer :> [key |-> f.key, acked |-> -1]) @@ outbox
     IN  /\ ~CoolingDown(p, f.key)
         /\ f.significant /\ Reporting
         /\ \E S \in SUBSET Pending(stored) :
              /\ outbox' = Acked(stored, S)
              /\ Acknowledge(p, f, outbox'[f.producer].acked # -1)
              /\ Note(p, f, IF outbox'[f.producer].acked # -1 THEN "acked" ELSE "kept")
  /\ UNCHANGED << clock, scenario, enrolled, conns, live, file, tmp, stops, lost, cut >>

\* The queue refused to store it, or make_queue threw: counted as a failure.
SubmitFails(p) ==
  /\ proc[p].stage = "items" /\ proc[p].items # << >>
  /\ LET f == Head(proc[p].items)
     IN  /\ ~CoolingDown(p, f.key)
         /\ f.significant /\ Reporting
         /\ f.producer \notin DOMAIN outbox
         /\ Acknowledge(p, f, FALSE)
         /\ Note(p, f, "failed")
  /\ UNCHANGED << clock, scenario, enrolled, conns, live, file, tmp, outbox, stops, lost, cut >>

\* A call that announced nothing ends here.  The live callback remembers a
\* connection for which something was detected, announced or not.
Finish(p) ==
  LET call == Head(proc[p].calls)
  IN  /\ proc[p].stage = "items" /\ proc[p].items = << >>
      /\ live' = IF call.kind = "live" THEN live \cup {call.conn} ELSE live
      /\ Set(p, IF proc[p].changed THEN [proc[p] EXCEPT !.stage = "write"] ELSE NextCall(proc[p]))
      /\ UNCHANGED << clock, scenario, enrolled, conns, file, tmp, outbox, stops, said, lost, cut >>

\* save_cooldowns: the temporary file is written ...
WriteState(p) ==
  LET f == FileOf(Head(proc[p].calls))
  IN  /\ proc[p].stage = "write"
      /\ tmp' = [tmp EXCEPT ![f] = << proc[p].map >>]
      /\ Set(p, [proc[p] EXCEPT !.stage = IF f = "rules" THEN "remove" ELSE "rename"])
      /\ UNCHANGED << clock, scenario, enrolled, conns, live, file, outbox, stops, said, lost, cut >>

\* Keys that were announced and saved, or are about to be, and that map forgets.
Forgotten(f, map) ==
  {k \in DOMAIN file[f] : k \notin DOMAIN map \/ (k \in DOMAIN map /\ map[k] < file[f][k])}

Unsaved(p, map) ==
  {k \in DOMAIN proc[p].map : k \notin DOMAIN map \/ (k \in DOMAIN map /\ map[k] < proc[p].map[k])}

\* ... the rule cooldowns are removed before the rename ...
RemoveState(p) ==
  /\ proc[p].stage = "remove"
  /\ file' = [file EXCEPT !["rules"] = Empty]
  /\ lost' = lost \cup Forgotten("rules", proc[p].map)
  /\ Set(p, [proc[p] EXCEPT !.stage = "rename"])
  /\ UNCHANGED << clock, scenario, enrolled, conns, live, tmp, outbox, stops, said, cut >>

\* ... and the temporary file, whoever wrote it last, takes the place of the file.
\* When the other process renamed it first there is none: the exception ends the
\* call, and a manual run.
RenameState(p) ==
  LET f == FileOf(Head(proc[p].calls))
      new == IF tmp[f] = << >> THEN file[f] ELSE Head(tmp[f])
  IN  /\ proc[p].stage = "rename"
      /\ file' = [file EXCEPT ![f] = new]
      /\ tmp' = [tmp EXCEPT ![f] = << >>]
      /\ lost' = lost \cup Forgotten(f, new) \cup Unsaved(p, new)
      /\ Set(p, NextCall(proc[p]))
      /\ UNCHANGED << clock, scenario, enrolled, conns, live, outbox, stops, said, cut >>

----
(***************************************************************************)
(* The rest of the world.                                                   *)
(***************************************************************************)

\* A dispatch round of callbacks.periodic.
Drain(S) ==
  /\ S # {} /\ S \subseteq Pending(outbox)
  /\ proc["service"].stage = "idle"
  /\ outbox' = Acked(outbox, S)
  /\ UNCHANGED << clock, scenario, enrolled, conns, live, file, tmp, proc, stops, said, lost, cut >>

\* Time passes while the processes wait: for an event, or for the coordinator.
Tick ==
  /\ clock < MaxClock
  /\ \A p \in Procs : proc[p].stage \in {"idle", "items"}
  /\ clock' = clock + 1
  /\ UNCHANGED << scenario, enrolled, conns, live, file, tmp, outbox, proc, stops, said, lost, cut >>

Enrol ==
  /\ ~enrolled
  /\ enrolled' = TRUE
  /\ UNCHANGED << clock, scenario, conns, live, file, tmp, outbox, proc, stops, said, lost, cut >>

\* The service dies and is started again: what it had in memory is gone, and the
\* connections it was following are never completed.
Crash ==
  LET p == "service"
      busy == proc[p].stage # "idle"
      f == FileOf(Head(proc[p].calls))
  IN  /\ stops < scenario.stops
      /\ stops' = stops + 1
      /\ live' = {}
      /\ cut' = Mine
      /\ lost' = IF busy THEN lost \cup Unsaved(p, file[f]) ELSE lost
      /\ Set(p, Idle)
      /\ UNCHANGED << clock, scenario, enrolled, conns, file, tmp, outbox, said >>

Next ==
  \/ \E f \in scenario.profiles : Observe(f) \/ ManualRun(f)
  \/ \E c \in Ids : TransportObserved(c) \/ ConnectionCompleted(c)
  \/ \E p \in Procs : \/ Begin(p) \/ SuppressCooldown(p) \/ SuppressPolicy(p) \/ Submit(p)
                      \/ SubmitFails(p) \/ Finish(p) \/ WriteState(p) \/ RemoveState(p) \/ RenameState(p)
  \/ ServiceStops
  \/ \E S \in SUBSET Pending(outbox) : Drain(S)
  \/ Tick \/ Enrol \/ Crash

Spec == Init /\ [][Next]_vars

----
(***************************************************************************)
(* Properties.                                                              *)
(***************************************************************************)

\* Keys for which some announcement was acknowledged.
Announced == {outbox[m].key : m \in {n \in DOMAIN outbox : outbox[n].acked # -1}}

\* A cooldown, on disk, half written or in the memory of a reporter, belongs to a
\* finding of which the coordinator acknowledged an announcement (load_cooldowns,
\* submit_finding, save_cooldowns; MS4_1_FLEET_REPORTING_BOUNDED_STORAGE.md:
\* "Reporting cooldowns advance only after a matching application ACK").
CooldownAfterAck ==
  /\ \A f \in Files : DOMAIN file[f] \subseteq Announced
  /\ \A f \in Files : \A m \in Range(tmp[f]) : DOMAIN m \subseteq Announced
  /\ \A p \in Procs : DOMAIN proc[p].map \subseteq Announced

\* What is withheld because of a cooldown, a reporter saw acknowledged less than
\* one cooldown before (cooldown_allows).  The ACK itself may be older: a service
\* that stops submits its verdicts again, finds the old ACK of the same producer
\* key, and starts the cooldown anew.
WithheldWasSaid ==
  \A d \in said : d.outcome = "cooldown" =>
    \E e \in said : /\ e.outcome = "acked" /\ e.key = d.key
                    /\ d.at - e.at < Cooldown
                    /\ outbox[e.producer].acked # -1

\* Cooldowns are the coordinator's to give: CooldownAfterAck and WithheldWasSaid.
CooldownsAreEarned == CooldownAfterAck /\ WithheldWasSaid

\* Within one cooldown a process announces a finding twice, acknowledged both
\* times, only when a crash or the other process made the file forget the first
\* (auto_report_connections and the rule reporters).
RepeatsHaveACause ==
  \A d, e \in said :
    (/\ d.outcome = "acked" /\ e.outcome = "acked" /\ d # e
     /\ d.by = e.by /\ d.key = e.key
     /\ d.at <= e.at /\ e.at - d.at < Cooldown) => d.key \in lost

\* The service has nothing left to do for c.
Settled(c) == \A i \in DOMAIN proc["service"].calls : c \notin proc["service"].calls[i].ids

\* A completed outbound connection that received as much as the lowest rule that
\* admits it asks for was decided upon as a large ingress, while it was open or at
\* its completion, unless a crash came in between (live_large_ingress_reported).
LargeIngressIsDecided ==
  \A c \in Mine :
    (/\ conns[c].done /\ c \notin cut /\ Settled(c)
     /\ LargeFindings(c) # << >>)
       => \E d \in said : d.kind = "large" /\ d.conn = c

====
