---- MODULE Assurance ----
(***************************************************************************)
(* Where verdicts come from and whether they can be reproduced: the         *)
(* evidence of a connection, the baselines the operator accepts, the four   *)
(* paths that store a verdict, the rule set in force, and export followed by *)
(* replay.                                                                  *)
(*                                                                          *)
(* The service evaluates the connections it saw complete; a manual `observe` *)
(* run evaluates its own at its end, against the TLS probe it made; the     *)
(* `baseline` command evaluates the connection it accepts.  The processes    *)
(* share the history only.                                                  *)
(***************************************************************************)
EXTENDS Verdicts

CONSTANTS Connection,    \* the connections: by (which process observes it),
                         \*   direction, process, target
          Scenarios,     \* the connections that occur together (ids), with two
                         \*   bounds: the samples and TLS evidence that arrive
                         \*   (events) and the rule set activations (changes)
          Samples,       \* the transport samples the sockets may show
          Evidence,      \* the TLS session evidence the sensors may deliver
          Probes,        \* what the TLS probe may find at a target
          RuleSets,      \* the rule sets that may be activated
          BuiltIn,       \* those of them the program can rebuild by version
          MinRtts,       \* RTT samples a baseline needs (5)
          MaxBaselines   \* bound: accepted baselines

ASSUME BuiltInAssumption == BuiltIn \subseteq RuleSets

VARIABLES
  scenario,   \* the one of this behaviour
  completed,  \* those the service saw complete
  samples,    \* connection -> its stored samples, in order
  tls,        \* connection -> its stored TLS session evidence, in order
  link,       \* connection -> the probe observation linked to it, optional
  verdict,    \* connection -> its stored verdict, optional
  maker,      \* connection -> the path that stored it
  stale,      \* connections that got evidence after their verdict
  baselines,  \* accepted baselines, oldest first
  run,        \* the manual run on a target: the baseline it started with, and
              \*   whether it is over
  active,     \* the rule set on disk, that a process loads when it starts
  loaded,     \* the rule set the service loaded
  changes

vars == << scenario, completed, samples, tls, link, verdict, maker, stale, baselines, run, active, loaded,
           changes >>

Ids == DOMAIN Connection

Init ==
  /\ scenario \in Scenarios
  /\ completed = {}
  /\ samples = [c \in Ids |-> << >>]
  /\ tls = [c \in Ids |-> << >>]
  /\ link = [c \in Ids |-> << >>]
  /\ verdict = [c \in Ids |-> << >>]
  /\ maker = [c \in Ids |-> "none"]
  /\ stale = {}
  /\ baselines = << >>
  /\ run = << >>
  /\ active \in BuiltIn
  /\ loaded = active
  /\ changes = 0

----
(***************************************************************************)
(* The history as these paths use it.                                       *)
(***************************************************************************)

\* HistoryStore::baseline_for: the newest baseline of a key.
BaselineFor(key) ==
  LET found == {i \in DOMAIN baselines : baselines[i].key = key}
  IN  IF found = {} THEN << >> ELSE << baselines[Max(found)] >>

\* HistoryStore::save_baseline: a baseline that is there already is not stored
\* again (INSERT OR IGNORE on its hash).
SaveBaseline(b) ==
  baselines' = IF \E i \in DOMAIN baselines : baselines[i].hash = b.hash THEN baselines
               ELSE Append(baselines, b)

\* HistoryStore::save_verdict: one verdict per connection, the last.
SaveVerdict(c, v, by) ==
  /\ verdict' = [verdict EXCEPT ![c] = << v >>]
  /\ maker' = [maker EXCEPT ![c] = by]
  /\ stale' = stale \ {c}

Unresolved == UNCHANGED << verdict, maker, stale >>

\* HistoryStore::recent_samples_for_target: of every connection to the target.
SamplesOf(target) ==
  FlattenSeq([c \in Ids |-> IF Connection[c].target = target THEN samples[c] ELSE << >>])

\* The values of a field in the samples that bear an RTT.
Measured(all, field) ==
  LET bearing == SelectSeq(all, LAMBDA s : s.rtt # 0)
  IN  [i \in DOMAIN bearing |-> bearing[i][field]]

\* The performance half of a new baseline; a variance of 0 was not measured.
Measures(target) ==
  LET all == SamplesOf(target)
  IN  [rtt |-> Median(Measured(all, "rtt")),
       rttvar |-> Median(SelectSeq(Measured(all, "rttvar"), LAMBDA v : v # 0)),
       count |-> Len(all)]

----
(***************************************************************************)
(* Evidence arrives: transport samples, and TLS sessions correlated with a  *)
(* connection while it is open or just after.                               *)
(***************************************************************************)

\* A connection of the manual run is observed while the run lasts.
Observed(c) == Connection[c].by = "manual" => run # << >> /\ ~run[1].over

Arrived == MapThenSumSet(LAMBDA c : Len(samples[c]) + Len(tls[c]), Ids)

\* HistoryStore::add_tcp_sample.
AddSample(c, s) ==
  /\ Observed(c) /\ c \notin completed /\ Arrived < scenario.events
  /\ samples' = [samples EXCEPT ![c] = Append(@, s)]
  /\ stale' = IF verdict[c] = << >> THEN stale ELSE stale \cup {c}
  /\ UNCHANGED << scenario, completed, tls, link, verdict, maker, baselines, run, active, loaded, changes >>

\* tls_session_identity_key: the observation, without its time.
SessionKey(e) == [f \in DOMAIN e \ {"relation", "correlation"} |-> e[f]]

\* HistoryStore::add_tls_session_evidence: a session that is stored is not stored
\* again.
AddTls(c, e) ==
  /\ Observed(c) /\ Arrived < scenario.events
  /\ (e.role = "SERVER") <=> (Connection[c].direction = "INBOUND")
  /\ SessionKey(e) \notin {SessionKey(f) : f \in Range(tls[c])}
  /\ tls' = [tls EXCEPT ![c] = Append(@, e)]
  /\ stale' = IF verdict[c] = << >> THEN stale ELSE stale \cup {c}
  /\ UNCHANGED << scenario, completed, samples, link, verdict, maker, baselines, run, active, loaded, changes >>

----
(***************************************************************************)
(* The paths that store a verdict.                                          *)
(***************************************************************************)

\* evaluate_outbound_connection, when the service sees a connection complete: no
\* baseline of the target, no verdict.
EvaluateOutboundConnection(c) ==
  LET b == BaselineFor(Connection[c].target)
  IN  /\ Connection[c].by = "service" /\ Connection[c].direction = "OUTBOUND"
      /\ c \notin completed
      /\ completed' = completed \cup {c}
      /\ IF b = << >> THEN Unresolved
         ELSE SaveVerdict(c, Evaluate(Head(b), AggregateMetrics(samples[c]),
                                      ExactTlsObservation(tls[c]), loaded), "service")
      /\ UNCHANGED << scenario, samples, tls, link, baselines, run, active, loaded, changes >>

\* finalize_inbound_connection, by the service at completion and by a manual run
\* at its end.
FinalizeInbound(c) ==
  LET context  == InboundTrustContext(tls[c])
      key      == InboundClientKey(Connection[c], context.subject)
      accepted == IF key = << >> THEN << >> ELSE BaselineFor(key)
      rules    == IF Connection[c].by = "service" THEN loaded ELSE active
  IN  /\ Connection[c].direction = "INBOUND"
      /\ c \notin completed
      /\ completed' = completed \cup {c}
      /\ SaveVerdict(c, EvaluateInbound(accepted, AggregateMetrics(samples[c]), context, rules),
                     "inbound")
      /\ UNCHANGED << scenario, samples, tls, link, baselines, run, active, loaded, changes >>

\* run_observation_command on a target: the baseline is read when the run starts.
StartRun(target) ==
  /\ run = << >>
  /\ run' = << [target |-> target, baseline |-> BaselineFor(target), over |-> FALSE] >>
  /\ UNCHANGED << scenario, completed, samples, tls, link, verdict, maker, stale, baselines, active, loaded, changes >>

\* The end of the run: the probe's observation, when it found one, is linked to
\* every connection of the run, and finalize_target_connections evaluates them
\* against it.
FinishRun(probe) ==
  LET mine == {c \in scenario.ids : Connection[c].by = "manual" /\ Connection[c].target = run[1].target}
      b    == run[1].baseline
  IN  /\ run # << >>
      /\ ~run[1].over
      /\ run' = << [run[1] EXCEPT !.over = TRUE] >>
      /\ link' = [c \in Ids |-> IF c \in mine /\ probe # << >> THEN probe ELSE link[c]]
      /\ IF b = << >> THEN Unresolved
         ELSE /\ verdict' = [c \in Ids |-> IF c \notin mine THEN verdict[c]
                              ELSE << Evaluate(Head(b), AggregateMetrics(samples[c]), probe, active) >>]
              /\ maker' = [c \in Ids |-> IF c \in mine THEN "target" ELSE maker[c]]
              /\ stale' = stale \ mine
      /\ UNCHANGED << scenario, completed, samples, tls, baselines, active, loaded, changes >>

\* accept_outbound_connection_baseline (`baseline accept-connection`): enough RTT
\* samples of the target, and an exact server identity only if it is valid.
AcceptConnection(c) ==
  LET target == Connection[c].target
      exact  == ExactTlsObservation(tls[c])
      m      == Measures(target)
      spki   == IF exact = << >> THEN "" ELSE Head(exact).spki
      issuer == IF exact = << >> THEN "" ELSE Head(exact).issuer
      b      == [key |-> target, spki |-> spki, issuer |-> issuer,
                 hash |-> << "connection", target, m, spki, issuer >>] @@ m
  IN  /\ Connection[c].direction = "OUTBOUND"
      /\ Len(baselines) < MaxBaselines
      /\ exact # << >> => Head(exact).chain /\ Head(exact).hostname /\ Head(exact).spki # ""
      /\ Len(Measured(SamplesOf(target), "rtt")) >= MinRtts
      /\ SaveBaseline(b)
      /\ SaveVerdict(c, Evaluate(b, AggregateMetrics(samples[c]), exact, active), "accept")
      /\ UNCHANGED << scenario, completed, samples, tls, link, run, active, loaded, changes >>

\* cmd_baseline accept-client: one exact, authenticated client certificate with a
\* subject and an SPKI.
AcceptClient(c) ==
  LET context == InboundTrustContext(tls[c])
      key     == InboundClientKey(Connection[c], context.subject)
      b       == [key |-> key, rtt |-> 0, rttvar |-> 0, count |-> 0,
                  spki |-> context.spki, issuer |-> context.issuer,
                  hash |-> << "client", key, context.spki, context.issuer >>]
  IN  /\ Connection[c].direction = "INBOUND"
      /\ ~context.ambiguous /\ context.exact /\ context.certificate /\ key # << >>
      /\ context.authenticated /\ context.spki # ""
      /\ Len(baselines) < MaxBaselines
      /\ SaveBaseline(b)
      /\ SaveVerdict(c, EvaluateInbound(<< b >>, AggregateMetrics(samples[c]), context, active),
                     "client")
      /\ UNCHANGED << scenario, completed, samples, tls, link, run, active, loaded, changes >>

\* cmd_baseline capture: the identity comes from a valid probe of the target; its
\* issuer is not part of the hash.
Capture(target, probe) ==
  /\ Len(baselines) < MaxBaselines
  /\ probe.chain /\ probe.hostname
  /\ LET m == Measures(target)
     IN  /\ m.count >= MinRtts
         /\ Measured(SamplesOf(target), "rtt") # << >>
         /\ SaveBaseline([key |-> target, spki |-> probe.spki, issuer |-> probe.issuer,
                          hash |-> << "capture", target, m, probe.spki >>] @@ m)
  /\ UNCHANGED << scenario, completed, samples, tls, link, verdict, maker, stale, run, active, loaded, changes >>

----
(***************************************************************************)
(* Rule sets: current_rule_set reads the active one once per process.       *)
(***************************************************************************)

Activate(r) ==
  /\ changes < scenario.changes
  /\ r # active
  /\ active' = r
  /\ changes' = changes + 1
  /\ UNCHANGED << scenario, completed, samples, tls, link, verdict, maker, stale, baselines, run, loaded >>

RestartService ==
  /\ loaded # active
  /\ loaded' = active
  /\ UNCHANGED << scenario, completed, samples, tls, link, verdict, maker, stale, baselines, run, active, changes >>

\* rule_set_for_version: a version the program can rebuild, or the active one.
RuleSetForVersion(version) ==
  LET known == {r \in BuiltIn : r.version = version}
  IN  IF known # {} THEN << CHOOSE r \in known : TRUE >>
      ELSE IF active.version = version THEN << active >> ELSE << >>

----
(***************************************************************************)
(* Export and replay.                                                       *)
(***************************************************************************)

\* HistoryStore::export_data: the stored baseline whose hash the verdict bears.
NamedBaseline(v) ==
  IF v.baseline = << >> THEN << >>
  ELSE SelectSeq(baselines, LAMBDA b : b.hash = Head(v.baseline).hash)

\* As ExportBundle below, but with the baseline in force instead of the one the
\* verdict names.
ExportNewestBaseline(c) ==
  LET v == Head(verdict[c])
  IN  [verdict |-> v,
       baseline |-> IF v.baseline = << >> THEN << >> ELSE BaselineFor(Head(v.baseline).key),
       metrics |-> AggregateMetrics(samples[c]), tls |-> link[c],
       context |-> InboundTrustContext(tls[c])]

\* cmd_export: the stored verdict, its baseline, the aggregate of the samples, the linked probe observation, and what
\* inbound_trust_context makes of the TLS sessions.
ExportBundle(c) ==
  LET v == Head(verdict[c])
  IN  [verdict |-> v, baseline |-> NamedBaseline(v),
       metrics |-> AggregateMetrics(samples[c]), tls |-> link[c],
       context |-> InboundTrustContext(tls[c])]

\* cmd_export refuses a connection without a verdict, and an outbound one without
\* its baseline.
Exportable(c) ==
  /\ verdict[c] # << >>
  /\ Connection[c].direction = "INBOUND" \/ ExportBundle(c).baseline # << >>

\* cmd_replay: the verdict evaluated again from the bundle, under the rule set its
\* version names; none when the version is not supported.
Replay(c) ==
  LET bundle == ExportBundle(c)
      rules  == RuleSetForVersion(bundle.verdict.rules.version)
  IN  IF rules = << >> THEN << >>
      ELSE IF Connection[c].direction = "INBOUND"
      THEN << EvaluateInbound(bundle.baseline, bundle.metrics, bundle.context, Head(rules)) >>
      ELSE << Evaluate(Head(bundle.baseline), bundle.metrics, bundle.tls, Head(rules)) >>

----
Targets == {Connection[c].target : c \in {d \in scenario.ids : Connection[d].direction = "OUTBOUND"}}

Next ==
  \/ \E c \in scenario.ids : \/ \E s \in Samples : AddSample(c, s)
                    \/ \E e \in Evidence : AddTls(c, e)
                    \/ EvaluateOutboundConnection(c)
                    \/ FinalizeInbound(c)
                    \/ AcceptConnection(c)
                    \/ AcceptClient(c)
  \/ \E t \in Targets : StartRun(t) \/ \E p \in Probes : Capture(t, p)
  \/ \E p \in Probes : FinishRun(<< p >>)
  \/ FinishRun(<< >>)
  \/ \E r \in RuleSets : Activate(r)
  \/ RestartService

Spec == Init /\ [][Next]_vars

----
(***************************************************************************)
(* Properties.                                                              *)
(***************************************************************************)

\* Replaying the export of c gives the performance, the trust and the evidence
\* input of the stored verdict.
Reproduces(c) ==
  LET r == Replay(c) v == Head(verdict[c])
  IN  r # << >> => /\ Head(r).performance = v.performance
                   /\ Head(r).trust = v.trust
                   /\ Head(r).input = v.input

\* A verdict of a manual run on a target, of an inbound connection or of an
\* accepted client can be reproduced from its export as long as no evidence
\* arrived after it, whatever was accepted or activated since
\* (HistoryStore::export_data, cmd_export, cmd_replay).
ProbeAndClientVerdictsReplay ==
  \A c \in scenario.ids : (Exportable(c) /\ c \notin stale /\ maker[c] \in {"target", "inbound", "client"})
                    => Reproduces(c)

\* Every stored verdict can be reproduced from its export as long as no evidence
\* arrived after it.
EveryVerdictReplays ==
  \A c \in scenario.ids : (Exportable(c) /\ c \notin stale) => Reproduces(c)

\* The identities that may speak for the peer of c: the exact server identities,
\* the linked probe, or the only exact client session.
Witnesses(c) ==
  IF Connection[c].direction = "INBOUND"
  THEN LET x == InboundTrustContext(tls[c]) IN IF x.exact THEN {x.spki} ELSE {}
  ELSE {tls[c][i].spki : i \in {j \in DOMAIN tls[c] :
          tls[c][j].correlation = "EXACT" /\ tls[c][j].fidelity = "EXACT"}}
       \cup {p.spki : p \in Range(link[c])}

\* A connection is STABLE only if an identity seen on it, exactly or by the probe
\* linked to it, is one that was accepted for the baseline its verdict names
\* (evaluate, evaluate_inbound and what they are given).
StableWasAccepted ==
  \A c \in scenario.ids : (verdict[c] # << >> /\ c \notin stale /\ Head(verdict[c]).trust = "STABLE")
    => \E b \in Range(baselines) : /\ << b >> = Head(verdict[c]).baseline
                                   /\ b.spki # ""
                                   /\ b.spki \in Witnesses(c)

IsExact(e) == e.correlation = "EXACT" /\ e.fidelity = "EXACT"

\* Evidence that was not read and correlated exactly never moves a trust
\* decision: without it the service and the inbound path decide the same
\* (exact_outbound_identity, inbound_trust_context).
WeakEvidenceDecidesNothing ==
  \A c \in scenario.ids :
    LET strong == SelectSeq(tls[c], IsExact)
        b      == BaselineFor(Connection[c].target)
        in(e)  == LET x == InboundTrustContext(e)
                      k == InboundClientKey(Connection[c], x.subject)
                  IN  InboundTrust(IF k = << >> THEN << >> ELSE BaselineFor(k), x, loaded)
    IN  IF Connection[c].direction = "INBOUND" THEN in(tls[c]) = in(strong)
        ELSE b # << >> => OutboundTrust(Head(b), ExactTlsObservation(tls[c]), loaded)
                          = OutboundTrust(Head(b), ExactTlsObservation(strong), loaded)

\* Trust rests on exact, accepted evidence alone: StableWasAccepted and
\* WeakEvidenceDecidesNothing.
TrustIsEarned == StableWasAccepted /\ WeakEvidenceDecidesNothing
====
