---- MODULE DetectionRules ----
(***************************************************************************)
(* The detection engines a rule selects, as predicates of a rule and of what *)
(* is stored about a connection: the ten context engines of                 *)
(* context_rule_engine.cpp, periodic outbound connections                   *)
(* (behavior_detection.hpp) and large ingress (transfer_assurance.hpp).     *)
(*                                                                          *)
(* A context is a record: conn, metrics, baseline, dns, tls, route,         *)
(* transfer, prevalence; optional members are sequences of at most one      *)
(* element.  Ratios and confidences are in hundredths.                      *)
(***************************************************************************)
EXTENDS Verdicts

----
(***************************************************************************)
(* Exclusions.                                                              *)
(***************************************************************************)

\* correlated_domains: the names that were asked for and the canonical names.
CorrelatedDomains(dns) ==
  {d \in UNION {{dns[i].query, dns[i].canonical} : i \in DOMAIN dns} : d # ""}

\* excludes_connection: one attribute of the connection, its process, its peer or
\* a correlated domain is enough; an attribute that is not known excludes nothing.
Excludes(exclusion, conn, dns) ==
  \/ conn.process # "" /\ conn.process \in exclusion.processes
  \/ conn.host # "" /\ conn.host \in exclusion.hosts
  \/ conn.remote # "" /\ conn.remote \in exclusion.remotes
  \/ conn.port \in exclusion.ports
  \/ CorrelatedDomains(dns) \cap exclusion.domains # {}
  \/ conn.direction \in exclusion.directions

----
(***************************************************************************)
(* The context engines.                                                     *)
(***************************************************************************)

Outbound(ctx) == ctx.conn.direction = "OUTBOUND"

\* NET-002.
RetransmissionSpike(rule, ctx) == ctx.metrics.retrans >= rule.threshold

\* NET-003: a known port that port_allowed does not find.
UnusualPort(rule, ctx) ==
  Outbound(ctx) /\ ctx.conn.port # 0 /\ ctx.conn.port \notin rule.allowedPorts

\* NET-004.
RareDestination(rule, ctx) == Outbound(ctx) /\ ctx.prevalence <= rule.maximum

\* NET-005: sent against received, the latter no less than its floor.
HighAsymmetry(rule, ctx) ==
  /\ Outbound(ctx) /\ ctx.transfer # << >>
  /\ LET t == Head(ctx.transfer)
     IN  /\ t.sent >= rule.minimumSent
         /\ t.sent * 100 >= rule.ratio * Max({t.received, rule.floor})

\* DNS-001: failed_dns_count reaches its minimum.
RepeatedDnsFailures(rule, ctx) ==
  Cardinality({i \in DOMAIN ctx.dns : ctx.dns[i].failed}) >= rule.minimum

Forward(dns) == {i \in DOMAIN dns : dns[i].forward}

\* dns_contains_remote: some answer of a forward query that was correlated well
\* is the remote address, or there is no such answer at all.
DnsContainsRemote(ctx) ==
  LET answers == UNION {ctx.dns[i].addresses : i \in
                   {j \in Forward(ctx.dns) :
                      ctx.dns[j].correlation \in {"EXACT", "STRONGLY_CORRELATED"}}}
  IN  ctx.conn.remote # "" /\ (ctx.conn.remote \in answers \/ answers = {})

\* DNS-002.
DnsMismatch(rule, ctx) ==
  Outbound(ctx) /\ ctx.dns # << >> /\ rule.requireMatch /\ ~DnsContainsRemote(ctx)

\* DNS-003: distinct_dns_answers exceeds its maximum.
AnswerChurn(rule, ctx) ==
  Cardinality(UNION {ctx.dns[i].addresses : i \in Forward(ctx.dns)}) > rule.maximum

\* exact_outbound_tls: the first exactly correlated outbound session.
ExactOutboundTls(tls) ==
  LET exact == {i \in DOMAIN tls :
                  /\ tls[i].correlation = "EXACT"
                  /\ tls[i].relation \in {"OUTBOUND_SERVER_IDENTITY", "OUTBOUND_TLS_SESSION"}}
  IN  IF exact = {} THEN << >> ELSE << tls[Min(exact)] >>

\* TLS-001.
TlsValidationFailure(rule, ctx) ==
  \E t \in Range(ExactOutboundTls(ctx.tls)) :
    \/ rule.requireAuthentication /\ ~t.authenticated
    \/ rule.failureMatch /\ t.verify = "FAILED"

\* TLS-002: an identity is compared only with one that was accepted.
TlsIdentityChange(rule, ctx) ==
  \E t \in Range(ExactOutboundTls(ctx.tls)), b \in Range(ctx.baseline) :
    \/ rule.compareSpki /\ b.spki \notin {"", t.spki}
    \/ rule.compareIssuer /\ b.issuer \notin {"", t.issuer}

\* ROUTE-001: an empty allowlist allows everything.
UnexpectedRoute(rule, ctx) ==
  \E r \in Range(ctx.route) :
    \/ rule.gateways # {} /\ r.gateway \notin rule.gateways
    \/ rule.interfaces # {} /\ r.interface \notin rule.interfaces

\* evaluate_one.
EvaluateOne(rule, ctx) ==
  /\ rule.enabled
  /\ ~Excludes(rule.exclude, ctx.conn, ctx.dns)
  /\ CASE rule.engine = "NET-002"   -> RetransmissionSpike(rule, ctx)
       [] rule.engine = "NET-003"   -> UnusualPort(rule, ctx)
       [] rule.engine = "NET-004"   -> RareDestination(rule, ctx)
       [] rule.engine = "NET-005"   -> HighAsymmetry(rule, ctx)
       [] rule.engine = "DNS-001"   -> RepeatedDnsFailures(rule, ctx)
       [] rule.engine = "DNS-002"   -> DnsMismatch(rule, ctx)
       [] rule.engine = "DNS-003"   -> AnswerChurn(rule, ctx)
       [] rule.engine = "TLS-001"   -> TlsValidationFailure(rule, ctx)
       [] rule.engine = "TLS-002"   -> TlsIdentityChange(rule, ctx)
       [] rule.engine = "ROUTE-001" -> UnexpectedRoute(rule, ctx)
       [] OTHER -> FALSE

----
(***************************************************************************)
(* Periodic outbound connections.                                           *)
(***************************************************************************)

\* same_group.
SameGroup(a, b) ==
  /\ a.direction = "OUTBOUND" /\ b.direction = "OUTBOUND"
  /\ a.process = b.process /\ a.process # ""
  /\ a.host = b.host /\ a.host # ""
  /\ a.port = b.port /\ a.port # 0

\* The rows of the trigger's group that are no later than it and inside the
\* window.
PeriodicGroup(recent, trigger, rule) ==
  {c \in recent : /\ c.first # 0
                  /\ SameGroup(c, trigger)
                  /\ c.first <= trigger.first
                  /\ trigger.first - c.first <= rule.window}

Distance(a, b) == IF a > b THEN a - b ELSE b - a

\* detect_periodic_outbound: the confidence of the finding, or none.  The trigger
\* must be the last of its group, no two members may have started together, and
\* enough of the intervals must be close to their median.
DetectPeriodic(recent, trigger, rule) ==
  LET group     == PeriodicGroup(recent, trigger, rule)
      starts    == SetToSortSeq({c.first : c \in group}, <)
      intervals == [i \in 1..(Len(starts) - 1) |-> starts[i + 1] - starts[i]]
      median    == Median(intervals)
      regular   == {i \in DOMAIN intervals :
                      Distance(intervals[i], median) * 100 <= median * rule.tolerance}
      fraction  == (Cardinality(regular) * 100) \div Len(intervals)
  IN  IF \/ rule.minimum < 2 \/ rule.window = 0 \/ rule.minInterval = 0
         \/ rule.minInterval > rule.maxInterval
         \/ trigger \notin recent \/ trigger \notin group
         \/ Cardinality(group) < rule.minimum
         \/ Cardinality(group) # Len(starts)
      THEN << >>
      ELSE IF \/ median < rule.minInterval \/ median > rule.maxInterval
              \/ fraction < rule.fraction
      THEN << >>
      ELSE << [confidence |-> fraction, members |-> {c.id : c \in group}] >>

----
(***************************************************************************)
(* Large ingress.                                                           *)
(***************************************************************************)

\* detect_large_ingress: a threshold of 0 detects nothing; the confidence is that
\* of the source of the counters.
DetectLargeIngress(rule, conn, transfer) ==
  IF \/ rule.minimumReceived = 0 \/ conn.direction # "OUTBOUND" \/ transfer = << >>
     \/ transfer # << >> /\ Head(transfer).received < rule.minimumReceived
  THEN << >>
  ELSE << [confidence |-> CASE Head(transfer).fidelity = "EXACT" -> 100
                            [] Head(transfer).fidelity = "STRONGLY_CORRELATED" -> 90
                            [] OTHER -> 70,
           received |-> Head(transfer).received] >>

====
