---- MODULE Verdicts ----
(***************************************************************************)
(* The assurance verdict as a function of its inputs: the aggregation of a  *)
(* connection's transport samples, the choice of the TLS evidence that may  *)
(* speak for the peer, and the performance and trust decisions of verdict.cpp *)
(* and outbound_baseline.cpp.                                               *)
(*                                                                          *)
(* An optional value is a sequence of at most one element.  A hash is the   *)
(* value it is taken of, so two inputs are equal exactly when their hashes  *)
(* are.  Rule weights and confidences are in hundredths, and the ratio of an *)
(* observed value to the baseline is a whole number.                        *)
(***************************************************************************)
EXTENDS Integers, Sequences, FiniteSetsExt, SequencesExt

Unless0(S) == Max(S \cup {0})

\* median in outbound_baseline.cpp: of an even number of values, the mean of
\* the middle two; of none, 0.
Median(values) ==
  LET sorted == SortSeq(values, <)
      middle == Len(values) \div 2
  IN  IF values = << >> THEN 0
      ELSE IF Len(values) % 2 = 1 THEN sorted[middle + 1]
      ELSE (sorted[middle] + sorted[middle + 1]) \div 2

\* aggregate_metrics: the worst RTT and RTT variance of the samples that bear an
\* RTT, and the growth of the retransmission counter from the first sample to
\* the last, 0 when it went back.
AggregateMetrics(samples) ==
  LET bearing == {i \in DOMAIN samples : samples[i].rtt # 0}
  IN  [rtt     |-> Unless0({samples[i].rtt : i \in bearing}),
       rttvar  |-> Unless0({samples[i].rttvar : i \in bearing}),
       retrans |-> IF samples = << >> THEN 0
                   ELSE Unless0({Last(samples).retrans - Head(samples).retrans})]

\* evaluate_performance: each measure that passed its threshold adds its weight.
\* A baseline without samples or without an RTT (an inbound client identity is
\* one) decides nothing.
EvaluatePerformance(baseline, metrics, rules) ==
  LET score == (IF metrics.rtt >= baseline.rtt * rules.rttRatio
                THEN rules.rttWeight ELSE 0)
             + (IF baseline.rttvar > 0 /\ metrics.rttvar >= baseline.rttvar * rules.rttvarRatio
                THEN rules.rttvarWeight ELSE 0)
             + (IF metrics.retrans >= rules.retransThreshold
                THEN rules.retransWeight ELSE 0)
  IN  IF ~rules.performance \/ baseline.count = 0 \/ baseline.rtt = 0
      THEN [state |-> "INSUFFICIENT_EVIDENCE", confidence |-> 0]
      ELSE [state |-> IF score >= rules.degraded THEN "DEGRADED" ELSE "NORMAL",
            confidence |-> score]

----
(***************************************************************************)
(* Outbound connections.                                                    *)
(***************************************************************************)

\* exact_outbound_identity: the first server identity that the sensor read
\* exactly and that was correlated exactly with this connection.
ExactOutboundIdentity(evidence) ==
  LET exact == {i \in DOMAIN evidence :
                  /\ evidence[i].correlation = "EXACT"
                  /\ evidence[i].fidelity = "EXACT"
                  /\ evidence[i].relation = "OUTBOUND_SERVER_IDENTITY"}
  IN  IF exact = {} THEN << >> ELSE << evidence[Min(exact)] >>

\* exact_tls_observation: the chain is valid when the application authenticated
\* the peer and no verification failure is recorded; the host name when the name
\* expected is known and is the one that matched.
ExactTlsObservation(evidence) ==
  LET exact == ExactOutboundIdentity(evidence)
  IN  IF exact = << >> THEN << >>
      ELSE LET e == Head(exact)
           IN  << [chain |-> e.authenticated /\ e.verify \in {"NONE", "OK"},
                   hostname |-> e.nameMatched, spki |-> e.spki, issuer |-> e.issuer,
                   hash |-> << e >>] >>

\* As OutboundTrust below, but a baseline that accepted no identity is compared like any other.
TrustWithoutAcceptance(baseline, tls, rules) ==
  IF ~rules.outIdentity \/ tls = << >> THEN "UNVERIFIED"
  ELSE IF \/ rules.outChain /\ ~Head(tls).chain
          \/ rules.outHostname /\ ~Head(tls).hostname THEN "SUSPICIOUS"
  ELSE IF rules.outSpki /\ baseline.spki \notin {"", Head(tls).spki} THEN "CHANGED"
  ELSE "STABLE"

\* The trust half of evaluate.
OutboundTrust(baseline, tls, rules) ==
  IF ~rules.outIdentity \/ tls = << >> \/ baseline.spki = "" THEN "UNVERIFIED"
  ELSE IF \/ rules.outChain /\ ~Head(tls).chain
          \/ rules.outHostname /\ ~Head(tls).hostname THEN "SUSPICIOUS"
  ELSE IF rules.outSpki /\ Head(tls).spki # baseline.spki THEN "CHANGED"
  ELSE "STABLE"

\* evaluate: the verdict of an outbound connection, with the inputs its hash
\* covers.
Evaluate(baseline, metrics, tls, rules) ==
  LET performance == EvaluatePerformance(baseline, metrics, rules)
  IN  [performance |-> performance.state, confidence |-> performance.confidence,
       trust |-> OutboundTrust(baseline, tls, rules),
       rules |-> rules, baseline |-> << baseline >>,
       input |-> << << baseline >>, metrics, IF tls = << >> THEN << >> ELSE Head(tls).hash, rules >>]

----
(***************************************************************************)
(* Inbound connections: the identity of an authenticated client.            *)
(***************************************************************************)

InboundRelations == {"INBOUND_TLS_SESSION", "INBOUND_CLIENT_IDENTITY"}

\* inbound_trust_context: only evidence of the server's own side counts, and only
\* one exact item names the client; more than one is ambiguous.  The hash covers
\* the items that decided.
InboundTrustContext(evidence) ==
  LET relevant == SelectSeq(evidence, LAMBDA e : e.role = "SERVER" /\ e.relation \in InboundRelations)
      exact    == SelectSeq(relevant, LAMBDA e : e.fidelity = "EXACT" /\ e.correlation = "EXACT")
      one      == Len(exact) = 1
  IN  [observed |-> relevant # << >>, exact |-> one, ambiguous |-> Len(exact) > 1,
       certificate |-> one /\ exact[1].certificate,
       required |-> one /\ exact[1].required,
       verify |-> IF one THEN exact[1].verify ELSE "NONE",
       authenticated |-> one /\ exact[1].authenticated,
       spki |-> IF one THEN exact[1].spki ELSE "",
       subject |-> IF one THEN exact[1].subject ELSE "",
       issuer |-> IF one THEN exact[1].issuer ELSE "",
       hash |-> IF exact = << >> THEN relevant ELSE exact]

\* inbound_client_baseline_key: the service (its user and executable) and the
\* client's subject; no subject or no known process, no key.
InboundClientKey(conn, subject) ==
  IF conn.direction # "INBOUND" \/ subject = "" \/ conn.process = "" THEN << >>
  ELSE << conn.process, subject >>

\* The trust half of evaluate_inbound: the first condition that holds decides.
InboundTrust(accepted, context, rules) ==
  IF \/ ~rules.inIdentity
     \/ context.ambiguous
     \/ ~context.observed
     \/ rules.inExact /\ ~context.exact
     \/ rules.inCertificate /\ ~context.certificate
  THEN "UNVERIFIED"
  ELSE IF rules.inVerify /\ context.required /\ context.verify = "FAILED" THEN "SUSPICIOUS"
  ELSE IF \/ rules.inAuthenticated /\ ~context.authenticated
          \/ context.subject = ""
          \/ accepted = << >>
          \/ accepted # << >> /\ Head(accepted).spki = ""
  THEN "UNVERIFIED"
  ELSE IF \/ rules.inSpki /\ context.spki # Head(accepted).spki
          \/ rules.inIssuer /\ Head(accepted).issuer \notin {"", context.issuer}
  THEN "CHANGED" ELSE "STABLE"

\* evaluate_inbound: the performance of an inbound connection is never judged.
EvaluateInbound(accepted, metrics, context, rules) ==
  [performance |-> "INSUFFICIENT_EVIDENCE", confidence |-> 0,
   trust |-> InboundTrust(accepted, context, rules),
   rules |-> rules, baseline |-> accepted,
   input |-> << accepted, metrics, context, rules >>]

====
