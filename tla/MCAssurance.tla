---- MODULE MCAssurance ----
(***************************************************************************)
(* Verdicts, baselines and replay on two outbound connections of a target,  *)
(* and on two inbound connections of a service.                             *)
(***************************************************************************)
EXTENDS Assurance

MCConnection ==
  << [by |-> "service", direction |-> "OUTBOUND", process |-> "exe", target |-> << "host" >>],
     [by |-> "manual", direction |-> "OUTBOUND", process |-> "exe", target |-> << "host" >>],
     [by |-> "service", direction |-> "INBOUND", process |-> "exe", target |-> << "port" >>],
     [by |-> "service", direction |-> "INBOUND", process |-> "exe", target |-> << "port" >>] >>

MCScenarios == {[ids |-> {1, 2}, events |-> 3, changes |-> 0],
                [ids |-> {1, 2}, events |-> 2, changes |-> 1],
                [ids |-> {3, 4}, events |-> 2, changes |-> 1]}

MCSamples == {[rtt |-> 1, rttvar |-> 1, retrans |-> 0], [rtt |-> 3, rttvar |-> 0, retrans |-> 2]}

Session(role, relation, correlation, spki, ok) ==
  [role |-> role, relation |-> relation, correlation |-> correlation, fidelity |-> "EXACT",
   certificate |-> spki # "", required |-> TRUE, verify |-> IF ok THEN "OK" ELSE "FAILED",
   authenticated |-> ok, nameMatched |-> ok, spki |-> spki,
   subject |-> IF spki = "" THEN "" ELSE "subject", issuer |-> "issuer"]

MCEvidence ==
  {Session("CLIENT", "OUTBOUND_SERVER_IDENTITY", "EXACT", "A", TRUE),
   Session("CLIENT", "OUTBOUND_SERVER_IDENTITY", "SUPPORTING", "B", TRUE),
   Session("SERVER", "INBOUND_CLIENT_IDENTITY", "EXACT", "C", TRUE),
   Session("SERVER", "INBOUND_CLIENT_IDENTITY", "EXACT", "D", TRUE),
   Session("SERVER", "INBOUND_CLIENT_IDENTITY", "EXACT", "C", FALSE),
   Session("SERVER", "INBOUND_TLS_SESSION", "SUPPORTING", "", TRUE)}

Probe(spki) == [chain |-> TRUE, hostname |-> TRUE, spki |-> spki, issuer |-> "issuer",
                hash |-> << spki >>]
MCProbes == {Probe("A")}

Rules(version, degraded) ==
  [version |-> version, performance |-> TRUE, rttRatio |-> 2, rttvarRatio |-> 2,
   retransThreshold |-> 2, rttWeight |-> 50, rttvarWeight |-> 20, retransWeight |-> 30,
   degraded |-> degraded, outIdentity |-> TRUE, outChain |-> TRUE, outHostname |-> TRUE,
   outSpki |-> TRUE, inIdentity |-> TRUE, inExact |-> TRUE, inCertificate |-> TRUE,
   inVerify |-> TRUE, inAuthenticated |-> TRUE, inSpki |-> TRUE, inIssuer |-> TRUE]

MCBuiltIn == {Rules("built-in", 50)}
MCRuleSets == MCBuiltIn \cup {Rules("custom", 90)}
====
