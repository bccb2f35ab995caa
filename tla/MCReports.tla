---- MODULE MCReports ----
(***************************************************************************)
(* The reporters on a few connections to one host.                          *)
(***************************************************************************)
EXTENDS FindingReports

Verdict(performance, trust, confidence) ==
  << [performance |-> performance, trust |-> trust, confidence |-> confidence] >>

Profile(verdict) ==
  [direction |-> "OUTBOUND", process |-> "exe", host |-> "host", port |-> 443, sent |-> 4,
   fidelity |-> "EXACT", verdict |-> verdict,
   samples |-> << [rtt |-> 1, rttvar |-> 1, retrans |-> 0], [rtt |-> 3, rttvar |-> 1, retrans |-> 2] >>,
   baseline |-> << [spki |-> "A", issuer |-> "issuer"] >>,
   dns |-> << [query |-> "name", canonical |-> "", forward |-> TRUE, failed |-> FALSE,
               correlation |-> "EXACT", addresses |-> {"host"}] >>,
   tls |-> << [correlation |-> "EXACT", relation |-> "OUTBOUND_SERVER_IDENTITY",
               authenticated |-> TRUE, verify |-> "OK", spki |-> "B", issuer |-> "issuer"] >>,
   route |-> << [gateway |-> "gw", interface |-> "eth0"] >>]

Sure == Profile(Verdict("DEGRADED", "STABLE", 100))
Unsure == Profile(Verdict("DEGRADED", "STABLE", 50))
Client == [Profile(Verdict("INSUFFICIENT", "CHANGED", 0)) EXCEPT !.direction = "INBOUND"]

None == [processes |-> {}, hosts |-> {}, remotes |-> {}, ports |-> {}, domains |-> {}, directions |-> {}]
Rule(id, engine, exclude) == [id |-> id, engine |-> engine, enabled |-> TRUE, exclude |-> exclude]

Large(id, exclude, minimum) == Rule(id, "NET-001", exclude) @@ [minimumReceived |-> minimum]
Periodic == Rule("BEH-001", "BEH-001", None) @@
  [minimum |-> 2, window |-> 4, minInterval |-> 1, maxInterval |-> 3, tolerance |-> 50, fraction |-> 80]

\* The context engines, of which TLS-002 matches the profiles and NET-004 does
\* until the host is common.
Context ==
  << Rule("NET-003", "NET-003", None) @@ [allowedPorts |-> {443}],
     Rule("NET-004", "NET-004", None) @@ [maximum |-> 1],
     Rule("NET-005", "NET-005", None) @@ [minimumSent |-> 5, ratio |-> 200, floor |-> 1],
     Rule("DNS-001", "DNS-001", None) @@ [minimum |-> 1],
     Rule("DNS-002", "DNS-002", None) @@ [requireMatch |-> TRUE],
     Rule("DNS-003", "DNS-003", None) @@ [maximum |-> 1],
     Rule("TLS-001", "TLS-001", None) @@ [requireAuthentication |-> TRUE, failureMatch |-> TRUE],
     Rule("TLS-002", "TLS-002", None) @@ [compareSpki |-> TRUE, compareIssuer |-> TRUE],
     Rule("ROUTE-001", "ROUTE-001", None) @@ [gateways |-> {"gw"}, interfaces |-> {}] >>

Scenario(rules_, profiles, enrolled_, n, bytes, stops_) ==
  [rules |-> rules_, profiles |-> profiles, enrolled |-> enrolled_, conns |-> n, bytes |-> bytes,
   stops |-> stops_]

MCScenarios ==
  {Scenario(<< >>, {Sure}, TRUE, 3, 0, 0),
   Scenario(<< >>, {Sure, Client}, TRUE, 2, 0, 1),
   Scenario(<< Large("low", [None EXCEPT !.processes = {"exe"}], 1), Large("high", None, 2) >>,
            {Unsure}, TRUE, 1, 2, 1),
   Scenario(<< Large("only", None, 1) >>, {Unsure}, FALSE, 2, 1, 1),
   Scenario(<< Rule("NET-002", "NET-002", None) @@ [threshold |-> 3], Periodic >>,
            {Unsure}, TRUE, 3, 0, 0),
   Scenario(Context, {Unsure}, TRUE, 2, 0, 0)}
====
