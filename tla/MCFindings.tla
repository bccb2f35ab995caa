---- MODULE MCFindings ----
(***************************************************************************)
(* ProcessFindingRuntime model-checked on small hosts: the process graph    *)
(* with the sensors and the finding store, and the evidence about executed  *)
(* files.  The two share no table, so a behaviour of the run is a behaviour *)
(* of one of them; `part` says which, and the other's state is idle.        *)
(***************************************************************************)
EXTENDS ProcessFindings, ArtifactEvidence

VARIABLE part

\* The second rule set has two rules that the first content matches.
MCHits(content, ruleset) == IF <<content, ruleset>> = <<"a", "r2">> THEN {"rule1", "rule2"} ELSE {}

OfProcesses(B) == part = "processes" /\ B /\ UNCHANGED <<part, evidenceVars>>
OfArtifacts(B) == part = "artifacts" /\ B /\ UNCHANGED <<part, vars>>

FindingsInit ==
  /\ part \in {"processes", "artifacts"} /\ Init /\ EvidenceInit
  /\ part = "artifacts" => platform = "linux"
  /\ part = "processes" =>
       host = (CHOOSE h \in Hosts : TRUE) /\ file = (CHOOSE c \in Contents : TRUE) /\ rulesFile = (CHOOSE r \in Rulesets : TRUE)
FindingsNext == OfProcesses(Next) \/ OfArtifacts(EvidenceNext)
FindingsSpec ==
  /\ FindingsInit /\ [][FindingsNext]_<<part, vars, evidenceVars>>
  /\ WF_<<part, evidenceVars>>(OfArtifacts(Start("service")))
  /\ WF_<<part, evidenceVars>>(OfArtifacts(Step("service")))
  /\ WF_<<part, evidenceVars>>(OfArtifacts(Report \/ Conclude))
  /\ WF_<<part, evidenceVars>>(OfArtifacts(\E m \in outbox : Deliver(m)))

----
MCPids == 1..2
MCMaxExtras == [linux |-> 2, windows |-> 1]

\* An enrolled service alone: more rows than a report takes, and two faults; a
\* manual observe beside a service that is not enrolled.
MCHosts ==
  {[processes |-> {"service"}, enrolled |-> TRUE, execs |-> 3, edits |-> 2, faults |-> 0],
   [processes |-> {"service"}, enrolled |-> TRUE, execs |-> 2, edits |-> 1, faults |-> 2],
   [processes |-> {"service", "observe"}, enrolled |-> FALSE, execs |-> 2, edits |-> 1, faults |-> 0]}
====
