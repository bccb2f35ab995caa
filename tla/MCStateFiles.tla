----------------------------- MODULE MCStateFiles -----------------------------
(***************************************************************************)
(* The files of the state directory that the service and its detached      *)
(* updaters write beside each other, model-checked: the NAP sequence and   *)
(* the rules.  The two share no file, so a behaviour of the run is a       *)
(* behaviour of one of them; `part` says which, and the other's state is   *)
(* idle.                                                                   *)
(***************************************************************************)
EXTENDS NapSequence, RuleUpdate

VARIABLE part

OfSequence(A) == part = "sequence" /\ A /\ UNCHANGED <<part, ruleVars>>
OfRules(A) == part = "rules" /\ A /\ UNCHANGED <<part, vars>>

\* The rules at rest are those of a site that has what it is to have.
StateFilesInit ==
  /\ part \in {"sequence", "rules"} /\ Init /\ RulesInit
  /\ part # "sequence" => platform = "linux" /\ files[Legacy] = 0
  /\ part # "rules" => site = CHOOSE s \in Sites : s.releases[1].rules = BuiltIn
StateFilesNext == OfSequence(Next) \/ OfRules(RulesNext)
StateFilesSpec ==
  /\ StateFilesInit /\ [][StateFilesNext]_<<part, vars, ruleVars>>
  /\ WF_<<part, ruleVars>>(OfRules(Accept(FALSE)))
  /\ WF_<<part, ruleVars>>(OfRules(MarkerAges))
  /\ WF_<<part, ruleVars>>(OfRules(ServiceStops))
  /\ \A w \in Updaters : WF_<<part, ruleVars>>(OfRules(Update(w)))

-----------------------------------------------------------------------------
\* On Linux an interrupted write in place is looked at in a run of its own.
MCMaxFaults == [x \in Platforms |-> IF x = "windows" THEN 4 ELSE 0]

B0 == [rules |-> "b0", yara |-> "y0"]
B1 == [rules |-> "b1", yara |-> "y1"]
\* A bundle that is replaced by another while it is installed; an operator who
\* updates or refreshes while the service converges; YARA content updated by
\* hand, twice, over content that is there.
MCSites ==
  {[os |-> "linux", yara |-> NoFile, releases |-> <<B0, B1>>, failures |-> 1, byHand |-> 0],
   [os |-> "windows", yara |-> NoFile, releases |-> <<B0>>, failures |-> 1, byHand |-> 1],
   [os |-> "linux", yara |-> "y0", releases |-> <<[rules |-> BuiltIn, yara |-> "y1"]>>, failures |-> 1, byHand |-> 2]}
==============================================================================
