SPECIFICATION Spec
CONSTANTS
  Connection <- MCConnection
  Scenarios <- MCScenarios
  Samples <- MCSamples
  Evidence <- MCEvidence
  Probes <- MCProbes
  RuleSets <- MCRuleSets
  BuiltIn <- MCBuiltIn
  MinRtts = 1
  MaxBaselines = 2
INVARIANTS  TrustIsEarned
CHECK_DEADLOCK FALSE
