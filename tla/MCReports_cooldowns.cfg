SPECIFICATION Spec
CONSTANTS
  Scenarios <- MCScenarios
  Cooldown = 2
  Confidence = 80
  Mode = "SIGNIFICANT"
  MaxClock = 2
INVARIANTS CooldownsAreEarned  LargeIngressIsDecided
CHECK_DEADLOCK FALSE
