SPECIFICATION Spec
CONSTANTS
  Platforms = {"windows", "linux"}
  Upgrades = {"u1", "u2"}
  BuildOf <- MCBuildOf
  InstalledBuild = "old"
  Workers = {"w1"}
  MaxFaults = 1
INVARIANTS SurvivingVersion RollbackRestores EndsInOrder
PROPERTIES EverySettles
CHECK_DEADLOCK FALSE
