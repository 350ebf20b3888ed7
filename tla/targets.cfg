SPECIFICATION TargetsSpec
CONSTANTS
  s1 = s1  s2 = s2
  Parts = {"compose", "k8s"}
  Service = {s1, s2}
  Tag = {v1, v2}
  Custom = {}
  Dot <- MCDot
  Mentions = {}
  Kin <- MCKin
  Sites <- MCSites
  Attempts = 2
  MaxDeploys = 2
  MaxFaults = 1
  MaxChanges = 1
  MaxEdits = 1
  MaxCancels = 1
  MaxTroubles = 2
  None = None
  Modes <- MCModes
  Applies = 2
  MaxJobs = 3
  MaxLosses = 1
  MaxTurns = 1
SYMMETRY MCSymmetry
INVARIANTS TargetsTypeOK NoSubstitute OperatorsConfigKept
PROPERTIES OkMeansDeployed OkMeansRolledOut OverridesKept
CHECK_DEADLOCK FALSE
