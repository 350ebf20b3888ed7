SPECIFICATION TargetsSpec
CONSTANTS
  s1 = s1  s2 = s2
  Parts = {"k8s"}
  Service = {s1, s2}
  Tag = {v1, v2}
  Custom = {}
  Dot <- MCDot
  Mentions = {}
  Kin <- MCKin
  Sites <- MCSites
  Attempts = 1
  MaxDeploys = 0
  MaxFaults = 0
  MaxChanges = 0
  MaxEdits = 0
  MaxCancels = 0
  MaxTroubles = 0
  None = None
  Modes <- MCModes
  Applies = 1
  MaxJobs = 3
  MaxLosses = 0
  MaxTurns = 0
PROPERTIES KubectlRollsBack
CHECK_DEADLOCK FALSE
