SPECIFICATION LiveSpec
CONSTANTS
  i1 = i1  i2 = i2  w1 = w1  w2 = w2  p1 = p1  dev = dev  lead = lead
  Project = {p1}
  Approval = {a1}
  Instance = {i1, i2}
  Worker = {w1, w2}
  Home <- MCHome
  User = {dev, lead}
  Approver = {dev, lead}
  Super = {dev, lead}
  NoProject = NoProject  NoApproval = NoApproval  NoRunner = NoRunner
  Gone = Gone  NoUser = NoUser
  Request <- MCMixed
  MaxLog = 1
  MaxCancel = 0
  TimelyHeartbeat = TRUE
  Faults = TRUE
PROPERTIES DeployingResolves LockReleased SweepSparesLive
