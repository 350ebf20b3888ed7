SPECIFICATION SchedLiveSpec
CONSTANTS
  Project = {p1}
  Approval = {a1, a2}
  NoProject = NoProject
  NoApproval = NoApproval
  User = {dev, lead}
  Requester = {dev}
  Ruled = {a1}
  Approver = {lead}
  Super = {}
  NoUser = NoUser
  Client = {c1, c2}
  MaxMishap = 1
  MaxChange = 1
PROPERTIES ClearedIsLeft DueEnds
CHECK_DEADLOCK FALSE
