SPECIFICATION GateLiveSpec
CONSTANTS
 p1 = p1
 p2 = p2
 t1 = t1
 t2 = t2
 Process = {p1, p2}
 Thread = {t1, t2}
 Sites <- MCSites
 TTL = 1
 Warn = 1
 MaxLatency = 1
 MaxTurns = 2
INVARIANTS GateTypeOK PassedWasEnabled CreatesWithGrant Provisioned
CHECK_DEADLOCK FALSE
PROPERTIES GateReopens
