SPECIFICATION Spec
CONSTANTS Guilds = {g1, g2}
MinAge = 1 MaxMoves = 4 MaxFails = 1 MaxReconnects = 1 MaxNow = 3
INVARIANT NoOrphans
PROPERTY MembersKeepData
CHECK_DEADLOCK FALSE
