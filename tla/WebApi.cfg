SPECIFICATION Spec
CONSTANTS Callers = {c1, c2} Conns = {w1} Guilds = {g1, g2}
USER_API_KEY_LIMIT = 0 Capacity = 1 MaxEntries = 2 MaxOps = 4 MaxFails = 1
INVARIANTS KeyLimit  NoLogLost
SYMMETRY Symmetry
CHECK_DEADLOCK FALSE
