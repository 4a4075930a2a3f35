SPECIFICATION Spec
CONSTANTS Callers = {c1, c2} Authors = {c1} Names = {n1}
Meta <- MCMeta
LIMIT = 0 PluginLimit = 1 MaxReqs = 3 MaxReloads = 2 MaxFails = 1
INVARIANTS ScriptLimit UserPluginLimit CommandsComplete
 
CHECK_DEADLOCK FALSE
