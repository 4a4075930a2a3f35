CONSTANTS
  Guilds = {ga, gb}
  Workers = {w1}
  None = None
  MaxInputs = 5
  MaxRough = 3
  MaxScripts = 2
  MaxFaults = 1
  Reloads = TRUE
  Stops = TRUE
  Faults = {"kill", "panic", "invalid", "crash"}
SPECIFICATION Spec
CHECK_DEADLOCK FALSE
INVARIANTS AcksOwn ContribsOwn  WorkersAccountedFor
SYMMETRY GuildSymmetry
