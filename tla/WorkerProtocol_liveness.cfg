CONSTANTS
  Guilds = {ga, gb}
  Workers = {w1}
  None = None
  MaxInputs = 3
  MaxRough = 3
  MaxScripts = 1
  MaxFaults = 1
  Reloads = TRUE
  Stops = FALSE
  Faults = {"crash"}
SPECIFICATION FairSpec
CHECK_DEADLOCK FALSE
PROPERTIES AcksSettled
