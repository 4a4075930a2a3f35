SPECIFICATION ThreadSpec
CONSTANTS MaxWakes = 1 MaxCmds = 1 MaxBlocks = 2
PROPERTIES RunawayStopped TerminatedEnds
CHECK_DEADLOCK FALSE
