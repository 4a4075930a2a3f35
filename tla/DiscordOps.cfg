SPECIFICATION Spec
CONSTANTS MaxBad = 3 Window = 2 MaxReqs = 5 MaxRestarts = 1 MaxNow = 3
INVARIANT BurstsSuspend
PROPERTY OnlyBurstsSuspend
CHECK_DEADLOCK FALSE
