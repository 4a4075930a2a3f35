SPECIFICATION FairSpec
CONSTANTS
  g1 = g1
  g2 = g2
  g3 = g3
  Guilds = {g1, g2, g3}
  NoGuild = NoGuild
  MAX_PREMIUM_SLOT_TIER = 2
  Boot <- TwoLite
  MaxWorkerId = 4
  StartFaults = {"early_hello", "crash"}
INVARIANTS
  SingleOwner
  
  OneWarmWorkerPerPool
PROPERTIES TopTierServed PoolAllocates ServedInOrder
CHECK_DEADLOCK FALSE
