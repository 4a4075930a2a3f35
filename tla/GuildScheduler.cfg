SPECIFICATION FairSpec
CONSTANTS
  Guilds = {g1, g2}
  Faulty = {g1}
  MaxCommands = 2
  Busy = {g1}
INVARIANTS
  SuspendedNotRunning
  EventsInOrder
  ShutdownDrainsInbox
CHECK_DEADLOCK FALSE
PROPERTY BacklogServed
