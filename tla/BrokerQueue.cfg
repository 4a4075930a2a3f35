CONSTANTS
  MaxEvents = 4
  MaxConns = 4
SPECIFICATION FairSpec
INVARIANTS NothingLost InOrder
PROPERTIES HelloFirst ExpiredWhenGone EventsArrive
