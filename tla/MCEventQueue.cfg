SPECIFICATION MCSpec
CONSTANTS
  Ids = {a, b, c}
  Vals = {v, w}
  Flags = {TRUE, FALSE}
  Cap = 3
  UCap = 2
  NoEvent = NoEvent
INVARIANTS
  QueueInv
  UniquePendingOnce
PROPERTY
  ImplementsAbstractQueue
