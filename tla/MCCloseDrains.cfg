CONSTANTS
  Producers = {p1, p2}
  Workers = {w1, w2}
  Event = {e1, e2, e3}
  NoEvent = NoEvent
  NoOne = NoOne
  QueueSize = 1
  ResultSize = 1
  MaxAttempts = 2
CHECK_DEADLOCK FALSE
SPECIFICATION Spec
PROPERTY CloseDrains
