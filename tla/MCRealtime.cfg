SPECIFICATION FairRealtime
CONSTANTS
  p1 = p1
  s1 = s1
  i1 = i1
  i2 = i2
  i3 = i3
  b1 = b1
  Callers = {p1}
  Ids = {i1, i2, i3}
  Bodies = {b1}
  Versions = {0, 1, 2}
  Times = {1}
  EventCounts = {1, 2}
  Subscribers = {s1}
  PageSize = 2
  Watched = {1, 2, 3, 4, 5, 6}
INVARIANTS
  ViewIsConsistent
PROPERTIES
  StreamIsGapless
  EventsReachSubscribers
