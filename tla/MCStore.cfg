SPECIFICATION Spec
CONSTANTS
  p1 = p1
  p2 = p2
  i1 = i1
  i2 = i2
  b1 = b1
  b2 = b2
  Callers <- MCCallers
  Ids <- MCIds
  Bodies <- MCBodies
  Versions = {0, 1}
  Times = {1, 2}
  EventCounts = {1, 2}
INVARIANTS
  OneHistory
  PastStates
  EventsInOrder
  AnswersAreTrue
  TimeMovesForward
PROPERTIES
  ImplementsLog
SYMMETRY MCSymmetry
