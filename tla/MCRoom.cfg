SPECIFICATION Spec
CONSTANTS
  p1 = p1
  p2 = p2
  p3 = p3
  m1 = m1
  m2 = m2
  Callers <- MCCallers
  RoomTypes = {"match", "casual"}
  Configs = {"first", "second", "incomplete"}
  Complete = {"first", "second"}
  Ids <- MCIds
  Legacy = legacy
  NoMatch = none
INVARIANTS
  OneAuthority
  StartedOnceWhenReady
PROPERTIES
  SetupLocked
  AcknowledgementsKept
SYMMETRY MCSymmetry
