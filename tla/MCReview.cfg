SPECIFICATION FairReview
CONSTANTS
  p1 = p1
  p2 = p2
  i1 = i1
  i2 = i2
  o1 = o1
  red = red
  blue = blue
  k1 = k1
  NoId = NoId
  Callers = {p1, p2}
  Ids = {i1, i2}
  Bodies = {red, blue}
  Versions = {0}
  Observations = {o1}
  Says <- AllRed
  Reconcilers = {k1}
INVARIANTS
  ConfirmedByCommand
PROPERTIES
  VerdictsStand
  ClaimsEnd
