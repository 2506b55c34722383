SPECIFICATION StagedSpec
CONSTANTS
  p1 = p1
  p2 = p2
  w1 = w1
  w2 = w2
  c1 = c1
  c2 = c2
  t1 = t1
  t2 = t2
  t3 = t3
  NoChannel = NoChannel
  NoToken = NoToken
  LastEvent = 2
  JobCount <- NoneThenTwo
  Publishers = {p1,p2}
  Channels = {c1,c2}
  Workers = {w1,w2}
  Tokens = {t1,t2}
  MaxAttempts = 1
SYMMETRY Alike
INVARIANTS
  OneOutstanding
  OneChannelPerEvent
PROPERTIES
  KeepsOrder
