SPECIFICATION MetadataSpec
CONSTANTS
  f1 = f1
  f2 = f2
  e1 = e1
  q1 = q1
  NoLease = NoLease
  Fetchers = {f1, f2}
  Edits = {e1}
  Queries = {q1}
  MaxVersion = 2
PROPERTIES
  FailureStaysVisible
