\* One shared object, two writers and two task attempts.
SPECIFICATION Spec
CONSTANTS
  b1 = b1
  p1 = p1
  p2 = p2
  w1 = w1
  w2 = w2
  d1 = d1
  d2 = d2
  Blobs = {b1}
  Posts = {p1, p2}
  Writers = {w1, w2}
  Workers = {d1, d2}
  Requests <- RequestsDef
  MediaInputs <- MediaInputsDef
  Responses <- ResponsesDef
  MaxWrites = 4
SYMMETRY Symmetry
INVARIANTS
  ReferencedIsReadable
  UnreferencedIsScheduled
PROPERTIES
  CompletionIsTruthful
CHECK_DEADLOCK FALSE
