SPECIFICATION Spec
CONSTANTS
  Key = {k1, k2}
  Data = {d1, d2}
  MutableKey = FALSE
  MaxId = 3
  MaxDepth = 3
  MaxRevision = 3
SYMMETRY Symmetry
INVARIANTS UndoSound RevisionsConsecutive
PROPERTY KeepsPromise
