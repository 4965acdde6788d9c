SPECIFICATION Spec
CONSTANTS
  Files = {f1}
  NoFile = NoFile
  UndoLimit = 3
  MaxEdits = 3
  MaxLoads = 1
  Overlap = FALSE
  Failures = {}
SYMMETRY Symmetry
INVARIANT CleanIsSaved
CHECK_DEADLOCK FALSE
