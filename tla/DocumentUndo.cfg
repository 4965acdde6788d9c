SPECIFICATION Spec
CONSTANTS
  Files = {f1, f2}
  NoFile = NoFile
  UndoLimit = 2
  MaxEdits = 3
  MaxLoads = 1
  Overlap = FALSE
  Failures = {"undo", "revert", "mkstemp"}
SYMMETRY Symmetry
INVARIANTS CleanIsSavedUnlessCut
CHECK_DEADLOCK FALSE
