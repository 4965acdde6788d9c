SPECIFICATION Spec
CONSTANTS
  Files = {f1, f2}
  NoFile = NoFile
  UndoLimit = 2
  MaxEdits = 2
  MaxLoads = 1
  Overlap = TRUE
  Failures = {"write", "parse"}
SYMMETRY Symmetry
INVARIANTS PathsStayValid FileOrTemp
CHECK_DEADLOCK FALSE
