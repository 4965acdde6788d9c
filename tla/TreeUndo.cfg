SPECIFICATION Spec
CONSTANTS
  FirstChilds <- TwoMacros
  FirstLinks <- TwoJumps
  MaxId = 7
  MaxEdits = 3
  Commands = {"delete", "move", "configure", "toggle", "new", "paste"}
  MaxMixed = 2
  MaxPasted = 1
  MaxDialogs = 2
INVARIANTS TypeOK UndoRestoresItems  NoDanglingJumps
CHECK_DEADLOCK FALSE
