SPECIFICATION FairSpec
CONSTANTS
  Macros <- ThreeMacros
  MaxLen = 2
  MaxRepeats = 1
  Codes <- SmallCodes
  HandlerLists <- SmallHandlers
INVARIANT RunsAsWritten
PROPERTY ProgramEnds
CHECK_DEADLOCK FALSE
