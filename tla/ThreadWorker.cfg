SPECIFICATION FairSpec
CONSTANTS
  Callers = {c1, c2}
  MaxJobs = 3
  PostKinds <- UserKinds
  Outcomes <- AllOutcomes
  Flush = TRUE
  Quit = TRUE
INVARIANTS NoLostWakeup StopIsOrderly AnswersAreTrue
PROPERTIES ImplementsWorkQueue FuncReturns StopEndsThread
CHECK_DEADLOCK FALSE
