SPECIFICATION FairSpec
CONSTANTS
  Clients = {c1}
  Sched = Sched
  Free = Free
  MaxTasks = 3
  MaxTime = 2
  Delays <- SmallDelays
INVARIANTS NoOversleep EachTaskOnce
PROPERTIES TaskIsStarted StopEndsScheduler
CHECK_DEADLOCK FALSE
