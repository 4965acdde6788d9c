SPECIFICATION FairSpec
CONSTANTS
  t1 = t1
  t2 = t2
  p1 = p1
  p2 = p2
  Threads <- TwoThreads
  Plugins <- TwoPlugins
  PluginOf <- OneEach
  Enders <- OneThread
  MaxEvents = 2
  Filters = FALSE
  Listeners = FALSE
  Flush = FALSE
  Nested = FALSE
INVARIANTS OneActiveEvent IconQuiescent
PROPERTIES TriggeredEventsEnd UpFuncsAreCalled
CHECK_DEADLOCK FALSE
