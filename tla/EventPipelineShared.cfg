SPECIFICATION Spec
CONSTANTS
  t1 = t1
  t2 = t2
  p1 = p1
  p2 = p2
  Threads <- TwoThreads
  Plugins <- OnePlugin
  PluginOf <- BothForOne
  Enders <- TwoThreads
  MaxEvents = 2
  Filters = TRUE
  Listeners = TRUE
  Flush = TRUE
  Nested = TRUE
SYMMETRY SwapThreads
INVARIANTS OneOpenEvent NoForgottenUpFunc EventsInOrder
PROPERTIES ImplementsLog
CHECK_DEADLOCK FALSE
