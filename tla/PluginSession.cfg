SPECIFICATION Spec
CONSTANTS
  Files <- TwoFiles
  Contents <- Plugins
  Unreadable = {"broken"}
  FirstFile = "one"
  Failures = {"delete", "fault", "timeout"}
  MaxInstances = 8
  MaxCommands = 3
  MaxEvents = 1
INVARIANTS ClosedStaysClosed ListIsTree EnabledIsStarted NamesAreFree ExitClosesPlugins
CHECK_DEADLOCK FALSE
