\* May the stop callback call stop()?
SPECIFICATION Spec
CONSTANTS
  main = main
  gtk = gtk
  Stopper = {main}
  Runner = Runner
  Async = TRUE
  Realtime = TRUE
  StopCallback = "stop"
  Starts = 1
  Nobody = Nobody
INVARIANTS
  StopCallbackMayStop
CHECK_DEADLOCK FALSE
