\* Two daemon starts, with crashes and SIGINT at any step.
CONSTANTS
  a1 = a1
  Apps <- MC_Apps
  MaxStarts = 2
  MaxAppRuns = 1
SPECIFICATION Spec
INVARIANT DaemonRestarts
CHECK_DEADLOCK FALSE
