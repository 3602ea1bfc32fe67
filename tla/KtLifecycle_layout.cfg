\* One daemon start and one application start, in any interleaving.
CONSTANTS
  a1 = a1
  Apps <- MC_Apps
  MaxStarts = 1
  MaxAppRuns = 1
SPECIFICATION Spec
INVARIANT AppSeesLayout
CHECK_DEADLOCK FALSE
