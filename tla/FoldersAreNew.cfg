\* The jobs of the plan with one candidate, balanced or not measured.
SPECIFICATION Spec
CONSTANTS
  Startup <- PlanStartup
  Optimizations <- PlanOptimizations
  Source <- PlanSource
  Binaries <- FirstBinaries
  TriedBinaries = 1
  Validation <- PlanValidation
  Holdouts <- PlanHoldouts
  Baseline <- PlanBaseline
  MaxImbalance = 0
  MaxEdits = 0
\* The driver ends.
CHECK_DEADLOCK FALSE
INVARIANT FoldersAreNew
