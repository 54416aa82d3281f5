\* Every outcome of every job, two changes of mask files, or one and back again.
SPECIFICATION Spec
CONSTANTS
  Startup <- MCStartup
  Optimizations <- MCOptimizations
  Source <- MCSource
  Binaries <- MCBinaries
  Validation <- MCValidation
  Holdouts <- MCHoldouts
  Baseline <- MCBaseline
  MaxImbalance = 1
  MaxEdits = 2
\* The driver ends.
CHECK_DEADLOCK FALSE
INVARIANT StartedIsOnDisk
INVARIANT PassIsEarned
INVARIANT HoldoutsLast
INVARIANT CostIsMarked
INVARIANT ExitMatchesRecord
INVARIANT NamedMaskWasSolved
INVARIANT LockedMaskHeld
PROPERTY OverrunStops
PROPERTY CampaignEnds
